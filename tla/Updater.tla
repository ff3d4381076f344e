------------------------------ MODULE Updater ------------------------------
(***************************************************************************)
(* The updater (crates/deviceout-updater, crates/deviceout-update): short- *)
(* lived processes that share a directory and the mutex Local\DeviceOut.   *)
(* Update.  A check reads the signed feed, downloads the installer and     *)
(* leaves it with a manifest; an apply runs it, from a copy of its own     *)
(* program.  A process may be killed between any two steps, and the         *)
(* publisher replaces three files on the server one after the other.       *)
(* PendingView.tla has the plugin's reading of the same directory.         *)
(*                                                                         *)
(* One bundle is installed.  Corrupt is content that hashes to no version's*)
(* sha256.  A write that replaces a file whole (atomic_write, rename) is   *)
(* one step, and succeeds.  Of state.json, what is only shown is left out. *)
(***************************************************************************)
EXTENDS PendingDir

CONSTANTS
    Procs,       \* processes that may exist at once
    None,        \* no process
    MaxCrashes   \* bound: processes killed

ASSUME UpdaterAssumption ==
    /\ None \notin Procs
    /\ MaxCrashes \in Nat

Corrupt == -1

VARIABLES
    server,     \* uploaded: newest setup; sig: signed version; feed: version of latest.json
    installed,  \* version of the bundle's dll, NoVersion when there is none
    state,      \* state.json
    due,        \* the windows of should_check have passed
    part,       \* setup.exe.part in the pending directory, beside setup and manifest
    holder,     \* owner of the mutex
    abandoned,  \* the owner died while another process had the mutex open
    proc,       \* each process: its step and what it keeps in memory
    crashes

world_vars == <<server, installed>>
pending_vars == <<part, setup, manifest>>
vars == <<world_vars, state, due, pending_vars, holder, abandoned, proc, crashes>>

NoState == [latest |-> NoVersion, etag |-> NoVersion, install_error |-> FALSE]
Off == [pc |-> "off", kind |-> "none", st |-> NoState,
        ask |-> NoVersion, version |-> NoVersion, current |-> NoVersion]

Init ==
    /\ \E v \in {NoVersion, 1} : server = [uploaded |-> v, sig |-> v, feed |-> v]
    /\ installed = 1
    /\ state = NoState /\ due = TRUE
    /\ part = NoVersion /\ setup = NoVersion /\ manifest = NoVersion
    /\ holder = None /\ abandoned = FALSE
    /\ proc = [p \in Procs |-> Off]
    /\ crashes = 0

-----------------------------------------------------------------------------
needs_no_fetch(st, current) == FALSE  \* a slip: the etag is always sent

needs_full_fetch(st, current) == st.latest > current /\ verify_pending # st.latest

-----------------------------------------------------------------------------
(* The mutex.  Every process has it open but one that is off and a copy    *)
(* that has only been started; one that does not wait for it has it.       *)

At(p, pc) == proc[p].pc = pc
Open(p) == proc[p].pc \notin {"off", "copied"}

Goto(p, pc) == proc' = [proc EXCEPT ![p].pc = pc]

\* The process ends; its guard, dropped, releases the mutex.
Exit(p) ==
    /\ proc' = [proc EXCEPT ![p] = Off]
    /\ holder' = IF holder = p THEN None ELSE holder

StartCheckAnyway(p) ==         \* a slip: the mutex is not asked for
    /\ At(p, "off")
    /\ proc' = [proc EXCEPT ![p].pc = "check", ![p].kind = "check"]
    /\ holder' = p
    /\ UNCHANGED <<world_vars, state, due, pending_vars, abandoned, crashes>>

\* try_acquire: another process that has the mutex open is enough to refuse.
StartCheck(p) ==
    /\ At(p, "off") /\ \A q \in Procs : ~Open(q)
    /\ proc' = [proc EXCEPT ![p].pc = "check", ![p].kind = "check"]
    /\ holder' = p
    /\ UNCHANGED <<world_vars, state, due, pending_vars, abandoned, crashes>>

\* --check-now and --apply-pending wait for it.
StartWaiting(p, kind) ==
    /\ At(p, "off")
    /\ proc' = [proc EXCEPT ![p].pc = "wait", ![p].kind = kind]
    /\ UNCHANGED <<world_vars, state, due, pending_vars, holder, abandoned, crashes>>

\* The copy that applies comes to the same call.
OpenMutex(p) ==
    /\ At(p, "copied") /\ Goto(p, "wait")
    /\ UNCHANGED <<world_vars, state, due, pending_vars, holder, abandoned, crashes>>

wait_acquire(p) ==
    /\ At(p, "wait") /\ holder = None /\ ~abandoned
    /\ holder' = p
    /\ Goto(p, IF proc[p].kind = "check-now" THEN "check" ELSE "apply")
    /\ UNCHANGED <<world_vars, state, due, pending_vars, abandoned, crashes>>

\* A timeout, or WAIT_ABANDONED, which is not WAIT_OBJECT_0 either; the mutex
\* is forgotten when the last process that has it open is gone.
WaitFails(p) ==
    /\ At(p, "wait") /\ (holder # None \/ abandoned)
    /\ Exit(p)
    /\ abandoned' = (abandoned /\ \E q \in Procs \ {p} : Open(q))
    /\ UNCHANGED <<world_vars, state, due, pending_vars, crashes>>

-----------------------------------------------------------------------------
(* check::run *)

Fails(p) == Goto(p, "error") /\ UNCHANGED holder

check_begin(p) ==
    /\ At(p, "check")
    /\ LET force == proc[p].kind = "check-now"
       IN  \/ installed = NoVersion /\ Fails(p) /\ UNCHANGED due
           \/ installed # NoVersion /\ ~force /\ ~due /\ Exit(p) /\ UNCHANGED due
           \/ /\ installed # NoVersion /\ (force \/ due)
              /\ due' = FALSE
              /\ proc' = [proc EXCEPT
                     ![p].pc = "fetch", ![p].st = state, ![p].current = installed,
                     ![p].ask = IF force \/ needs_full_fetch(state, installed)
                                THEN NoVersion ELSE state.etag]
              /\ UNCHANGED holder
    /\ UNCHANGED <<world_vars, state, pending_vars, abandoned, crashes>>

finish_ok(p, st) ==
    /\ state' = st /\ due' = FALSE
    /\ Exit(p)

\* fetch_feed: 304, 404, or the body with its etag.
FetchFeed(p) ==
    /\ At(p, "fetch")
    /\ \/ server.feed \in {proc[p].ask, NoVersion} /\ finish_ok(p, proc[p].st)
       \/ /\ server.feed \notin {proc[p].ask, NoVersion}
          /\ proc' = [proc EXCEPT ![p].pc = "verify", ![p].version = server.feed]
          /\ UNCHANGED <<holder, state, due>>
    /\ UNCHANGED <<world_vars, pending_vars, abandoned, crashes>>

FetchSignatureSaves(p) ==      \* a slip: the etag is saved before the download
    LET v == proc[p].version IN
    /\ At(p, "verify")
    /\ \/ server.sig # v /\ Fails(p) /\ UNCHANGED <<state, due>>
       \/ /\ server.sig = v /\ v > proc[p].current
          /\ proc' = [proc EXCEPT ![p].pc = "download", ![p].st.etag = v]
          /\ state' = [state EXCEPT !.etag = v]
          /\ UNCHANGED <<holder, due>>
       \/ /\ server.sig = v /\ v <= proc[p].current
          /\ finish_ok(p, [proc[p].st EXCEPT !.etag = v, !.latest = v])
    /\ UNCHANGED <<world_vars, pending_vars, abandoned, crashes>>

\* The signature is of the feed that was read, or of another.
FetchSignature(p) ==
    LET v == proc[p].version IN
    /\ At(p, "verify")
    /\ \/ server.sig # v /\ Fails(p) /\ UNCHANGED <<state, due>>
       \/ /\ server.sig = v /\ v > proc[p].current
          /\ proc' = [proc EXCEPT ![p].pc = "download", ![p].st.etag = v]
          /\ UNCHANGED <<holder, state, due>>
       \/ /\ server.sig = v /\ v <= proc[p].current
          /\ finish_ok(p, [proc[p].st EXCEPT !.etag = v, !.latest = v])
    /\ UNCHANGED <<world_vars, pending_vars, abandoned, crashes>>

\* The body may arrive damaged.
Download(p, content) ==
    /\ At(p, "download")
    /\ part' = content
    /\ Goto(p, "hash")
    /\ UNCHANGED <<world_vars, state, due, setup, manifest, holder, abandoned, crashes>>

CheckHash(p) ==
    /\ At(p, "hash")
    /\ IF part = proc[p].version
       THEN Goto(p, "rename") /\ UNCHANGED <<part, holder>>
       ELSE part' = NoVersion /\ Fails(p)
    /\ UNCHANGED <<world_vars, state, due, setup, manifest, abandoned, crashes>>

ReplaceSetup(p) ==
    /\ At(p, "rename")
    /\ setup' = part /\ part' = NoVersion
    /\ Goto(p, "manifest")
    /\ UNCHANGED <<world_vars, state, due, manifest, holder, abandoned, crashes>>

write_manifest(p) ==
    /\ At(p, "manifest")
    /\ manifest' = proc[p].version
    /\ Goto(p, "finish")
    /\ UNCHANGED <<world_vars, state, due, part, setup, holder, abandoned, crashes>>

FinishCheck(p) ==
    /\ At(p, "finish")
    /\ finish_ok(p, [proc[p].st EXCEPT !.latest = proc[p].version])
    /\ UNCHANGED <<world_vars, pending_vars, abandoned, crashes>>

\* The network: no connection, an http status, a timeout.
NetworkFails(p) ==
    /\ proc[p].pc \in {"fetch", "verify", "download"}
    /\ part' \in (IF At(p, "download") THEN {part, Corrupt} ELSE {part})
    /\ Fails(p)
    /\ UNCHANGED <<world_vars, state, due, setup, manifest, abandoned, crashes>>

\* main reloads state.json, so that nothing of the failed check is kept but
\* the text of its error.
NoteError(p) ==
    /\ At(p, "error")
    /\ Exit(p)
    /\ UNCHANGED <<world_vars, state, due, pending_vars, abandoned, crashes>>

-----------------------------------------------------------------------------
(* apply::apply_pending *)

apply_begin_unguarded(p) ==    \* a slip: the copy does not wait for the mutex
    LET ready == verify_pending
        copy  == proc[p].kind = "from-temp"
    IN  /\ At(p, "apply")
        /\ \/ Exit(p) /\ (ready = NoVersion \/ ~copy)
           \/ /\ ready # NoVersion /\ ~copy
              /\ proc' = [proc EXCEPT ![p].kind = "from-temp"]
              /\ holder' = IF holder = p THEN None ELSE holder
           \/ /\ ready # NoVersion /\ copy
              /\ proc' = [proc EXCEPT ![p].version = ready,
                                      ![p].pc = IF installed = NoVersion THEN "discard" ELSE "unlock"]
              /\ UNCHANGED holder
        /\ UNCHANGED <<world_vars, state, due, pending_vars, abandoned, crashes>>

\* The process that was asked copies itself and leaves (or cannot); the copy
\* waits for the mutex in its turn and looks at the files again.
apply_begin(p) ==
    LET ready == verify_pending
        copy  == proc[p].kind = "from-temp"
    IN  /\ At(p, "apply")
        /\ \/ Exit(p)   \* no valid pending, or the copy cannot be made
              /\ (ready = NoVersion \/ ~copy)
           \/ /\ ready # NoVersion /\ ~copy
              /\ proc' = [proc EXCEPT ![p].pc = "copied", ![p].kind = "from-temp"]
              /\ holder' = IF holder = p THEN None ELSE holder
           \/ /\ ready # NoVersion /\ copy
              /\ proc' = [proc EXCEPT ![p].version = ready,
                                      ![p].pc = IF installed = NoVersion THEN "discard" ELSE "unlock"]
              /\ UNCHANGED holder
        /\ UNCHANGED <<world_vars, state, due, pending_vars, abandoned, crashes>>

\* While a host has the dll the user may retry, or cancel.  Hosts start and
\* end at any time, so whether one has it is left open, here and below.
wait_until_unlocked(p) ==
    /\ At(p, "unlock")
    /\ \/ Goto(p, "inno") /\ UNCHANGED holder
       \/ Exit(p)
    /\ UNCHANGED <<world_vars, state, due, pending_vars, abandoned, crashes>>

\* What a run of the installer, or of the part of it that ran, leaves.
Installs == {installed} \cup ({setup} \ {NoVersion})

run_inno_trusted(p) ==         \* a slip: the exit code is believed
    /\ At(p, "inno")
    /\ installed' \in Installs
    /\ \E pc \in {"cleanup", "failed"} : Goto(p, pc)
    /\ UNCHANGED <<server, state, due, pending_vars, holder, abandoned, crashes>>

\* run_inno: only exit code 0 and the promised version count as success.
run_inno(p) ==
    /\ At(p, "inno")
    /\ installed' \in Installs
    /\ \/ setup # NoVersion /\ installed' = proc[p].version /\ Goto(p, "cleanup")
       \/ Goto(p, "failed")
    /\ UNCHANGED <<server, state, due, pending_vars, holder, abandoned, crashes>>

\* remove_dir_all, one entry at a time; it may stop early, and nobody looks.
remove_dir_all(p) ==
    /\ proc[p].pc \in {"cleanup", "discard"}
    /\ \/ setup # NoVersion /\ setup' = NoVersion /\ UNCHANGED <<part, manifest, proc, holder>>
       \/ manifest # NoVersion /\ manifest' = NoVersion /\ UNCHANGED <<part, setup, proc, holder>>
       \/ part # NoVersion /\ part' = NoVersion /\ UNCHANGED <<setup, manifest, proc, holder>>
       \/ /\ IF At(p, "discard") THEN Exit(p) ELSE Goto(p, "done") /\ UNCHANGED holder
          /\ UNCHANGED pending_vars
    /\ UNCHANGED <<world_vars, state, due, abandoned, crashes>>

NoteInstall(p) ==
    /\ proc[p].pc \in {"done", "failed"}
    /\ state' = [state EXCEPT !.install_error = At(p, "failed")]
    /\ Exit(p)
    /\ UNCHANGED <<world_vars, due, pending_vars, abandoned, crashes>>

\* Killed; the kernel releases what it held, and its job takes the installer along.
Crash(p) ==
    /\ crashes < MaxCrashes /\ ~At(p, "off")
    /\ crashes' = crashes + 1
    /\ installed' \in (IF At(p, "inno") THEN Installs ELSE {installed})
    /\ abandoned' = ((abandoned \/ holder = p) /\ \E q \in Procs \ {p} : Open(q))
    /\ Exit(p)
    /\ UNCHANGED <<server, state, due, pending_vars>>

-----------------------------------------------------------------------------
(* The publisher, the user and the clock *)

\* publish: the setup, its signature, then the feed that names it.
PublishSetup ==
    /\ server.uploaded = server.feed /\ server.feed < MaxVersion
    /\ server' = [server EXCEPT !.uploaded = @ + 1]
PublishSignature ==
    /\ server.sig < server.uploaded /\ server' = [server EXCEPT !.sig = @ + 1]
PublishFeed ==
    /\ server.feed < server.sig /\ server' = [server EXCEPT !.feed = @ + 1]

\* The user runs a setup by hand (an old one only while no updater is at
\* work), or removes the bundle.
UserInstalls ==
    \E v \in 1..server.feed : (v = server.feed \/ holder = None) /\ installed' = v
UserRemoves == installed' = NoVersion

WindowsPass ==
    /\ ~due /\ due' = TRUE
    /\ UNCHANGED <<world_vars, state, pending_vars, holder, abandoned, proc, crashes>>

Publish == (PublishSetup \/ PublishSignature \/ PublishFeed) /\ UNCHANGED installed
User == (UserInstalls \/ UserRemoves) /\ UNCHANGED server

Outside ==
    \/ /\ Publish \/ User
       /\ UNCHANGED <<state, due, pending_vars, holder, abandoned, proc, crashes>>
    \/ WindowsPass

-----------------------------------------------------------------------------
Start(p) == StartCheck(p) \/ \E kind \in {"check-now", "apply"} : StartWaiting(p, kind)

Step(p) ==
    \/ OpenMutex(p) \/ wait_acquire(p) \/ WaitFails(p)
    \/ check_begin(p) \/ FetchFeed(p) \/ FetchSignature(p)
    \/ \E content \in {proc[p].version, Corrupt} : Download(p, content)
    \/ CheckHash(p) \/ ReplaceSetup(p) \/ write_manifest(p) \/ FinishCheck(p)
    \/ NetworkFails(p) \/ NoteError(p)
    \/ apply_begin(p) \/ wait_until_unlocked(p) \/ run_inno(p) \/ remove_dir_all(p)
    \/ NoteInstall(p)

Next ==
    \/ \E p \in Procs : Start(p) \/ Step(p) \/ Crash(p)
    \/ Outside

Spec == Init /\ [][Next]_vars

-----------------------------------------------------------------------------
(* Properties *)

States == [latest : 0..MaxVersion, etag : 0..MaxVersion, install_error : BOOLEAN]
Kinds == {"none", "check", "check-now", "apply", "from-temp"}
Steps == {"off", "copied", "wait", "check", "fetch", "verify", "download", "hash", "rename", "manifest", "finish",
          "error", "apply", "unlock", "inno", "cleanup", "done", "discard", "failed"}

\* Every variable has its type.
TypeOK ==
    /\ server \in [{"uploaded", "sig", "feed"} -> 0..MaxVersion]
    /\ {installed, setup, manifest} \subseteq 0..MaxVersion
    /\ part \in {Corrupt} \cup 0..MaxVersion
    /\ state \in States
    /\ due \in BOOLEAN /\ abandoned \in BOOLEAN
    /\ holder \in {None} \cup Procs
    /\ proc \in [Procs -> [pc : Steps, kind : Kinds, st : States, ask : 0..MaxVersion,
                           version : 0..MaxVersion, current : 0..MaxVersion]]
    /\ crashes \in 0..MaxCrashes

\* The process ends a check that succeeded; the version it was told is the newest.
Succeeds(p) == proc[p].pc \in {"fetch", "verify", "finish"} /\ proc'[p].pc = "off" /\ crashes' = crashes
Told(p) == IF At(p, "fetch") THEN server.feed ELSE proc[p].version

\* A check that ends well (check.rs) leaves nothing to do: the newest version
\* it was told of is installed already or lies verified in the pending
\* directory.  A 304 that hid a download that failed or was lost would be final.
CheckSettles ==
    [][\A p \in Procs : Succeeds(p) /\ Told(p) > proc[p].current
                         => verify_pending' = Told(p)]_vars

\* The installer that runs (apply.rs run_inno) is still the one that was
\* verified, however long the user was asked to close the host.
InstallsWhatItVerified ==
    \A p \in Procs : At(p, "inno") => verify_pending = proc[p].version

\* A verified installer is only ever lost to a newer one, to its own success,
\* or with the bundle: not to a check that fails, an install that fails or a crash.
PendingKept ==
    [][verify_pending # NoVersion /\ verify_pending' = NoVersion
       => \/ setup' > manifest
          \/ installed >= manifest
          \/ installed = NoVersion]_vars

\* The error of the last install is written and cleared by an install only:
\* no check, which saves the whole of a state.json it read earlier, changes it.
InstallErrorTracks ==
    [][state'.install_error # state.install_error
       => \E p \in Procs : proc[p].pc \in {"done", "failed"}]_vars

\* Fairness: a process runs on, the network works now and then, the publisher
\* ends what it began, the user does not press the buttons without a pause,
\* and hosts that start when the windows have passed check.
Fairness ==
    /\ []<>(\A p \in Procs : At(p, "off"))
    /\ WF_vars(WindowsPass) /\ WF_vars(Outside /\ Publish)
    /\ \A p \in Procs : WF_vars(Step(p))
    /\ SF_vars(\E p \in Procs : FetchFeed(p)) /\ SF_vars(\E p \in Procs : FetchSignature(p))
    /\ SF_vars(\E p \in Procs : Download(p, proc[p].version))
    /\ SF_vars(\E p \in Procs : StartCheck(p) /\ due)

LiveSpec == Spec /\ Fairness

\* A published version becomes installable: whatever fails and whoever is
\* killed, the bundle catches up with it, or a verified installer of it or of
\* a newer one waits, unless the bundle is gone.
Offered ==
    \A v \in Versions :
        server.feed = v ~> installed >= v \/ installed = NoVersion \/ verify_pending >= v
=============================================================================
