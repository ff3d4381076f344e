--------------------------- MODULE Updater_proofs ---------------------------
(***************************************************************************)
(* What Updater.tla promises for any number of processes, versions and     *)
(* crashes: the mutex, with the order in which a check and an apply touch  *)
(* the files, is enough.                                                   *)
(***************************************************************************)
EXTENDS Updater, TLAPS

Busy(p) == proc[p].pc \notin {"off", "copied", "wait"}

Checking == {"fetch", "verify", "download", "hash", "rename", "manifest", "finish"}

(* A process at work has the mutex, and nobody else is at work.            *)
Exclusive == \A p \in Procs : holder = p <=> Busy(p)

(* Nothing on disk is newer than the feed, and the etag that is remembered *)
(* is that of the version that is.                                         *)
DiskInv ==
    /\ setup <= server.feed /\ manifest <= server.feed
    /\ state.etag = state.latest

(* What a check has in memory, against the disk.                           *)
CheckInv(p) ==
    /\ proc[p].pc \in Checking => proc[p].st.install_error = state.install_error
    /\ proc[p].pc = "fetch" =>
           /\ proc[p].st.etag = proc[p].st.latest
           /\ proc[p].ask > proc[p].current => verify_pending = proc[p].ask
    /\ proc[p].pc \in Checking \ {"fetch"} =>
           proc[p].version \in Versions /\ manifest <= proc[p].version /\ proc[p].version <= server.feed
    /\ proc[p].pc \in Checking \ {"fetch", "verify"} => proc[p].st.etag = proc[p].version
    /\ proc[p].pc = "rename" => part = proc[p].version
    /\ proc[p].pc \in {"manifest", "finish"} => setup = proc[p].version
    /\ proc[p].pc = "finish" => manifest = proc[p].version

(* What an apply has in memory, against the disk.                          *)
ApplyInv(p) ==
    /\ proc[p].pc \in {"unlock", "inno"} => verify_pending = proc[p].version
    /\ proc[p].pc \in {"cleanup", "discard"} => installed = NoVersion \/ installed >= manifest

IInv == TypeOK /\ Exclusive /\ DiskInv /\ \A p \in Procs : CheckInv(p) /\ ApplyInv(p)

(* The types of all but proc.                                              *)
Typed ==
    /\ server \in [{"uploaded", "sig", "feed"} -> 0..MaxVersion]
    /\ {installed, setup, manifest} \subseteq 0..MaxVersion
    /\ part \in {Corrupt} \cup 0..MaxVersion
    /\ state \in States
    /\ due \in BOOLEAN /\ abandoned \in BOOLEAN
    /\ holder \in {None} \cup Procs
    /\ crashes \in 0..MaxCrashes

Records == [pc : Steps, kind : Kinds, st : States, ask : 0..MaxVersion,
            version : 0..MaxVersion, current : 0..MaxVersion]

-----------------------------------------------------------------------------
LEMMA OffRecord == Off \in Records
BY PendingDirAssumption DEF Off, NoState, Records, Steps, Kinds, States, NoVersion

LEMMA ErrorRecord == \A r \in Records : [r EXCEPT !.pc = "error"] \in Records
BY DEF Records, Steps

LEMMA InitInv == Init => IInv
<1> SUFFICES ASSUME Init PROVE IInv
  OBVIOUS
<1> USE PendingDirAssumption, UpdaterAssumption DEF Init, Off, NoState, NoVersion
<1>1. TypeOK
  <2>1. server \in [{"uploaded", "sig", "feed"} -> 0..MaxVersion]
    <3>1. PICK v \in {NoVersion, 1} : server = [uploaded |-> v, sig |-> v, feed |-> v]
      OBVIOUS
    <3>2. v \in 0..MaxVersion
      OBVIOUS
    <3>3. QED
      BY <3>1, <3>2
  <2>2. proc \in [Procs -> Records]
    BY OffRecord DEF Off
  <2>3. state \in States
    BY DEF States
  <2>4. {installed, setup, manifest} \subseteq 0..MaxVersion /\ part \in {Corrupt} \cup 0..MaxVersion
    OBVIOUS
  <2>5. due \in BOOLEAN /\ abandoned \in BOOLEAN /\ holder \in {None} \cup Procs
    OBVIOUS
  <2>6. crashes \in 0..MaxCrashes
    OBVIOUS
  <2>7. QED
    BY <2>1, <2>2, <2>3, <2>4, <2>5, <2>6 DEF TypeOK, Records
<1>2. Exclusive /\ DiskInv
  BY DEF Exclusive, Busy, DiskInv
<1>3. \A p \in Procs : CheckInv(p) /\ ApplyInv(p)
  BY DEF CheckInv, ApplyInv, Checking
<1>4. QED
  BY <1>1, <1>2, <1>3 DEF IInv

(* Nothing is known of a process that is off or waits.                     *)
LEMMA NotBusy ==
    ASSUME NEW p \in Procs, ~Busy(p)
    PROVE  CheckInv(p) /\ ApplyInv(p)
BY DEF Busy, CheckInv, ApplyInv, Checking

(* What a step of a process leaves of the others.                          *)
LEMMA Alone ==
    ASSUME IInv, NEW p \in Procs, Busy(p), NEW r \in Records,
           proc' = [proc EXCEPT ![p] = r]
    PROVE  /\ proc'[p] = r
           /\ \A q \in Procs \ {p} : proc'[q] = proc[q] /\ ~Busy(q) /\ ~Busy(q)'
           /\ \A q \in Procs \ {p} : CheckInv(q)' /\ ApplyInv(q)'
<1>1. proc'[p] = r /\ \A q \in Procs \ {p} : proc'[q] = proc[q]
  BY DEF IInv, TypeOK
<1>2. holder = p /\ \A q \in Procs \ {p} : ~Busy(q)
  BY DEF IInv, Exclusive
<1>3. \A q \in Procs \ {p} : ~Busy(q)'
  BY <1>1, <1>2 DEF Busy
<1>4. \A q \in Procs \ {p} : CheckInv(q)' /\ ApplyInv(q)'
  BY <1>3 DEF Busy, CheckInv, ApplyInv, Checking
<1>5. QED
  BY <1>1, <1>2, <1>3, <1>4

(* A step of the process that has the mutex keeps the invariant when it    *)
(* keeps the part about the disk and about itself.                         *)
LEMMA StepOf ==
    ASSUME IInv, NEW p \in Procs, Busy(p), NEW r \in Records,
           proc' = [proc EXCEPT ![p] = r],
           holder' = IF r.pc \in {"off", "copied", "wait"} THEN None ELSE p,
           Typed', DiskInv', CheckInv(p)', ApplyInv(p)'
    PROVE  IInv'
<1>1. proc'[p] = r /\ \A q \in Procs \ {p} : CheckInv(q)' /\ ApplyInv(q)' /\ ~Busy(q)'
  BY Alone
<1>2. TypeOK'
  <2>1. proc' \in [Procs -> Records]
    BY DEF IInv, TypeOK, Records
  <2>2. QED
    BY <2>1 DEF Typed, TypeOK, Records
<1>3. Exclusive'
  BY <1>1, UpdaterAssumption DEF Exclusive, Busy
<1>4. QED
  BY <1>1, <1>2, <1>3 DEF IInv

(* What IInv says of the process at work, in the form the steps use.       *)
LEMMA Facts ==
    ASSUME IInv, NEW p \in Procs, Busy(p)
    PROVE  /\ Typed /\ DiskInv /\ CheckInv(p) /\ ApplyInv(p)
           /\ holder = p /\ proc[p] \in Records /\ Off \in Records
           /\ \A pc \in Steps : [proc[p] EXCEPT !.pc = pc] \in Records
           /\ server.feed \in 0..MaxVersion /\ MaxVersion \in Nat
<1>1. Typed /\ DiskInv /\ CheckInv(p) /\ ApplyInv(p) /\ holder = p /\ proc[p] \in Records
  BY DEF IInv, TypeOK, Typed, Exclusive, Records
<1>2. Off \in Records
  BY OffRecord
<1>3. \A pc \in Steps : [proc[p] EXCEPT !.pc = pc] \in Records
  BY <1>1 DEF Records
<1>4. QED
  BY <1>1, <1>2, <1>3, PendingDirAssumption DEF Typed

(* A process at work that ends: nothing is known of it any more.           *)
LEMMA Exits ==
    ASSUME IInv, NEW p \in Procs, Busy(p), Exit(p), Typed', DiskInv'
    PROVE  IInv'
<1>1. proc' = [proc EXCEPT ![p] = Off] /\ holder' = None /\ Off \in Records
  BY Facts DEF Exit
<1>2. proc'[p] = Off
  BY <1>1, Alone
<1>3. ~Busy(p)'
  BY <1>2 DEF Busy, Off
<1>4. CheckInv(p)' /\ ApplyInv(p)'
  BY <1>3 DEF Busy, CheckInv, ApplyInv, Checking
<1>5. QED
  BY <1>1, <1>4, StepOf DEF Off

-----------------------------------------------------------------------------
(* One lemma for each kind of step.                                        *)

(* Starting, and waiting in vain, is no work.                              *)
LEMMA Waiting ==
    \A p \in Procs :
        IInv /\ ((\E kind \in {"check-now", "apply"} : StartWaiting(p, kind)) \/ OpenMutex(p) \/ WaitFails(p)) => IInv'
<1> SUFFICES ASSUME NEW p \in Procs, IInv,
                    (\E kind \in {"check-now", "apply"} : StartWaiting(p, kind)) \/ OpenMutex(p) \/ WaitFails(p)
             PROVE  IInv'
  OBVIOUS
<1>1. ~Busy(p) /\ holder # p
  BY DEF IInv, Exclusive, Busy, StartWaiting, OpenMutex, WaitFails, At
<1>2. /\ holder' = holder
      /\ UNCHANGED <<server, installed, state, due, setup, manifest, part, crashes>>
      /\ abandoned' \in BOOLEAN
      /\ \E r \in Records : r.pc \in {"off", "copied", "wait"} /\ proc' = [proc EXCEPT ![p] = r]
  <2>1. Off \in Records
    BY OffRecord
  <2>2. CASE WaitFails(p)
    BY <1>1, <2>1, <2>2 DEF WaitFails, Exit, world_vars, pending_vars, Off
  <2>3. ASSUME NEW kind \in {"check-now", "apply"}, StartWaiting(p, kind)
        PROVE  /\ [proc[p] EXCEPT !.pc = "wait", !.kind = kind] \in Records
               /\ proc' = [proc EXCEPT ![p] = [proc[p] EXCEPT !.pc = "wait", !.kind = kind]]
               /\ [proc[p] EXCEPT !.pc = "wait", !.kind = kind].pc = "wait"
    BY <2>3 DEF StartWaiting, IInv, TypeOK, Records, Steps, Kinds
  <2>4. ASSUME OpenMutex(p)
        PROVE  /\ [proc[p] EXCEPT !.pc = "wait"] \in Records
               /\ proc' = [proc EXCEPT ![p] = [proc[p] EXCEPT !.pc = "wait"]]
               /\ [proc[p] EXCEPT !.pc = "wait"].pc = "wait"
    BY <2>4 DEF OpenMutex, Goto, IInv, TypeOK, Records, Steps
  <2>5. QED
    BY <2>2, <2>3, <2>4 DEF StartWaiting, OpenMutex, world_vars, pending_vars, IInv, TypeOK
<1>3. PICK r \in Records : r.pc \in {"off", "copied", "wait"} /\ proc' = [proc EXCEPT ![p] = r]
  BY <1>2
<1>4. proc'[p] = r /\ \A q \in Procs \ {p} : proc'[q] = proc[q]
  BY <1>3 DEF IInv, TypeOK
<1>5. TypeOK'
  <2>1. proc' \in [Procs -> Records]
    BY <1>3 DEF IInv, TypeOK, Records
  <2>2. QED
    BY <1>2, <2>1 DEF IInv, TypeOK, Records
<1>6. Exclusive' /\ DiskInv'
  BY <1>1, <1>2, <1>3, <1>4 DEF IInv, Exclusive, Busy, DiskInv
<1>7. ASSUME NEW q \in Procs PROVE CheckInv(q)' /\ ApplyInv(q)'
  <2>1. CASE q = p
    BY <1>3, <1>4, <2>1 DEF CheckInv, ApplyInv, Checking
  <2>2. CASE q # p
    <3>1. proc'[q] = proc[q] /\ CheckInv(q) /\ ApplyInv(q)
      BY <1>4, <2>2 DEF IInv
    <3>2. QED
      BY <1>2, <3>1 DEF CheckInv, ApplyInv, verify_pending
  <2>3. QED
    BY <2>1, <2>2
<1>8. QED
  BY <1>5, <1>6, <1>7 DEF IInv

(* The mutex is taken when nobody is at work.                              *)
LEMMA Acquiring ==
    \A p \in Procs : IInv /\ (StartCheck(p) \/ wait_acquire(p)) => IInv'
<1> SUFFICES ASSUME NEW p \in Procs, IInv, StartCheck(p) \/ wait_acquire(p) PROVE IInv'
  OBVIOUS
<1>1. \A q \in Procs : ~Busy(q)
  BY UpdaterAssumption DEF StartCheck, wait_acquire, At, Open, Busy, IInv, Exclusive
<1>2. /\ holder' = p
      /\ UNCHANGED <<server, installed, state, due, setup, manifest, part, abandoned, crashes>>
      /\ proc'[p].pc \in {"check", "apply"}
      /\ \A q \in Procs \ {p} : proc'[q] = proc[q]
      /\ proc' \in [Procs -> Records]
  BY DEF StartCheck, wait_acquire, Goto, IInv, TypeOK, Records, Steps, Kinds, world_vars, pending_vars
<1>3. TypeOK'
  BY <1>2 DEF IInv, TypeOK, Records
<1>4. Exclusive' /\ DiskInv'
  BY <1>1, <1>2 DEF IInv, Exclusive, Busy, DiskInv
<1>5. ASSUME NEW q \in Procs PROVE CheckInv(q)' /\ ApplyInv(q)'
  BY <1>1, <1>2 DEF Busy, CheckInv, ApplyInv, Checking
<1>6. QED
  BY <1>3, <1>4, <1>5 DEF IInv

(* A check remembers what it read, and asks for what it must.              *)
LEMMA CheckBegins == \A p \in Procs : IInv /\ check_begin(p) => IInv'
<1> SUFFICES ASSUME NEW p \in Procs, IInv, check_begin(p) PROVE IInv'
  OBVIOUS
<1>1. Busy(p)
  BY DEF check_begin, At, Busy
<1> USE <1>1, Facts
<1>2. UNCHANGED <<server, installed, state, setup, manifest, part, abandoned, crashes>> /\ due' \in BOOLEAN
  BY DEF check_begin, world_vars, pending_vars, Typed
<1>3. DiskInv'
  BY <1>2 DEF DiskInv
<1>4. CASE Exit(p)
  BY <1>2, <1>3, <1>4, Exits DEF Exit, Typed
<1>5. CASE Fails(p)
  <2> DEFINE r == [proc[p] EXCEPT !.pc = "error"]
  <2>1. r \in Records /\ proc' = [proc EXCEPT ![p] = r] /\ holder' = holder /\ r.pc = "error"
    BY <1>5, ErrorRecord DEF Fails, Goto
  <2>2. proc'[p] = r /\ CheckInv(p)' /\ ApplyInv(p)'
    BY <2>1, Alone DEF CheckInv, ApplyInv, Checking
  <2>3. QED
    BY <1>2, <1>3, <2>1, <2>2, StepOf DEF Typed
<1>6. CASE ~Exit(p) /\ ~Fails(p)
  <2> DEFINE ask == IF proc[p].kind = "check-now" \/ needs_full_fetch(state, installed)
                    THEN NoVersion ELSE state.etag
             r == [proc[p] EXCEPT !.pc = "fetch", !.st = state, !.current = installed, !.ask = ask]
  <2>1. proc' = [proc EXCEPT ![p] = r] /\ holder' = holder
    BY <1>6 DEF check_begin
  <2>2. ask \in 0..MaxVersion /\ installed \in 0..MaxVersion /\ state \in States
    BY DEF Typed, States, NoVersion
  <2>3. /\ r \in Records /\ r.pc = "fetch" /\ r.st = state /\ r.current = installed /\ r.ask = ask
    <3> HIDE DEF ask
    <3>1. [proc[p] EXCEPT !.pc = "fetch"] \in Records
      BY DEF Steps
    <3>2. QED
      BY <2>2, <3>1 DEF Records
  <2>4. proc'[p] = r
    BY <2>1, <2>3, Alone
  <2>5. ask > installed => verify_pending = ask
    BY <2>2 DEF DiskInv, needs_full_fetch, NoVersion
  <2>6. CheckInv(p)' /\ ApplyInv(p)'
    BY <1>2, <2>3, <2>4, <2>5 DEF CheckInv, ApplyInv, Checking, DiskInv, verify_pending
  <2>7. QED
    BY <1>2, <1>3, <2>1, <2>3, <2>6, StepOf DEF Typed
<1>7. QED
  BY <1>4, <1>5, <1>6

(* A feed is read whole, or the check ends: nothing is new.                *)
LEMMA FeedFetched == \A p \in Procs : IInv /\ FetchFeed(p) => IInv'
<1> SUFFICES ASSUME NEW p \in Procs, IInv, FetchFeed(p) PROVE IInv'
  OBVIOUS
<1>1. Busy(p) /\ proc[p].pc = "fetch"
  BY DEF FetchFeed, At, Busy
<1> USE <1>1, Facts
<1>2. UNCHANGED <<server, installed, setup, manifest, part, abandoned, crashes>>
  BY DEF FetchFeed, world_vars, pending_vars
<1>3. proc[p].st \in States /\ proc[p].st.etag = proc[p].st.latest
  BY DEF CheckInv, Records
<1>4. CASE finish_ok(p, proc[p].st)
  <2>1. Typed' /\ DiskInv' /\ Exit(p)
    BY <1>2, <1>3, <1>4 DEF finish_ok, Typed, DiskInv, Exit
  <2>2. QED
    BY <2>1, Exits
<1>5. CASE ~finish_ok(p, proc[p].st)
  <2> DEFINE r == [proc[p] EXCEPT !.pc = "verify", !.version = server.feed]
  <2>1. /\ proc' = [proc EXCEPT ![p] = r] /\ UNCHANGED <<holder, state, due>>
        /\ server.feed # NoVersion
    BY <1>5 DEF FetchFeed
  <2>2. r \in Records /\ r.pc = "verify" /\ r.version = server.feed /\ r.st = proc[p].st
    <3>1. [proc[p] EXCEPT !.pc = "verify"] \in Records
      BY DEF Steps
    <3>2. QED
      BY <3>1 DEF Records
  <2>3. proc'[p] = r
    BY <2>1, <2>2, Alone
  <2>4. Typed' /\ DiskInv'
    BY <1>2, <2>1 DEF Typed, DiskInv
  <2>5. CheckInv(p)' /\ ApplyInv(p)'
    <3>1. server.feed \in Versions /\ manifest <= server.feed
      BY <2>1 DEF DiskInv, Versions, NoVersion
    <3>2. proc[p].st.install_error = state.install_error
      BY DEF CheckInv, Checking
    <3>3. /\ proc'[p].pc = "verify" /\ proc'[p].version = server.feed
          /\ proc'[p].st = proc[p].st
      BY <2>2, <2>3
    <3>4. server.feed \in 0..MaxVersion /\ server'.feed = server.feed /\ manifest' = manifest /\ state' = state
      BY <1>2, <2>1
    <3>5. QED
      BY <3>1, <3>2, <3>3, <3>4 DEF CheckInv, ApplyInv, Checking, Versions
  <2>6. QED
    BY <2>1, <2>2, <2>4, <2>5, StepOf
<1>6. QED
  BY <1>4, <1>5

(* A failed step of a check leaves the disk to main's handler.             *)
LEMMA Failing ==
    ASSUME IInv, NEW p \in Procs, Busy(p), Fails(p), Typed', DiskInv'
    PROVE  IInv'
<1> DEFINE r == [proc[p] EXCEPT !.pc = "error"]
<1>1. r \in Records /\ proc' = [proc EXCEPT ![p] = r] /\ holder' = holder /\ r.pc = "error"
  BY Facts, ErrorRecord DEF Fails, Goto
<1>2. proc'[p] = r
  BY <1>1, Alone
<1>3. CheckInv(p)' /\ ApplyInv(p)'
  BY <1>1, <1>2 DEF CheckInv, ApplyInv, Checking
<1>4. QED
  BY <1>1, <1>3, StepOf, Facts

(* The signature decides: a mismatch fails, an older feed ends the check,  *)
(* a newer one is to be downloaded.                                        *)
LEMMA SignatureFetched == \A p \in Procs : IInv /\ FetchSignature(p) => IInv'
<1> SUFFICES ASSUME NEW p \in Procs, IInv, FetchSignature(p) PROVE IInv'
  OBVIOUS
<1>1. Busy(p) /\ proc[p].pc = "verify"
  BY DEF FetchSignature, At, Busy
<1> USE <1>1, Facts
<1> DEFINE v == proc[p].version
<1>2. UNCHANGED <<server, installed, setup, manifest, part, abandoned, crashes>>
  BY DEF FetchSignature, world_vars, pending_vars
<1>3. proc[p].st \in States /\ v \in Versions /\ manifest <= v /\ v <= server.feed
  BY DEF CheckInv, Checking, Records
<1>4. CASE Fails(p) /\ UNCHANGED <<state, due>>
  <2>1. Typed' /\ DiskInv'
    BY <1>2, <1>4 DEF Typed, DiskInv, Fails
  <2>2. QED
    BY <1>4, <2>1, Failing
<1>5. CASE finish_ok(p, [proc[p].st EXCEPT !.etag = v, !.latest = v])
  <2>1. [proc[p].st EXCEPT !.etag = v, !.latest = v] \in States
    <3>1. v \in 0..MaxVersion
      BY <1>3, PendingDirAssumption DEF Versions
    <3>2. QED
      BY <1>3, <3>1 DEF States
  <2>2. Typed' /\ DiskInv' /\ Exit(p)
    BY <1>2, <1>3, <1>5, <2>1 DEF finish_ok, Typed, DiskInv, Exit, States
  <2>3. QED
    BY <2>2, Exits
<1>6. CASE proc' = [proc EXCEPT ![p].pc = "download", ![p].st.etag = v] /\ UNCHANGED <<holder, state, due>>
  <2> DEFINE r == [proc[p] EXCEPT !.pc = "download", !.st.etag = v]
  <2>1. r \in Records /\ r.pc = "download" /\ r.version = v /\ r.st.etag = v
        /\ r.st.install_error = proc[p].st.install_error
    <3>1. [proc[p].st EXCEPT !.etag = v] \in States
      BY <1>3 DEF States, Versions
    <3>2. [proc[p] EXCEPT !.pc = "download"] \in Records
      BY DEF Steps
    <3>3. r = [[proc[p] EXCEPT !.pc = "download"] EXCEPT !.st = [proc[p].st EXCEPT !.etag = v]]
      BY DEF Records
    <3>4. QED
      BY <1>3, <3>1, <3>2, <3>3 DEF Records, States
  <2>2. proc' = [proc EXCEPT ![p] = r]
    BY <1>6 DEF IInv, TypeOK
  <2>3. proc'[p] = r
    BY <2>1, <2>2, Alone
  <2>4. Typed' /\ DiskInv'
    BY <1>2, <1>6 DEF Typed, DiskInv
  <2>5. CheckInv(p)' /\ ApplyInv(p)'
    BY <1>2, <1>3, <1>6, <2>1, <2>3 DEF CheckInv, ApplyInv, Checking
  <2>6. QED
    BY <1>6, <2>1, <2>2, <2>4, <2>5, StepOf
<1>7. QED
  BY <1>4, <1>5, <1>6 DEF FetchSignature

(* A step of a process that goes on with what it knew.                     *)
LEMMA GoesOn ==
    ASSUME IInv, NEW p \in Procs, Busy(p), NEW pc \in Steps \ {"off", "copied", "wait"}, Goto(p, pc),
           holder' = holder, Typed', DiskInv'
    PROVE  /\ proc'[p] = [proc[p] EXCEPT !.pc = pc]
           /\ CheckInv(p)' /\ ApplyInv(p)' => IInv'
<1> DEFINE r == [proc[p] EXCEPT !.pc = pc]
<1>1. r \in Records /\ proc' = [proc EXCEPT ![p] = r] /\ r.pc = pc
  BY Facts DEF Goto, Records
<1>2. proc'[p] = r
  BY <1>1, Alone
<1>3. QED
  BY <1>1, <1>2, StepOf, Facts

(* The body is written beside the installer.                               *)
LEMMA Downloaded == \A p \in Procs : IInv /\ (\E content \in {proc[p].version, Corrupt} : Download(p, content)) => IInv'
<1> SUFFICES ASSUME NEW p \in Procs, IInv, (\E content \in {proc[p].version, Corrupt} : Download(p, content)) PROVE IInv'
  OBVIOUS
<1> PICK content \in {proc[p].version, Corrupt} : Download(p, content)
  OBVIOUS
<1>1. Busy(p) /\ proc[p].pc = "download" /\ Goto(p, "hash") /\ holder' = holder
  BY DEF Download, At, Busy
<1> USE <1>1, Facts
<1>2. UNCHANGED <<server, installed, state, due, abandoned, crashes, setup, manifest>> /\ part' = content
  BY DEF Download, world_vars
<1>3. Typed' /\ DiskInv'
  BY <1>2 DEF Typed, DiskInv, Records
<1>4. proc'[p] = [proc[p] EXCEPT !.pc = "hash"] /\ (CheckInv(p)' /\ ApplyInv(p)' => IInv')
  BY <1>3, GoesOn DEF Steps
<1>5. CheckInv(p)' /\ ApplyInv(p)'
  BY <1>2, <1>4 DEF CheckInv, ApplyInv, Checking, Records
<1>6. QED
  BY <1>4, <1>5

(* Only content with the hash of the feed goes on.                         *)
LEMMA Hashed == \A p \in Procs : IInv /\ CheckHash(p) => IInv'
<1> SUFFICES ASSUME NEW p \in Procs, IInv, CheckHash(p) PROVE IInv'
  OBVIOUS
<1>1. Busy(p) /\ proc[p].pc = "hash"
  BY DEF CheckHash, At, Busy
<1> USE <1>1, Facts
<1>2. UNCHANGED <<server, installed, state, due, abandoned, crashes, setup, manifest>> /\ part' \in {part, NoVersion} /\ holder' = holder
  BY DEF CheckHash, Fails, world_vars
<1>3. Typed' /\ DiskInv'
  BY <1>2 DEF Typed, DiskInv, NoVersion
<1>4. CASE part = proc[p].version
  <2>1. Goto(p, "rename") /\ part' = part /\ holder' = holder
    BY <1>4 DEF CheckHash
  <2>2. proc'[p] = [proc[p] EXCEPT !.pc = "rename"] /\ (CheckInv(p)' /\ ApplyInv(p)' => IInv')
    BY <1>3, <2>1, GoesOn DEF Steps
  <2>3. CheckInv(p)' /\ ApplyInv(p)'
    BY <1>2, <1>4, <2>1, <2>2 DEF CheckInv, ApplyInv, Checking, Records
  <2>4. QED
    BY <2>2, <2>3
<1>5. CASE part # proc[p].version
  BY <1>3, <1>5, Failing DEF CheckHash, Fails
<1>6. QED
  BY <1>4, <1>5

(* The installer is put in its place.                                      *)
LEMMA Replaced == \A p \in Procs : IInv /\ ReplaceSetup(p) => IInv'
<1> SUFFICES ASSUME NEW p \in Procs, IInv, ReplaceSetup(p) PROVE IInv'
  OBVIOUS
<1>1. Busy(p) /\ proc[p].pc = "rename" /\ Goto(p, "manifest") /\ holder' = holder
  BY DEF ReplaceSetup, At, Busy
<1> USE <1>1, Facts
<1>2. UNCHANGED <<server, installed, state, due, abandoned, crashes, manifest>>
  BY DEF ReplaceSetup, world_vars, pending_vars
<1>a. /\ setup' = part /\ part' = NoVersion /\ part = proc[p].version
       /\ proc[p].version \in Versions /\ proc[p].version <= server.feed
  BY DEF ReplaceSetup, CheckInv, Checking
<1>3. Typed' /\ DiskInv'
  BY <1>2, <1>a DEF Typed, DiskInv, NoVersion, Versions
<1>4. proc'[p] = [proc[p] EXCEPT !.pc = "manifest"] /\ (CheckInv(p)' /\ ApplyInv(p)' => IInv')
  BY <1>3, GoesOn DEF Steps
<1>5. CheckInv(p)' /\ ApplyInv(p)'
  BY <1>2, <1>4, <1>a DEF CheckInv, ApplyInv, Checking, Records
<1>6. QED
  BY <1>4, <1>5

(* The manifest names it.                                                  *)
LEMMA Named == \A p \in Procs : IInv /\ write_manifest(p) => IInv'
<1> SUFFICES ASSUME NEW p \in Procs, IInv, write_manifest(p) PROVE IInv'
  OBVIOUS
<1>1. Busy(p) /\ proc[p].pc = "manifest" /\ Goto(p, "finish") /\ holder' = holder
  BY DEF write_manifest, At, Busy
<1> USE <1>1, Facts
<1>2. UNCHANGED <<server, installed, state, due, abandoned, crashes, setup, part>>
  BY DEF write_manifest, world_vars, pending_vars
<1>a. /\ manifest' = proc[p].version /\ setup = proc[p].version
       /\ proc[p].version \in Versions /\ proc[p].version <= server.feed
  BY DEF write_manifest, CheckInv, Checking
<1>3. Typed' /\ DiskInv'
  BY <1>2, <1>a DEF Typed, DiskInv, Versions
<1>4. proc'[p] = [proc[p] EXCEPT !.pc = "finish"] /\ (CheckInv(p)' /\ ApplyInv(p)' => IInv')
  BY <1>3, GoesOn DEF Steps
<1>5. CheckInv(p)' /\ ApplyInv(p)'
  BY <1>2, <1>4, <1>a DEF CheckInv, ApplyInv, Checking, Records
<1>6. QED
  BY <1>4, <1>5

(* The check ends, and remembers the version it left ready.                *)
LEMMA Finished == \A p \in Procs : IInv /\ FinishCheck(p) => IInv'
<1> SUFFICES ASSUME NEW p \in Procs, IInv, FinishCheck(p) PROVE IInv'
  OBVIOUS
<1>1. Busy(p) /\ proc[p].pc = "finish"
  BY DEF FinishCheck, At, Busy
<1> USE <1>1, Facts
<1> DEFINE st == [proc[p].st EXCEPT !.latest = proc[p].version]
<1>2. UNCHANGED <<server, installed, setup, manifest, part, abandoned, crashes>> /\ finish_ok(p, st)
  BY DEF FinishCheck, world_vars, pending_vars
<1>3. proc[p].st \in States /\ proc[p].version \in 0..MaxVersion /\ proc[p].st.etag = proc[p].version
  BY DEF CheckInv, Checking, Records
<1>4. st \in States /\ st.etag = st.latest
  BY <1>3 DEF States
<1>5. Typed' /\ DiskInv' /\ Exit(p)
  BY <1>2, <1>4 DEF finish_ok, Typed, DiskInv, Exit
<1>6. QED
  BY <1>5, Exits

(* The network fails.                                                      *)
LEMMA NetworkFailed == \A p \in Procs : IInv /\ NetworkFails(p) => IInv'
<1> SUFFICES ASSUME NEW p \in Procs, IInv, NetworkFails(p) PROVE IInv'
  OBVIOUS
<1>1. Busy(p) /\ Fails(p)
  BY DEF NetworkFails, Busy
<1>2. Typed' /\ DiskInv'
  BY <1>1, Facts DEF NetworkFails, Fails, Typed, DiskInv, world_vars, Corrupt
<1>3. QED
  BY <1>1, <1>2, Failing

(* The error is noted.                                                     *)
LEMMA ErrorNoted == \A p \in Procs : IInv /\ NoteError(p) => IInv'
<1> SUFFICES ASSUME NEW p \in Procs, IInv, NoteError(p) PROVE IInv'
  OBVIOUS
<1>1. Busy(p) /\ Exit(p)
  BY DEF NoteError, At, Busy
<1>2. Typed' /\ DiskInv'
  BY <1>1, Facts DEF NoteError, Exit, Typed, DiskInv, world_vars, pending_vars
<1>3. QED
  BY <1>1, <1>2, Exits

(* An apply goes on, as a copy that waits or to the bundle, only with an   *)
(* installer that is verified.                                             *)
LEMMA ApplyBegins == \A p \in Procs : IInv /\ apply_begin(p) => IInv'
<1> SUFFICES ASSUME NEW p \in Procs, IInv, apply_begin(p) PROVE IInv'
  OBVIOUS
<1>1. Busy(p)
  BY DEF apply_begin, At, Busy
<1> USE <1>1, Facts
<1>2. UNCHANGED <<server, installed, state, due, setup, manifest, part, abandoned, crashes>>
  BY DEF apply_begin, world_vars, pending_vars
<1>3. DiskInv' /\ (holder' \in {holder, None} => Typed')
  BY <1>2 DEF DiskInv, Typed
<1>4. CASE Exit(p)
  BY <1>3, <1>4, Exits DEF Exit
<1>5. CASE /\ proc' = [proc EXCEPT ![p].pc = "copied", ![p].kind = "from-temp"]
           /\ holder' = IF holder = p THEN None ELSE holder
  <2> DEFINE r == [proc[p] EXCEPT !.pc = "copied", !.kind = "from-temp"]
  <2>1. r \in Records /\ r.pc = "copied"
    <3>1. [proc[p] EXCEPT !.pc = "copied"] \in Records
      BY DEF Steps
    <3>2. QED
      BY <3>1 DEF Records, Kinds
  <2>2. proc' = [proc EXCEPT ![p] = r] /\ holder' = None
    BY <1>5
  <2>3. proc'[p] = r
    BY <2>1, <2>2, Alone
  <2>4. CheckInv(p)' /\ ApplyInv(p)'
    BY <2>1, <2>3 DEF CheckInv, ApplyInv, Checking
  <2>5. QED
    BY <1>3, <2>1, <2>2, <2>4, StepOf
<1>6. CASE /\ proc' = [proc EXCEPT ![p].version = verify_pending,
                                   ![p].pc = IF installed = NoVersion THEN "discard" ELSE "unlock"]
           /\ holder' = holder
  <2> DEFINE pc == IF installed = NoVersion THEN "discard" ELSE "unlock"
             r == [proc[p] EXCEPT !.version = verify_pending, !.pc = pc]
  <2>1. verify_pending \in 0..MaxVersion
    BY DEF verify_pending, Typed, NoVersion
  <2>2. r \in Records /\ r.pc = pc /\ r.version = verify_pending
    <3>1. [proc[p] EXCEPT !.pc = pc] \in Records
      BY DEF Steps
    <3>2. QED
      BY <2>1, <3>1 DEF Records
  <2>3. proc' = [proc EXCEPT ![p] = r]
    BY <1>6
  <2>4. proc'[p] = r
    BY <2>2, <2>3, Alone
  <2>5. verify_pending' = verify_pending
    BY <1>2 DEF verify_pending
  <2>6. CheckInv(p)' /\ ApplyInv(p)'
    BY <1>2, <2>2, <2>4, <2>5 DEF CheckInv, ApplyInv, Checking
  <2>7. r.pc \notin {"off", "copied", "wait"} /\ holder' = p /\ Typed'
    BY <1>3, <1>6, <2>2
  <2>8. QED
    <3> HIDE DEF r, pc
    <3>1. QED
      BY <1>3, <2>2, <2>3, <2>6, <2>7, StepOf
<1>7. QED
  BY <1>4, <1>5, <1>6 DEF apply_begin

(* The mutex is held while the user is asked.                              *)
LEMMA Unlocked == \A p \in Procs : IInv /\ wait_until_unlocked(p) => IInv'
<1> SUFFICES ASSUME NEW p \in Procs, IInv, wait_until_unlocked(p) PROVE IInv'
  OBVIOUS
<1>1. Busy(p) /\ proc[p].pc = "unlock"
  BY DEF wait_until_unlocked, At, Busy
<1> USE <1>1, Facts
<1>2. UNCHANGED <<server, installed, state, due, setup, manifest, part, abandoned, crashes>>
  BY DEF wait_until_unlocked, world_vars, pending_vars
<1>3. DiskInv' /\ (holder' \in {holder, None} => Typed')
  BY <1>2 DEF DiskInv, Typed
<1>4. CASE Exit(p)
  BY <1>3, <1>4, Exits DEF Exit
<1>5. CASE Goto(p, "inno") /\ holder' = holder
  <2>1. proc'[p] = [proc[p] EXCEPT !.pc = "inno"] /\ (CheckInv(p)' /\ ApplyInv(p)' => IInv')
    BY <1>3, <1>5, GoesOn DEF Steps
  <2>2. CheckInv(p)' /\ ApplyInv(p)'
    BY <1>2, <2>1 DEF CheckInv, ApplyInv, Checking, Records, verify_pending
  <2>3. QED
    BY <2>1, <2>2
<1>6. QED
  BY <1>4, <1>5 DEF wait_until_unlocked

(* The installer is run.                                                   *)
LEMMA Ran == \A p \in Procs : IInv /\ run_inno(p) => IInv'
<1> SUFFICES ASSUME NEW p \in Procs, IInv, run_inno(p) PROVE IInv'
  OBVIOUS
<1>1. Busy(p) /\ proc[p].pc = "inno" /\ holder' = holder
  BY DEF run_inno, At, Busy
<1> USE <1>1, Facts
<1>2. UNCHANGED <<server, state, due, setup, manifest, part, abandoned, crashes>>
  BY DEF run_inno, pending_vars
<1>3. installed' \in {installed, setup}
  BY DEF run_inno, Installs
<1>4. Typed' /\ DiskInv'
  BY <1>2, <1>3 DEF Typed, DiskInv
<1>5. CASE Goto(p, "failed")
  <2>1. proc'[p] = [proc[p] EXCEPT !.pc = "failed"] /\ (CheckInv(p)' /\ ApplyInv(p)' => IInv')
    BY <1>4, <1>5, GoesOn DEF Steps
  <2>2. CheckInv(p)' /\ ApplyInv(p)'
    BY <2>1 DEF CheckInv, ApplyInv, Checking, Records
  <2>3. QED
    BY <2>1, <2>2
<1>6. CASE installed' = proc[p].version /\ Goto(p, "cleanup")
  <2>1. proc'[p] = [proc[p] EXCEPT !.pc = "cleanup"] /\ (CheckInv(p)' /\ ApplyInv(p)' => IInv')
    BY <1>4, <1>6, GoesOn DEF Steps
  <2>2. installed' = NoVersion \/ installed' >= manifest
    BY <1>6 DEF ApplyInv, verify_pending, Typed, Records
  <2>3. CheckInv(p)' /\ ApplyInv(p)'
    BY <1>2, <2>1, <2>2 DEF CheckInv, ApplyInv, Checking, Records
  <2>4. QED
    BY <2>1, <2>3
<1>7. QED
  BY <1>5, <1>6 DEF run_inno

(* The directory is emptied.                                               *)
LEMMA Removed == \A p \in Procs : IInv /\ remove_dir_all(p) => IInv'
<1> SUFFICES ASSUME NEW p \in Procs, IInv, remove_dir_all(p) PROVE IInv'
  OBVIOUS
<1>1. Busy(p) /\ proc[p].pc \in {"cleanup", "discard"}
  BY DEF remove_dir_all, Busy
<1> USE <1>1, Facts
<1>2. /\ UNCHANGED <<server, installed, state, due, abandoned, crashes>>
      /\ setup' \in {setup, NoVersion} /\ manifest' \in {manifest, NoVersion} /\ part' \in {part, NoVersion}
  BY DEF remove_dir_all, world_vars, pending_vars
<1>3. DiskInv' /\ (holder' \in {holder, None} => Typed')
  BY <1>2 DEF DiskInv, Typed, NoVersion
<1>4. CASE Exit(p)
  BY <1>3, <1>4, Exits DEF Exit
<1>5. CASE Goto(p, "done") /\ holder' = holder
  <2>1. proc'[p] = [proc[p] EXCEPT !.pc = "done"] /\ (CheckInv(p)' /\ ApplyInv(p)' => IInv')
    BY <1>3, <1>5, GoesOn DEF Steps
  <2>2. CheckInv(p)' /\ ApplyInv(p)'
    BY <2>1 DEF CheckInv, ApplyInv, Checking, Records
  <2>3. QED
    BY <2>1, <2>2
<1>6. CASE UNCHANGED <<proc, holder>>
  <2>1. proc' = [proc EXCEPT ![p] = proc[p]]
    BY <1>6 DEF IInv, TypeOK
  <2>2. installed' = NoVersion \/ installed' >= manifest'
    BY <1>2 DEF ApplyInv, Typed, NoVersion
  <2>3. CheckInv(p)' /\ ApplyInv(p)'
    BY <1>6, <2>2 DEF CheckInv, ApplyInv, Checking
  <2>4. QED
    BY <1>3, <1>6, <2>1, <2>3, StepOf DEF Busy
<1>7. QED
  BY <1>4, <1>5, <1>6 DEF remove_dir_all

(* The outcome is noted.                                                   *)
LEMMA InstallNoted == \A p \in Procs : IInv /\ NoteInstall(p) => IInv'
<1> SUFFICES ASSUME NEW p \in Procs, IInv, NoteInstall(p) PROVE IInv'
  OBVIOUS
<1>1. Busy(p) /\ Exit(p)
  BY DEF NoteInstall, Busy
<1>2. state' = [state EXCEPT !.install_error = At(p, "failed")]
      /\ UNCHANGED <<server, installed, due, setup, manifest, part, abandoned, crashes>>
  BY DEF NoteInstall, world_vars, pending_vars
<1>3. state' \in States /\ state'.etag = state.etag /\ state'.latest = state.latest
  BY <1>1, <1>2, Facts DEF Typed, States, At
<1>4. Typed' /\ DiskInv'
  BY <1>1, <1>2, <1>3, Facts DEF Exit, Typed, DiskInv
<1>5. QED
  BY <1>1, <1>4, Exits

(* A killed process leaves the disk as it is, or half installed.           *)
LEMMA Crashed == \A p \in Procs : IInv /\ Crash(p) => IInv'
<1> SUFFICES ASSUME NEW p \in Procs, IInv, Crash(p) PROVE IInv'
  OBVIOUS
<1>1. /\ UNCHANGED <<server, state, due, setup, manifest, part>>
      /\ installed' \in {installed, setup} /\ abandoned' \in BOOLEAN
      /\ crashes' = crashes + 1 /\ crashes < MaxCrashes
      /\ (~Busy(p) => installed' = installed) /\ Exit(p)
  BY DEF Crash, Installs, At, Busy, pending_vars
<1>2. holder' \in {holder, None} /\ Typed
  BY <1>1 DEF Exit, IInv, TypeOK, Typed
<1>3. crashes' \in 0..MaxCrashes
  BY <1>1, <1>2, UpdaterAssumption DEF Typed
<1>4. Typed' /\ DiskInv'
  BY <1>1, <1>2, <1>3 DEF IInv, Typed, DiskInv
<1>5. CASE Busy(p)
  BY <1>1, <1>4, <1>5, Exits
<1>6. CASE ~Busy(p)
  <2>1. holder' = holder /\ proc' = [proc EXCEPT ![p] = Off] /\ installed' = installed
    BY <1>1, <1>6 DEF Exit, IInv, Exclusive
  <2>2. proc'[p] = Off /\ proc' \in [Procs -> Records] /\ \A q \in Procs \ {p} : proc'[q] = proc[q]
    BY <2>1, OffRecord DEF IInv, TypeOK, Records
  <2>3. TypeOK'
    BY <1>4, <2>2 DEF Typed, TypeOK, Records
  <2>4. Exclusive'
    BY <1>6, <2>1, <2>2 DEF IInv, Exclusive, Busy, Off
  <2>5. ASSUME NEW q \in Procs PROVE CheckInv(q)' /\ ApplyInv(q)'
    <3>1. CASE q = p
      BY <2>2, <3>1 DEF CheckInv, ApplyInv, Checking, Off
    <3>2. CASE q # p
      <4>1. proc'[q] = proc[q] /\ CheckInv(q) /\ ApplyInv(q)
        BY <2>2, <3>2 DEF IInv
      <4>2. QED
        BY <1>1, <2>1, <4>1 DEF CheckInv, ApplyInv, verify_pending
    <3>3. QED
      BY <3>1, <3>2
  <2>6. QED
    BY <1>4, <2>3, <2>4, <2>5 DEF IInv
<1>7. QED
  BY <1>5, <1>6

(* The publisher only goes forward, and what the user installs is as new   *)
(* as the feed.                                                            *)
LEMMA OutsideKeeps == IInv /\ Outside => IInv'
<1> SUFFICES ASSUME IInv, Outside PROVE IInv'
  OBVIOUS
<1>1. /\ UNCHANGED <<state, setup, manifest, part, holder, abandoned, proc, crashes>>
      /\ due' \in BOOLEAN
  BY DEF Outside, WindowsPass, pending_vars, IInv, TypeOK
<1>2. /\ server \in [{"uploaded", "sig", "feed"} -> 0..MaxVersion]
      /\ installed \in 0..MaxVersion /\ MaxVersion \in Nat
  BY PendingDirAssumption DEF IInv, TypeOK
<1>3. /\ server' \in [{"uploaded", "sig", "feed"} -> 0..MaxVersion]
      /\ server.feed <= server'.feed
  <2>1. CASE server' = server
    BY <1>2, <2>1
  <2>2. CASE PublishSetup
    BY <1>2, <2>2 DEF PublishSetup
  <2>3. CASE PublishSignature
    BY <1>2, <2>3 DEF PublishSignature
  <2>4. CASE PublishFeed
    BY <1>2, <2>4 DEF PublishFeed
  <2>5. QED
    BY <2>1, <2>2, <2>3, <2>4 DEF Outside, Publish, User, WindowsPass, world_vars
<1>4. /\ \/ installed' \in {installed, server.feed, NoVersion}
         \/ holder = None /\ installed' \in 1..server.feed
      /\ installed' = installed \/ server' = server
  <2>1. CASE UserInstalls /\ server' = server
    <3>1. PICK v \in 1..server.feed : (v = server.feed \/ holder = None) /\ installed' = v
      BY <2>1 DEF UserInstalls
    <3>2. QED
      BY <2>1, <3>1
  <2>2. CASE UserRemoves /\ server' = server
    BY <2>2 DEF UserRemoves
  <2>3. CASE installed' = installed
    BY <2>3
  <2>4. QED
    BY <2>1, <2>2, <2>3 DEF Outside, Publish, User, WindowsPass, world_vars
<1>5. TypeOK' /\ Exclusive' /\ DiskInv'
  <2>1. installed' \in 0..MaxVersion
    BY <1>2, <1>4 DEF NoVersion
  <2>2. DiskInv'
    BY <1>1, <1>2, <1>3 DEF IInv, TypeOK, DiskInv
  <2>3. QED
    BY <1>1, <1>3, <2>1, <2>2 DEF IInv, TypeOK, Exclusive, Busy
<1>6. ASSUME NEW q \in Procs PROVE CheckInv(q)' /\ ApplyInv(q)'
  <2>1. CheckInv(q) /\ ApplyInv(q) /\ manifest <= server.feed /\ manifest \in Nat
    BY DEF IInv, DiskInv, TypeOK
  <2>2. proc[q].version \in 0..MaxVersion
    BY DEF IInv, TypeOK
  <2>3. CheckInv(q)'
    BY <1>1, <1>2, <1>3, <2>1, <2>2 DEF CheckInv, verify_pending
  <2>4. ApplyInv(q)'
    <3>1. holder # None \/ proc[q].pc \in {"off", "copied", "wait"}
      BY UpdaterAssumption DEF IInv, Exclusive, Busy
    <3>2. QED
      BY <1>1, <1>2, <1>4, <2>1, <3>1 DEF ApplyInv, verify_pending
  <2>5. QED
    BY <2>3, <2>4
<1>7. QED
  BY <1>5, <1>6 DEF IInv

(* A step of a process, whichever it is.                                   *)
LEMMA StepKeeps == \A p \in Procs : IInv /\ Step(p) => IInv'
BY Waiting, Acquiring, CheckBegins, FeedFetched, SignatureFetched, Downloaded, Hashed, Replaced, Named,
   Finished, NetworkFailed, ErrorNoted, ApplyBegins, Unlocked, Ran, Removed, InstallNoted
   DEF Step

LEMMA Stuttered == IInv /\ UNCHANGED vars => IInv'
BY DEF vars, world_vars, pending_vars, IInv, TypeOK, Exclusive, Busy, DiskInv, CheckInv, ApplyInv,
       verify_pending

LEMMA Inductive == IInv /\ [Next]_vars => IInv'
BY Waiting, Acquiring, StepKeeps, Crashed, OutsideKeeps, Stuttered DEF Next, Start

LEMMA Invariant == Spec => []IInv
BY InitInv, Inductive, PTL DEF Spec

-----------------------------------------------------------------------------
(* The types of Updater.                                                   *)
THEOREM Typing == Spec => []TypeOK
<1>1. IInv => TypeOK
  BY DEF IInv
<1>2. QED
  BY Invariant, <1>1, PTL

(* apply.rs: the installer that runs is the one that was verified, for any *)
(* number of processes: nobody gets at it while the user is asked.         *)
THEOREM Unswapped == Spec => []InstallsWhatItVerified
<1>1. IInv => InstallsWhatItVerified
  BY DEF IInv, ApplyInv, InstallsWhatItVerified, At
<1>2. QED
  BY Invariant, <1>1, PTL

(* Who may write where: the files of the pending directory.                *)
LEMMA Writes ==
    ASSUME IInv, Next
    PROVE  \/ UNCHANGED dir_vars
           \/ \E p \in Procs : ReplaceSetup(p) \/ write_manifest(p) \/ remove_dir_all(p)
BY DEF Next, Start, Step, Outside, StartCheck, StartWaiting, OpenMutex, wait_acquire, WaitFails, check_begin, FetchFeed,
       FetchSignature, Download, CheckHash, FinishCheck, NetworkFails, NoteError, apply_begin,
       wait_until_unlocked, run_inno, NoteInstall, Crash, WindowsPass, pending_vars, dir_vars

(* The updater keeps its promise to whoever reads the directory without    *)
(* the mutex (PendingDir): only whole, verified installers, and manifests  *)
(* only of the installer in place.                                         *)
THEOREM Refines == Spec => DirSpec
<1>1. Init => DirInit
  BY DEF Init, DirInit
<1>2. IInv /\ [Next]_vars => [DirNext]_dir_vars
  <2> SUFFICES ASSUME IInv, Next, ~UNCHANGED dir_vars PROVE DirNext
    BY DEF vars, pending_vars, dir_vars
  <2>1. PICK p \in Procs : ReplaceSetup(p) \/ write_manifest(p) \/ remove_dir_all(p)
    BY Writes
  <2>2. CheckInv(p)
    BY DEF IInv
  <2>3. CASE ReplaceSetup(p)
    <3>1. setup' = part /\ part \in Versions /\ manifest' = manifest
      BY <2>2, <2>3 DEF ReplaceSetup, At, CheckInv, Checking
    <3>2. QED
      BY <3>1 DEF DirNext, PutSetup
  <2>4. CASE write_manifest(p)
    <3>1. manifest' = setup /\ setup \in Versions /\ setup' = setup
      BY <2>2, <2>4 DEF write_manifest, At, CheckInv, Checking
    <3>2. setup # NoVersion
      BY <3>1 DEF Versions, NoVersion
    <3>3. QED
      BY <3>1, <3>2 DEF DirNext, PutManifest
  <2>5. CASE remove_dir_all(p)
    BY <2>5 DEF remove_dir_all, pending_vars, dir_vars, DirNext, RemoveSetup, RemoveManifest
  <2>6. QED
    BY <2>1, <2>3, <2>4, <2>5
<1>3. QED
  BY <1>1, <1>2, Invariant, PTL DEF Spec, DirSpec

(* check.rs and apply.rs: a verified installer is lost only to a newer one *)
(* or with its purpose, whoever is killed and whatever fails.              *)
THEOREM Kept == Spec => PendingKept
<1>1. IInv /\ [Next]_vars
      => [verify_pending # NoVersion /\ verify_pending' = NoVersion
          => setup' > manifest \/ installed >= manifest \/ installed = NoVersion]_vars
  <2> SUFFICES ASSUME IInv, Next, verify_pending # NoVersion, verify_pending' = NoVersion
               PROVE  setup' > manifest \/ installed >= manifest \/ installed = NoVersion
    OBVIOUS
  <2>1. ~UNCHANGED dir_vars /\ setup = manifest /\ setup # NoVersion
    BY DEF dir_vars, verify_pending
  <2>2. PICK p \in Procs : ReplaceSetup(p) \/ write_manifest(p) \/ remove_dir_all(p)
    BY <2>1, Writes
  <2>3. CheckInv(p) /\ ApplyInv(p) /\ manifest \in Nat /\ proc[p].version \in 0..MaxVersion
    BY DEF IInv, TypeOK
  <2>4. CASE ReplaceSetup(p)
    <3>1. setup' = proc[p].version /\ manifest' = manifest /\ manifest <= proc[p].version
      BY <2>3, <2>4 DEF ReplaceSetup, At, CheckInv, Checking
    <3>2. setup' # manifest
      BY <2>1, <3>1 DEF verify_pending
    <3>3. QED
      BY <2>3, <3>1, <3>2
  <2>5. CASE write_manifest(p)
    <3>1. manifest' = setup /\ setup' = setup
      BY <2>3, <2>5 DEF write_manifest, At, CheckInv, Checking
    <3>2. QED
      BY <2>1, <3>1 DEF verify_pending
  <2>6. CASE remove_dir_all(p)
    BY <2>3, <2>6 DEF remove_dir_all, ApplyInv
  <2>7. QED
    BY <2>2, <2>4, <2>5, <2>6
<1>2. QED
  BY <1>1, Invariant, PTL DEF Spec, PendingKept

(* state.json: no check overwrites the outcome of an install with what it  *)
(* read earlier.                                                           *)
THEOREM InstallErrorKept == Spec => InstallErrorTracks
<1>1. IInv /\ [Next]_vars
      => [state'.install_error # state.install_error
          => \E p \in Procs : proc[p].pc \in {"done", "failed"}]_vars
  <2> SUFFICES ASSUME IInv, Next, state'.install_error # state.install_error
               PROVE  \E p \in Procs : proc[p].pc \in {"done", "failed"}
    OBVIOUS
  <2>1. PICK p \in Procs : FetchFeed(p) \/ FetchSignature(p) \/ FinishCheck(p) \/ NoteInstall(p)
    BY DEF Next, Start, Step, Outside, StartCheck, StartWaiting, OpenMutex, wait_acquire, WaitFails, check_begin,
           Download, CheckHash, ReplaceSetup, write_manifest, NetworkFails, NoteError, apply_begin,
           wait_until_unlocked, run_inno, remove_dir_all, Crash, WindowsPass
  <2>2. CheckInv(p) /\ proc[p].st \in States
    BY DEF IInv, TypeOK
  <2>3. CASE FetchFeed(p)
    BY <2>2, <2>3 DEF FetchFeed, finish_ok, At, CheckInv, Checking
  <2>4. CASE FetchSignature(p)
    BY <2>2, <2>4 DEF FetchSignature, finish_ok, At, CheckInv, Checking, States
  <2>5. CASE FinishCheck(p)
    BY <2>2, <2>5 DEF FinishCheck, finish_ok, At, CheckInv, Checking, States
  <2>6. CASE NoteInstall(p)
    BY <2>6 DEF NoteInstall
  <2>7. QED
    BY <2>1, <2>3, <2>4, <2>5, <2>6
<1>2. QED
  BY <1>1, Invariant, PTL DEF Spec, InstallErrorTracks

(* A process is moved by its own steps.                                    *)
LEMMA Own ==
    ASSUME IInv, Next, NEW p \in Procs, proc'[p] # proc[p], crashes' = crashes
    PROVE  Start(p) \/ Step(p)
<1>1. \A q \in Procs : Crash(q) => FALSE
  BY DEF Crash, IInv, TypeOK
<1>2. ~Outside
  BY DEF Outside, WindowsPass
<1>3. PICK q \in Procs : Start(q) \/ Step(q)
  BY <1>1, <1>2 DEF Next
<1>4. \E r : proc' = [proc EXCEPT ![q] = r]
  <2>1. CASE Start(q)
    BY <2>1 DEF Start, StartCheck, StartWaiting
  <2>2. CASE Step(q)
    <3>1. CASE FetchFeed(q) \/ FetchSignature(q) \/ FinishCheck(q) \/ check_begin(q) \/ apply_begin(q)
      BY <3>1 DEF FetchFeed, FetchSignature, FinishCheck, check_begin, apply_begin, finish_ok, Exit, Fails, Goto
    <3>2. CASE remove_dir_all(q)
      <4>1. CASE proc' = proc
        BY <4>1 DEF IInv, TypeOK
      <4>2. CASE proc' # proc
        BY <3>2, <4>2 DEF remove_dir_all, Exit, Goto
      <4>3. QED
        BY <4>1, <4>2
    <3>3. CASE ~FetchFeed(q) /\ ~FetchSignature(q) /\ ~FinishCheck(q) /\ ~check_begin(q)
               /\ ~apply_begin(q) /\ ~remove_dir_all(q)
      BY <2>2, <3>3 DEF Step, OpenMutex, wait_acquire, WaitFails, Download, CheckHash, ReplaceSetup, write_manifest,
         NetworkFails, NoteError, wait_until_unlocked, run_inno, NoteInstall, Exit, Fails, Goto
    <3>4. QED
      BY <3>1, <3>2, <3>3
  <2>3. QED
    BY <1>3, <2>1, <2>2
<1>5. q = p
  BY <1>4 DEF IInv, TypeOK
<1>6. QED
  BY <1>3, <1>5

(* check.rs: a check that ends well has the newest version it was told of  *)
(* installed or ready; the etag never hides one that is neither.           *)
THEOREM Settles == Spec => CheckSettles
<1>1. IInv /\ [Next]_vars
      => [\A p \in Procs : Succeeds(p) /\ Told(p) > proc[p].current => verify_pending' = Told(p)]_vars
  <2> SUFFICES ASSUME IInv, Next, NEW p \in Procs, Succeeds(p), Told(p) > proc[p].current
               PROVE  verify_pending' = Told(p)
    OBVIOUS
  <2>1. Start(p) \/ Step(p)
    BY Own DEF Succeeds
  <2>2. CheckInv(p) /\ proc[p] \in Records /\ proc[p].pc \in {"fetch", "verify", "finish"} /\ proc'[p].pc = "off"
    BY DEF IInv, TypeOK, Records, Succeeds
  <2>3. FetchFeed(p) \/ FetchSignature(p) \/ FinishCheck(p)
    <3>1. ~NetworkFails(p)
      BY <2>2 DEF NetworkFails, Fails, Goto, IInv, TypeOK
    <3>2. QED
      BY <2>1, <2>2, <3>1 DEF Start, Step, StartCheck, StartWaiting, OpenMutex, wait_acquire, WaitFails, check_begin, Download,
         CheckHash, ReplaceSetup, write_manifest, NoteError, apply_begin, wait_until_unlocked, run_inno,
         remove_dir_all, NoteInstall, At
  <2>4. setup' = setup /\ manifest' = manifest /\ verify_pending' = verify_pending
    BY <2>3 DEF FetchFeed, FetchSignature, FinishCheck, pending_vars, verify_pending
  <2>5. CASE FetchFeed(p)
    <3>1. proc[p].pc = "fetch" /\ server.feed \in {proc[p].ask, NoVersion}
      BY <2>2, <2>5 DEF FetchFeed, At, IInv, TypeOK
    <3>2. Told(p) = server.feed /\ server.feed # NoVersion
      BY <2>2, <3>1 DEF Told, At, Records, NoVersion
    <3>3. QED
      BY <2>2, <2>4, <3>1, <3>2 DEF CheckInv
  <2>6. CASE FetchSignature(p)
    <3>1. proc[p].pc = "verify" /\ proc[p].version <= proc[p].current
      BY <2>2, <2>6 DEF FetchSignature, At, Fails, Goto, IInv, TypeOK
    <3>2. QED
      BY <2>2, <3>1 DEF Told, At, Records
  <2>7. CASE FinishCheck(p)
    <3>1. proc[p].pc = "finish" /\ setup = proc[p].version /\ manifest = proc[p].version
      BY <2>2, <2>7 DEF FinishCheck, At, CheckInv
    <3>2. QED
      BY <2>4, <3>1 DEF Told, At, verify_pending
  <2>8. QED
    BY <2>3, <2>5, <2>6, <2>7
<1>2. QED
  BY <1>1, Invariant, PTL DEF Spec, CheckSettles
=============================================================================
