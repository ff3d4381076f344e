------------------------------- MODULE Install -------------------------------
(***************************************************************************)
(* cargo xtask install and uninstall (xtask, install.rs): a bundle is      *)
(* copied into the user's or the machine's folder for plug-ins, where      *)
(* hosts may be using it, or taken out again.                              *)
(*                                                                         *)
(* A bundle is the set of its files; a file is named by what it is and the *)
(* build it is of.  Windows keeps a binary that a host has loaded from     *)
(* being written or deleted; the other files are free.                     *)
(***************************************************************************)
EXTENDS Integers, FiniteSets

CONSTANTS
    Scopes,         \* "user", "machine"
    Builds,         \* versions a source may be of
    VERSION,        \* the tool's own
    MaxCommands, MaxLoads   \* bounds: commands, and times a host opens the plug-in

\* Every machine has the user's own folder; some have the machine's too.
ASSUME InstallAssumption == "user" \in Scopes

VARIABLES
    bundle,         \* per scope: the files there, or Absent
    loaded,         \* scopes whose binary a host has open
    admin,          \* the terminal may write to the machine's folder
    cmd,            \* the command under way
    blocked,        \* uninstall: scopes it will report as not removed
    undisturbed,    \* ghost: per scope, what was there if a host has had it open since the command began
    runs, loads

install_vars == <<bundle, loaded, admin, cmd, blocked, undisturbed, runs, loads>>

\* --source may name the very bundle that the command is to replace.
ITSELF == 0

Parts == {"binary", "resource"}
File(part, build) == [part |-> part, build |-> build]
Marker(scope) == [part |-> "marker", build |-> VERSION, scope |-> scope]
WholeBundle(build) == IF build = ITSELF THEN {} ELSE {File(p, build) : p \in Parts}
Absent == [is |-> "absent"]
Dir(files) == [is |-> "dir", files |-> files]
Exists(scope) == bundle[scope].is = "dir"
BundleFiles(scope) == IF Exists(scope) THEN bundle[scope].files ELSE {}
HasBinary(scope) == \E f \in BundleFiles(scope) : f.part = "binary"

NoCommand == [op |-> "none", at |-> "idle", todo |-> {}, scope |-> "user", build |-> VERSION,
         result |-> "none"]
Ended(result) == [NoCommand EXCEPT !.op = cmd.op, !.scope = cmd.scope, !.build = cmd.build,
                              !.todo = {}, !.result = result]

\* What a terminal without the rights of an administrator may not do.
MayWrite(scope) == scope = "user" \/ admin

-----------------------------------------------------------------------------
InstallInit ==
    /\ bundle \in [Scopes -> {Absent, Dir(WholeBundle(VERSION))}]
    /\ loaded = {} /\ admin \in BOOLEAN
    /\ cmd = NoCommand /\ blocked = {}
    /\ undisturbed = [s \in Scopes |-> Absent]
    /\ runs = 0 /\ loads = 0

Begin(c) ==
    /\ cmd.at = "idle" /\ runs < MaxCommands /\ runs' = runs + 1
    /\ cmd' = c /\ blocked' = {}
    /\ undisturbed' = [s \in Scopes |-> IF s \in loaded THEN bundle[s] ELSE Absent]
    /\ UNCHANGED <<bundle, loaded, admin, loads>>

BeginInstall == \E s \in Scopes, b \in Builds \cup {ITSELF} :
    (b = ITSELF => HasBinary(s)) /\
    Begin([NoCommand EXCEPT !.op = "install", !.at = "check", !.scope = s, !.build = b, !.todo = {s}])

\* With --all, the user's folder and then the machine's.
BeginUninstall == \E op \in {"uninstall", "uninstall all"}, s \in Scopes :
    Begin([NoCommand EXCEPT !.op = op, !.at = "check", !.scope = IF op = "uninstall" THEN s ELSE "user",
                       !.todo = IF op = "uninstall" THEN {s} ELSE Scopes])

\* A slip: looks at permissions only.
is_read_only(scope) == HasBinary(scope) /\ ~MayWrite(scope)

\* is_locked: the binary cannot be opened for writing, for whatever reason.
is_locked(scope) == HasBinary(scope) /\ (scope \in loaded \/ ~MayWrite(scope))

Step(c) == cmd' = c /\ UNCHANGED <<loaded, admin, undisturbed, runs, loads>>

-----------------------------------------------------------------------------
(***************************************************************************)
(* install                                                                 *)
(***************************************************************************)
CheckTarget ==
    /\ cmd.op = "install" /\ cmd.at = "check"
    /\ Step(IF is_locked(cmd.scope) THEN Ended("in use") ELSE [cmd EXCEPT !.at = "remove"])
    /\ UNCHANGED <<bundle, blocked>>

\* remove_dir_all, file by file in the order the directory gives them; it ends
\* at the first that cannot be deleted.
Removable(f, scope) == MayWrite(scope) /\ ~(f.part = "binary" /\ scope \in loaded)

RemoveBundleFile(scope) == \E f \in BundleFiles(scope) :
    /\ Removable(f, scope)
    /\ bundle' = [bundle EXCEPT ![scope].files = @ \ {f}]
RemoveDir(scope) ==
    /\ Exists(scope) /\ BundleFiles(scope) = {} /\ MayWrite(scope)
    /\ bundle' = [bundle EXCEPT ![scope] = Absent]
CannotRemove(scope) ==
    Exists(scope) /\ (~MayWrite(scope) \/ \E f \in BundleFiles(scope) : ~Removable(f, scope))

RemoveOld ==
    /\ cmd.op = "install" /\ cmd.at = "remove"
    /\ \/ (RemoveBundleFile(cmd.scope) \/ RemoveDir(cmd.scope)) /\ Step(cmd)
       \/ CannotRemove(cmd.scope) /\ Step(Ended("error")) /\ UNCHANGED bundle
       \/ ~Exists(cmd.scope) /\ Step([cmd EXCEPT !.at = "copy"]) /\ UNCHANGED bundle
    /\ UNCHANGED blocked

\* copy_dir_all: the directory, then its files; a full disk ends it early. A
\* source that was the target has been removed, and has no files any more.
CopyNew ==
    LET missing == WholeBundle(cmd.build) \ BundleFiles(cmd.scope)
    IN  /\ cmd.op = "install" /\ cmd.at = "copy"
        /\ \/ /\ MayWrite(cmd.scope)
              /\ \/ ~Exists(cmd.scope) /\ bundle' = [bundle EXCEPT ![cmd.scope] = Dir({})] /\ Step(cmd)
                 \/ /\ Exists(cmd.scope)
                    /\ \E f \in missing :
                            bundle' = [bundle EXCEPT ![cmd.scope].files = @ \cup {f}] /\ Step(cmd)
                 \/ /\ Exists(cmd.scope) /\ missing = {}
                    /\ Step([cmd EXCEPT !.at = "marker"]) /\ UNCHANGED bundle
           \/ Step(Ended("error")) /\ UNCHANGED bundle
        /\ UNCHANGED blocked

write_marker ==
    /\ cmd.op = "install" /\ cmd.at = "marker"
    /\ \/ /\ bundle' = [bundle EXCEPT ![cmd.scope].files = @ \cup {Marker(cmd.scope)}]
          /\ Step([cmd EXCEPT !.at = "updater"])
       \/ Step(Ended("error")) /\ UNCHANGED bundle
    /\ UNCHANGED blocked

\* The updater's copy may fail: it is running.
install_updater ==
    /\ cmd.op = "install" /\ cmd.at = "updater"
    /\ \E r \in {"ok", "error"} : Step(Ended(r))
    /\ UNCHANGED <<bundle, blocked>>

install == CheckTarget \/ RemoveOld \/ CopyNew \/ write_marker \/ install_updater

-----------------------------------------------------------------------------
(***************************************************************************)
(* uninstall                                                               *)
(***************************************************************************)
Uninstalling == cmd.op \in {"uninstall", "uninstall all"}

\* The next scope, or the end: its report of what is left is not an error.
NextScope == IF cmd.todo = {cmd.scope} THEN Ended("ok")
             ELSE [cmd EXCEPT !.at = "check", !.todo = @ \ {cmd.scope},
                              !.scope = CHOOSE s \in cmd.todo : s # cmd.scope]

CheckScope ==
    /\ Uninstalling /\ cmd.at = "check"
    /\ IF Exists(cmd.scope) /\ ~is_locked(cmd.scope)
       THEN Step([cmd EXCEPT !.at = "remove"]) /\ UNCHANGED blocked
       ELSE /\ Step(NextScope)
            /\ blocked' = IF Exists(cmd.scope) THEN blocked \cup {cmd.scope} ELSE blocked
    /\ UNCHANGED bundle

RemoveScope ==
    /\ Uninstalling /\ cmd.at = "remove"
    /\ \/ RemoveBundleFile(cmd.scope) /\ Step(cmd) /\ UNCHANGED blocked
       \/ RemoveDir(cmd.scope) /\ Step(NextScope) /\ UNCHANGED blocked
       \/ /\ CannotRemove(cmd.scope) /\ UNCHANGED bundle
          /\ IF cmd.op = "uninstall all"
             THEN Step(NextScope) /\ blocked' = blocked \cup {cmd.scope}
             ELSE Step(Ended("error")) /\ UNCHANGED blocked

uninstall == CheckScope \/ RemoveScope

-----------------------------------------------------------------------------
(***************************************************************************)
(* The hosts, and the terminal being closed                                *)
(***************************************************************************)
HostOpens(s) ==
    /\ s \notin loaded /\ HasBinary(s) /\ loads < MaxLoads
    /\ loads' = loads + 1 /\ loaded' = loaded \cup {s}
    /\ UNCHANGED <<bundle, admin, cmd, blocked, undisturbed, runs>>

HostCloses(s) ==
    /\ s \in loaded /\ loaded' = loaded \ {s}
    /\ undisturbed' = [undisturbed EXCEPT ![s] = Absent]
    /\ UNCHANGED <<bundle, admin, cmd, blocked, runs, loads>>

Interrupted ==
    /\ cmd.at # "idle"
    /\ Step(Ended("interrupted")) /\ UNCHANGED <<bundle, blocked>>

InstallNext ==
    \/ BeginInstall \/ BeginUninstall \/ install \/ uninstall \/ Interrupted
    \/ \E s \in Scopes : HostOpens(s) \/ HostCloses(s)

InstallSpec == InstallInit /\ [][InstallNext]_install_vars

-----------------------------------------------------------------------------
(***************************************************************************)
(* A command that reports success leaves what it says: an install every    *)
(* file of the source, none of an older one and the marker, whatever an    *)
(* interrupted or failed one had left; an uninstall nothing of any folder  *)
(* that it does not list as left over. The one exception: an install whose *)
(* source is its target deletes it, and reports success.                   *)
(***************************************************************************)
Delivered(c, left) ==
    /\ c.op = "install" /\ c.result = "ok" /\ c.build # ITSELF =>
            BundleFiles(c.scope) = WholeBundle(c.build) \cup {Marker(c.scope)}
    /\ c.op = "uninstall" /\ c.result = "ok" => ~Exists(c.scope) \/ c.scope \in left
    /\ c.op = "uninstall all" /\ c.result = "ok" => \A s \in Scopes : ~Exists(s) \/ s \in left
DoneAsReported == cmd.at = "idle" => Delivered(cmd, blocked)

(***************************************************************************)
(* A bundle that a host has had open since the command began is as it was, *)
(* down to the files the host does not hold: no running plug-in loses its  *)
(* resources to an install that is then refused.                           *)
(***************************************************************************)
OpenBundlesAreLeft ==
    \A s \in loaded : undisturbed[s].is = "dir" => bundle[s] = undisturbed[s]
=============================================================================
