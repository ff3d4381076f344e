--------------------------------- MODULE Job ---------------------------------
(***************************************************************************)
(* How the updater runs the setup (deviceout-updater, job.rs): the command *)
(* line it writes, and the job object that takes the setup's whole tree of *)
(* processes down with it.                                                 *)
(*                                                                         *)
(* Windows' part is external: what a job does to its members, and the way  *)
(* a program finds its arguments in a command line.                        *)
(***************************************************************************)
EXTENDS Integers, Sequences, SequencesExt

CONSTANTS
    Chars,          \* one character of each kind: plain, space, quote, backslash
    MaxArg,         \* length of an argument
    timeout_ms      \* in ticks

VARIABLES
    job_at,         \* where run_tree is
    suspended,      \* the setup has been created and not resumed
    tree,           \* processes alive, of the setup and the child it starts
    members,        \* those in the job
    exit_code,      \* of the setup, once it has ended
    by_itself,      \* the setup ended, and nothing had killed it
    waited,         \* ticks in WaitForSingleObject
    outcome         \* what run_tree returned

job_vars == <<job_at, suspended, tree, members, exit_code, by_itself, waited, outcome>>

NoCode == -1
KILLED == 1         \* TerminateJobObject's code

-----------------------------------------------------------------------------
(***************************************************************************)
(* The command line.                                                       *)
(***************************************************************************)
Slashes(n) == [i \in 1..n |-> "backslash"]

QuoteChar(s, c) ==
    CASE c = "backslash" -> [s EXCEPT !.slashes = @ + 1]
      [] c = "quote" -> [out |-> s.out \o Slashes(2 * s.slashes + 1) \o <<c>>, slashes |-> 0]
      [] OTHER -> [out |-> s.out \o Slashes(s.slashes) \o <<c>>, slashes |-> 0]

\* A slip: backslashes before the closing quote are not doubled.
quote_arg_undoubled(arg) ==
    IF arg # <<>> /\ \A i \in DOMAIN arg : arg[i] \notin {"space", "quote"}
    THEN arg
    ELSE LET s == FoldLeft(QuoteChar, [out |-> <<"quote">>, slashes |-> 0], arg)
         IN  s.out \o Slashes(s.slashes) \o <<"quote">>

quote_arg(arg) ==
    IF arg # <<>> /\ \A i \in DOMAIN arg : arg[i] \notin {"space", "quote"}
    THEN arg
    ELSE LET s == FoldLeft(QuoteChar, [out |-> <<"quote">>, slashes |-> 0], arg)
         IN  s.out \o Slashes(2 * s.slashes) \o <<"quote">>

command_line(exe, args) ==
    FoldLeft(LAMBDA line, a : line \o <<"space">> \o quote_arg(a), quote_arg(exe), args)

\* The C runtime: backslashes count by pairs before a quote, and stand for
\* themselves before anything else.
FlushSlashes(s) == [s EXCEPT !.word = @ \o Slashes(s.slashes), !.slashes = 0]
EndWord(s) == IF s.open THEN [s EXCEPT !.words = Append(@, s.word), !.word = <<>>, !.open = FALSE]
                        ELSE s

ParseChar(s, c) ==
    CASE c = "backslash" -> [s EXCEPT !.slashes = @ + 1, !.open = TRUE]
      [] c = "quote" /\ s.slashes % 2 = 0 ->
            [s EXCEPT !.word = @ \o Slashes(s.slashes \div 2), !.slashes = 0,
                      !.quoted = ~@, !.open = TRUE]
      [] c = "quote" -> [s EXCEPT !.word = @ \o Slashes(s.slashes \div 2) \o <<c>>, !.slashes = 0]
      [] c = "space" /\ ~s.quoted -> EndWord(FlushSlashes(s))
      [] OTHER -> LET f == FlushSlashes(s) IN [f EXCEPT !.word = Append(@, c), !.open = TRUE]

Arguments(line) ==
    LET s == FoldLeft(ParseChar, [words |-> <<>>, word |-> <<>>, slashes |-> 0,
                                  quoted |-> FALSE, open |-> FALSE], line)
    IN  EndWord(FlushSlashes(s)).words

-----------------------------------------------------------------------------
JobInit ==
    /\ job_at = "start" /\ outcome = "none"
    /\ suspended = FALSE /\ tree = {} /\ members = {}
    /\ exit_code = NoCode /\ by_itself = FALSE /\ waited = 0

\* The last handle of the job is closed on every way out, and the limit set on
\* it kills the members; TerminateJobObject does the same before that.
Close(result, code) ==
    /\ job_at' = "returned" /\ outcome' = result
    /\ tree' = tree \ members /\ members' = {}
    /\ exit_code' = IF "setup" \in members THEN code ELSE exit_code
    /\ UNCHANGED <<suspended, by_itself, waited>>

Bail == Close("error", KILLED)

\* CreateJobObject, then the limit: nothing runs yet.
PrepareJob ==
    /\ job_at = "start"
    /\ \/ job_at' = "prepared" /\ UNCHANGED <<suspended, tree, members, exit_code, by_itself, waited, outcome>>
       \/ Bail

CreateProcess ==
    /\ job_at = "prepared"
    /\ \/ job_at' = "created" /\ tree' = {"setup"} /\ suspended' = TRUE
          /\ UNCHANGED <<members, exit_code, by_itself, waited, outcome>>
       \/ Bail

AssignProcess ==
    /\ job_at = "created"
    /\ \/ job_at' = "assigned" /\ members' = tree
          /\ UNCHANGED <<suspended, tree, exit_code, by_itself, waited, outcome>>
       \/ Bail

Resume ==
    /\ job_at = "assigned"
    /\ \/ job_at' = "waiting" /\ suspended' = FALSE
          /\ UNCHANGED <<tree, members, exit_code, by_itself, waited, outcome>>
       \/ Bail

\* WaitForSingleObject's three answers.
Exited ==
    /\ job_at = "waiting" /\ "setup" \notin tree
    /\ Close("exited", KILLED) \/ Bail

\* A slip: takes the code of the killed setup for its own.
TimedOutAsExited ==
    job_at = "waiting" /\ "setup" \in tree /\ waited = timeout_ms /\ Close("exited", KILLED)

TimedOut == job_at = "waiting" /\ "setup" \in tree /\ waited = timeout_ms /\ Close("timed out", KILLED)

WaitFails == job_at = "waiting" /\ Bail

\* The updater is killed: its handles are closed for it.
Killed ==
    /\ job_at # "returned"
    /\ Close("none", KILLED)

\* What the setup does: it may start a child, which the job takes in, and end
\* before it.
Forks ==
    /\ "setup" \in tree /\ ~suspended /\ "child" \notin tree
    /\ tree' = tree \cup {"child"}
    /\ members' = IF "setup" \in members THEN members \cup {"child"} ELSE members
    /\ UNCHANGED <<job_at, suspended, exit_code, by_itself, waited, outcome>>

ProcessEnds(p) ==
    /\ p \in tree /\ ~suspended
    /\ tree' = tree \ {p} /\ members' = members \ {p}
    /\ IF p = "setup" THEN exit_code' \in {0, KILLED, 7} /\ by_itself' = TRUE
                      ELSE UNCHANGED <<exit_code, by_itself>>
    /\ UNCHANGED <<job_at, suspended, waited, outcome>>

JobTick ==
    /\ job_at = "waiting" /\ waited < timeout_ms
    /\ waited' = waited + 1
    /\ UNCHANGED <<job_at, suspended, tree, members, exit_code, by_itself, outcome>>

run_tree == PrepareJob \/ CreateProcess \/ AssignProcess \/ Resume \/ Exited \/ TimedOut \/ WaitFails

JobNext == run_tree \/ Killed \/ Forks \/ JobTick \/ \E p \in {"setup", "child"} : ProcessEnds(p)

JobSpec == JobInit /\ [][JobNext]_job_vars
JobLiveSpec == JobSpec /\ WF_job_vars(run_tree) /\ WF_job_vars(JobTick)

-----------------------------------------------------------------------------
(***************************************************************************)
(* Every argument reaches the setup as it was given, whatever spaces,      *)
(* quotes and backslashes it holds: an unquoted /DIR would install into    *)
(* another folder.                                                         *)
(***************************************************************************)
ArgumentsArrive ==
    LET Args == BoundedSeq(Chars, MaxArg)
        exe == <<"plain", "space", "plain">>
    IN  \A a, b \in Args : Arguments(command_line(exe, <<a, b>>)) = <<exe, a, b>>

(***************************************************************************)
(* Once run_tree is over, in whatever way, or the updater is gone, nothing *)
(* that the setup started runs on, its child included: a setup that goes   *)
(* on would write into a bundle the updater takes for finished. All that   *)
(* can be left is a setup that never ran an instruction, because it could  *)
(* not be put into the job.                                                *)
(***************************************************************************)
TreeEnds == job_at = "returned" => tree = {} \/ (suspended /\ tree = {"setup"})

(***************************************************************************)
(* "exited" is reported only of a setup that ended by itself within the    *)
(* time; a setup that was killed is never taken for one, though its exit   *)
(* code, the one it was killed with, may be any setup's own.               *)
(***************************************************************************)
OutcomeTold ==
    /\ outcome = "exited" => by_itself /\ exit_code # NoCode
    /\ outcome = "timed out" => waited = timeout_ms

\* run_tree comes back, however long the setup would take.
RunEnds == job_at # "returned" ~> job_at = "returned"
=============================================================================
