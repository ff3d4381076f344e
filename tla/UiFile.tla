------------------------------- MODULE UiFile -------------------------------
(***************************************************************************)
(* The settings file of one user, ui.json, edited in place by every plugin *)
(* instance and every updater under a file lock: lock.rs, ui_json.rs,      *)
(* telemetry.rs and schedule.rs of deviceout-update, the updater's ping.rs.*)
(*                                                                         *)
(* An instance's heartbeat and the updater it starts are one actor: beats  *)
(* are a minute apart and an updater gives up after eight seconds.  The    *)
(* lock is the mandatory one of Windows: a read by anybody else fails while*)
(* it is held.                                                             *)
(***************************************************************************)
EXTENDS Integers, Sequences, FiniteSets

CONSTANTS
    Instances,      \* plugin instances, each with a heartbeat
    EDITOR,         \* the editor in which the user chooses
    RETRY_GAP, DEFAULT_GAP, MIN_GAP, MAX_GAP,
    READ_ATTEMPTS,
    Nexts,          \* what the server may ask for as the next interval
    UNSET,           \* no time, no id, nobody
    MaxTime, MaxClaims, MaxTrouble,
    MaxClicks       \* changes of the user's mind

ASSUME UiFileAssumption ==
    /\ EDITOR \notin Instances /\ UNSET \notin Instances \cup {EDITOR} /\ UNSET \notin Int
    /\ {RETRY_GAP, MaxTime, MaxTrouble, MaxClicks} \subseteq Nat /\ READ_ATTEMPTS \in Nat \ {0}
    /\ Nexts \cup {DEFAULT_GAP, MIN_GAP, MAX_GAP} \subseteq Int /\ MIN_GAP <= MAX_GAP

VARIABLES
    now,
    file,       \* [is : {"empty", "torn", "whole"}, ui]
    lock,
    at,         \* where each actor is
    job,        \* the edit it is about
    out,        \* what it will write, and what the edit returned
    tries,      \* failed reads of the look under way
    blind,      \* its last look saw nothing and took the default
    claims,     \* the times written by the claims, in the order of the lock
    success,    \* the last answered ping that was recorded, and the least rest due after it
    hasty,      \* a claim was made within that rest
    pinged,     \* ids sent to the server
    off,        \* the user's last accepted choice is "off"
    warned,     \* actors whose updater looked after that
    leaked,     \* a ping was sent all the same, by a look that was not blind
    clicks,
    cut,        \* a write was cut short
    trouble

ui_vars ==
    <<now, file, lock, at, job, out, tries, blind, claims, success, hasty, pinged, off, warned, leaked, clicks, cut, trouble>>

Actors == Instances \union {EDITOR}

UiJson == [ enabled |-> FALSE, set |-> FALSE, id |-> UNSET, ok |-> UNSET, try |-> UNSET, interval |-> UNSET ]

Empty == [ is |-> "empty", ui |-> UiJson ]
Torn == [ is |-> "torn", ui |-> UiJson ]
Whole(ui) == [ is |-> "whole", ui |-> ui ]

Clamp(x, a, b) == IF x < a THEN a ELSE IF x > b THEN b ELSE x

-----------------------------------------------------------------------------
\* A time that lies ahead is not within any window.
within(last, t, window) == last # UNSET /\ t - last \in 0..(window - 1)

gap(ui) == Clamp(IF ui.interval = UNSET THEN DEFAULT_GAP ELSE ui.interval, MIN_GAP, MAX_GAP)

\* A slip: forgets that the last one was answered a short while ago.
should_ping_unrested(ui, t) == ~within(ui.try, t, RETRY_GAP)

\* A slip: forgets that one is under way.
should_ping_untried(ui, t) == ~within(ui.ok, t, gap(ui))

should_ping(ui, t) == ~within(ui.try, t, RETRY_GAP) /\ ~within(ui.ok, t, gap(ui))

is_enabled(ui) == ui.set => ui.enabled

Leeway(secs) == IF secs < 10 THEN 1 ELSE secs \div 10
jitter(secs) == { Clamp(secs + d, MIN_GAP, MAX_GAP) : d \in (-Leeway(secs))..Leeway(secs) }

\* A tenth less than the server asks for, within the bounds.
LeastRest(n) == LET secs == Clamp(n, MIN_GAP, MAX_GAP) IN Clamp(secs - Leeway(secs), MIN_GAP, MAX_GAP)

\* What each edit makes of the settings, and what it returns.
Edited(j, ui) ==
    CASE j.do = "set_enabled" -> { [ ui |-> [ui EXCEPT !.enabled = j.on, !.set = TRUE], yes |-> TRUE ] }
      [] j.do = "claim" ->
            LET go == should_ping(ui, j.clock)
            IN  { [ ui |-> IF go THEN [ui EXCEPT !.try = j.clock] ELSE ui, yes |-> go ] }
      [] j.do = "ensure_id" -> { [ ui |-> IF ui.id = UNSET THEN [ui EXCEPT !.id = j.id] ELSE ui, yes |-> TRUE ] }
      [] j.do = "record_ping_ok" ->
            { [ ui |-> [ui EXCEPT !.ok = j.clock, !.interval = i], yes |-> TRUE ] :
              i \in IF j.next = UNSET THEN {ui.interval} ELSE jitter(Clamp(j.next, MIN_GAP, MAX_GAP)) }

NoJob == [ do |-> "nothing" ]
NoOut == [ ui |-> UiJson, yes |-> FALSE ]

-----------------------------------------------------------------------------
UiInit ==
    /\ now = 0
    /\ file = Empty
    /\ lock = UNSET
    /\ at = [a \in Actors |-> "idle"]
    /\ job = [a \in Actors |-> NoJob]
    /\ out = [a \in Actors |-> NoOut]
    /\ tries = [a \in Actors |-> 0]
    /\ blind = [a \in Actors |-> FALSE]
    /\ claims = <<>>
    /\ success = [at |-> UNSET, rest |-> Clamp(DEFAULT_GAP, MIN_GAP, MAX_GAP)]
    /\ hasty = FALSE
    /\ pinged = {}
    /\ off = FALSE
    /\ warned = {}
    /\ leaked = FALSE
    /\ clicks = 0
    /\ cut = FALSE
    /\ trouble = 0

\* Goes for the lock, to do a job of its own.
Want(a, j) ==
    /\ at' = [at EXCEPT ![a] = "lock"]
    /\ job' = [job EXCEPT ![a] = j]
    /\ out' = [out EXCEPT ![a] = NoOut]

Done(a) ==
    /\ at' = [at EXCEPT ![a] = "idle"]
    /\ job' = [job EXCEPT ![a] = NoJob]
    /\ out' = [out EXCEPT ![a] = NoOut]
    /\ blind' = [blind EXCEPT ![a] = FALSE]

\* spawn_ping looks at the settings before anything else.
Beat(a) ==
    /\ at[a] = "idle"
    /\ Len(claims) < MaxClaims
    /\ at' = [at EXCEPT ![a] = "look"]
    /\ UNCHANGED <<now, file, lock, job, out, tries, blind, claims, success, hasty, pinged, off, warned, leaked, clicks, cut, trouble>>

\* What a look leads to: the plugin reads its clock and claims, the updater
\* wants an id.
Looked(a, ui, saw) ==
    /\ tries' = [tries EXCEPT ![a] = 0]
    /\ IF ~is_enabled(ui) THEN Done(a)
       ELSE /\ Want(a, IF at[a] = "look" THEN [ do |-> "claim", clock |-> now ]
                                       ELSE [ do |-> "ensure_id", id |-> a ])
            /\ blind' = [blind EXCEPT ![a] = ~saw]

\* Two more attempts after a failed one, then the default.
load_at(a) ==
    /\ at[a] \in {"look", "look_again"}
    /\ IF file.is = "torn" \/ lock # UNSET
       THEN IF tries[a] + 1 < READ_ATTEMPTS
            THEN tries' = [tries EXCEPT ![a] = @ + 1] /\ UNCHANGED <<at, job, out, blind>>
            ELSE Looked(a, UiJson, FALSE)
       ELSE Looked(a, file.ui, TRUE)
    /\ UNCHANGED <<now, file, lock, claims, success, hasty, pinged, off, warned, leaked, clicks, cut, trouble>>

\* The lock, the read and the edit; a file that does not parse is left alone.
with_file_lock(a) ==
    /\ at[a] = "lock"
    /\ lock = UNSET
    /\ IF file.is = "torn"
       THEN Done(a) /\ UNCHANGED lock
       ELSE /\ lock' = a
            /\ at' = [at EXCEPT ![a] = "write"]
            /\ \E o \in Edited(job[a], file.ui) : out' = [out EXCEPT ![a] = o]
            /\ UNCHANGED <<job, blind>>
    /\ UNCHANGED <<now, file, tries, claims, success, hasty, pinged, off, warned, leaked, clicks, cut, trouble>>

\* What the histories remember of an answered ping, and of a claim: whether its
\* clock lies in the rest after the last one recorded.
Remembers(j, yes) ==
    /\ success' =
          IF j.do # "record_ping_ok" THEN success
          ELSE [at |-> j.clock, rest |-> IF j.next = UNSET THEN success.rest ELSE LeastRest(j.next)]
    /\ hasty' = ( \/ hasty
                  \/ /\ j.do = "claim" /\ yes /\ success.at # UNSET
                     /\ j.clock >= success.at /\ j.clock < success.at + success.rest )

\* The file is emptied and written, which nobody can see for the lock, and the
\* caller goes on with the edit's answer.
write_back(a) ==
    /\ at[a] = "write"
    /\ file' = Whole(out[a].ui)
    /\ lock' = UNSET
    /\ Remembers(job[a], out[a].yes)
    /\ CASE job[a].do = "claim" /\ out[a].yes ->
                /\ claims' = Append(claims, job[a].clock)
                /\ at' = [at EXCEPT ![a] = "look_again"]
                /\ warned' = IF off THEN warned \union {a} ELSE warned \ {a}
                /\ UNCHANGED <<job, out, blind, off>>
         [] job[a].do = "ensure_id" ->
                at' = [at EXCEPT ![a] = "send"] /\ UNCHANGED <<job, out, blind, claims, off, warned>>
         [] job[a].do = "set_enabled" ->
                /\ off' = ~job[a].on
                /\ warned' = IF job[a].on THEN {} ELSE warned
                /\ Done(a)
                /\ UNCHANGED claims
         [] OTHER -> Done(a) /\ UNCHANGED <<claims, off, warned>>
    /\ UNCHANGED <<now, tries, pinged, leaked, clicks, cut, trouble>>

\* The updater's post; the server may answer with the next interval.
Send(a) ==
    /\ at[a] = "send"
    /\ pinged' = pinged \union {out[a].ui.id}
    /\ leaked' = (leaked \/ (a \in warned /\ ~blind[a]))
    /\ \/ \E n \in Nexts \union {UNSET} :
              /\ Want(a, [ do |-> "record_ping_ok", clock |-> now, next |-> n ])
              /\ UNCHANGED blind
       \/ Done(a)
    /\ UNCHANGED <<now, file, lock, tries, claims, success, hasty, off, warned, clicks, cut, trouble>>

\* The box in the editor shows the last choice; a click turns it over.
set_enabled(on) ==
    /\ at[EDITOR] = "idle"
    /\ on = off
    /\ clicks < MaxClicks
    /\ clicks' = clicks + 1
    /\ Want(EDITOR, [ do |-> "set_enabled", on |-> on ])
    /\ UNCHANGED <<now, file, lock, tries, blind, claims, success, hasty, pinged, off, warned, leaked, cut, trouble>>

\* The disk is full or the process dies: the system gives the lock back.  If
\* the file had been emptied it is left empty or torn.
CutShort(a) ==
    /\ trouble < MaxTrouble
    /\ trouble' = trouble + 1
    /\ at[a] # "idle"
    /\ Done(a)
    /\ lock' = IF lock = a THEN UNSET ELSE lock
    /\ \/ at[a] = "write" /\ cut' = TRUE /\ file' \in {Empty, Torn}
       \/ UNCHANGED <<file, cut>>
    /\ tries' = [tries EXCEPT ![a] = 0]
    /\ UNCHANGED <<now, claims, success, hasty, pinged, off, warned, leaked, clicks>>

Tick ==
    /\ now < MaxTime
    /\ now' = now + 1
    /\ UNCHANGED <<file, lock, at, job, out, tries, blind, claims, success, hasty, pinged, off, warned, leaked, clicks, cut, trouble>>

UiNext ==
    \/ Tick
    \/ \E on \in BOOLEAN : set_enabled(on)
    \/ \E a \in Instances : Beat(a) \/ load_at(a) \/ Send(a)
    \/ \E a \in Actors : with_file_lock(a) \/ write_back(a) \/ CutShort(a)

UiSpec == UiInit /\ [][UiNext]_ui_vars

-----------------------------------------------------------------------------
Places == {"idle", "look", "look_again", "lock", "write", "send"}

Times == Int \cup {UNSET}
Uis == [ enabled : BOOLEAN, set : BOOLEAN, id : Instances \cup {UNSET}, ok : Times, try : Times, interval : Times ]
Files == [ is : {"empty", "torn", "whole"}, ui : Uis ]
Outs == [ ui : Uis, yes : BOOLEAN ]
Jobs ==
    { NoJob } \cup [ do : {"set_enabled"}, on : BOOLEAN ] \cup [ do : {"claim"}, clock : Nat ]
        \cup [ do : {"ensure_id"}, id : Instances ]
        \cup [ do : {"record_ping_ok"}, clock : Nat, next : Nexts \cup {UNSET} ]

UiTypeOK ==
    /\ now \in 0..MaxTime /\ trouble \in 0..MaxTrouble /\ clicks \in 0..MaxClicks
    /\ file \in Files
    /\ lock \in Actors \cup {UNSET}
    /\ at \in [Actors -> Places] /\ job \in [Actors -> Jobs] /\ out \in [Actors -> Outs]
    /\ tries \in [Actors -> 0..(READ_ATTEMPTS - 1)]
    /\ blind \in [Actors -> BOOLEAN]
    /\ off \in BOOLEAN /\ leaked \in BOOLEAN /\ cut \in BOOLEAN /\ hasty \in BOOLEAN
    /\ success \in [ at : Times, rest : Int ]
    /\ claims \in Seq(Nat) /\ warned \subseteq Actors /\ pinged \subseteq Instances \cup {UNSET}

\* However many instances want the ping of the moment, one claims it: of two
\* claims in the order of the lock the later lies the retry gap after the
\* earlier, unless its clock was read before the other's (telemetry.rs reads it
\* before it waits for the lock) or a write was cut short.
ClaimedOnce ==
    cut \/ \A i \in 2..Len(claims) : claims[i] < claims[i - 1] \/ claims[i] >= claims[i - 1] + RETRY_GAP

\* An answered ping holds for its interval: once it is recorded nobody claims
\* another before the default interval has passed or, as soon as the server has
\* asked for one, before nine tenths of that (within the bounds; a second less
\* where it is below ten), whichever instance asks.  The exceptions are a claim
\* whose clock was read before the answer's and a write that was cut short; an
\* answer recorded later takes an earlier one's place, even with an older clock
\* (should_ping, gap, record_ping_ok).
RestsAfterSuccess == hasty => cut

\* Once the user's "off" is in the file, no updater that starts afterwards
\* sends a ping; only one that could not read the file does, or one after a
\* write that was cut short.
OptOutHolds == leaked => cut

\* Whoever is first to need one makes the installation's id, and every ping
\* carries it, unless a write was cut short.
OneIdentity == Cardinality(pinged) > 1 => cut

\* Nobody but the holder of the lock finds the file other than whole, and a cut
\* short write alone leaves it so.
WholeWhenFree ==
    lock = UNSET /\ ~cut =>
        \/ file.is = "whole"
        \/ file = Empty /\ claims = <<>> /\ ~off

\* Among all instances one claim in each retry gap and none within the interval
\* after an answered ping (five minutes unless the server asks for another, from
\* one minute to six hours), no ping after the user's refusal, one id, and a file
\* that is whole when nobody holds its lock (lock.rs, telemetry.rs).
SettingsFileHolds ==
    UiTypeOK /\ ClaimedOnce /\ RestsAfterSuccess /\ OptOutHolds /\ OneIdentity /\ WholeWhenFree
=============================================================================
