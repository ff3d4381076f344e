-------------------------------- MODULE Mixer --------------------------------
(***************************************************************************)
(* Several tracks into one device (crates/deviceout-engine/src/mixer.rs).  *)
(*                                                                         *)
(* Plugin threads join and leave through the SourceBus: they take the      *)
(* inbox lock and post an order.  The engine thread owns the Mixer: each   *)
(* sync() tries the lock, and skips when somebody holds it; each pull()    *)
(* then visits every source once, mixes those that are live and writes the *)
(* bridge's ledger.  Audio threads push into the sources' rings at any     *)
(* point of all this.                                                      *)
(*                                                                         *)
(* A ring is what Ring.tla shows it to be: a bounded queue, here its fill  *)
(* and its running counters, in frames.  Counters carries the two fields   *)
(* that behave differently (one grows with every push, one with every      *)
(* overrun); push_events and samples_dropped follow them.  Vec order only  *)
(* decides which source is copied and which are added, so sources is a set.*)
(* The counts of joined and live sources are shown to the user and read by *)
(* nothing else; they are left out.                                        *)
(***************************************************************************)
EXTENDS Integers, Sequences, FiniteSets

CONSTANTS
    MaxId,       \* bound: source ids handed out
    Foreign,     \* ids whose ring has another channel count than the mixer
    Capacity,    \* frames a ring holds
    Span,        \* frames a pull asks of every source
    Target,      \* fill at which a source may enter the mix
    Quiet,       \* pulls in QUIET_S seconds
    Blocks,      \* frames the host may push at once
    MaxPushed,   \* bound: frames pushed into one ring
    MaxOverruns, \* bound: pushes into one ring that do not fit
    MaxLosses    \* bound: times the device is lost

Ids == 1 .. MaxId

ASSUME MixerAssumption ==
    /\ MaxId \in Nat
    /\ Foreign \subseteq Ids
    /\ Capacity \in Nat /\ Span \in Nat \ {0} /\ Target \in Nat
    /\ Span <= Target       \* worker.rs: target_level is at least a period
    /\ Target <= Capacity   \* worker.rs: ring_capacity holds four targets
    /\ Quiet \in Nat /\ Quiet >= 2  \* QUIET_S is longer than a period or two
    /\ Blocks \subseteq Nat \ {0}
    /\ MaxPushed \in Nat /\ MaxOverruns \in Nat /\ MaxLosses \in Nat

Free  == 0        \* nobody holds the inbox
Engine == -1      \* the engine thread holds it

VARIABLES
    (* SourceBus *)
    inbox,      \* orders not yet drained
    holder,     \* who holds the inbox lock
    next_id,
    phase,      \* where the owner of each id stands
    (* the rings *)
    fill,       \* available_frames
    recording,  \* what a push has done and not yet counted
    pushed,     \* Counters of each ring, as the producer publishes them
    (* Mixer *)
    sources,    \* ids of the sources
    live, quiet, seen,
    reported,
    stats,      \* the ledger the editor reads
    (* the engine thread, and one pull() *)
    primed,     \* the worker has primed and pulls; otherwise it only syncs
    losses,     \* times the device was lost
    pc, pulling, todo, at, busiest, mixed, starved,
    limit,      \* MixReport.limit, until the engine thread goes on
    (* history *)
    silent      \* pulls that visited the source since a push was last counted

busVars    == <<inbox, holder, next_id, phase>>
ringVars   == <<fill, recording, pushed>>
sourceVars == <<sources, live, quiet, seen>>
ledgerVars == <<reported, stats, limit>>
pullVars   == <<pc, pulling, todo, at, busiest, mixed, starved>>
workerVars == <<primed, losses>>
vars == <<busVars, ringVars, sourceVars, ledgerVars, pullVars, workerVars, silent>>

AtLeast(a, b) == IF a >= b THEN a ELSE b
AtMost(a, b)  == IF a <= b THEN a ELSE b

Counters == [frames_pushed : Nat, overrun_events : Nat]
NoCounts == [frames_pushed |-> 0, overrun_events |-> 0]

(* Counters::since saturates field by field; Counters::peak takes the      *)
(* larger of each field.                                                   *)
Since(now, earlier) ==
    [frames_pushed  |-> AtLeast(now.frames_pushed - earlier.frames_pushed, 0),
     overrun_events |-> AtLeast(now.overrun_events - earlier.overrun_events, 0)]
Peak(a, b) ==
    [frames_pushed  |-> AtLeast(a.frames_pushed, b.frames_pushed),
     overrun_events |-> AtLeast(a.overrun_events, b.overrun_events)]
Plus(a, b) ==
    [frames_pushed  |-> a.frames_pushed + b.frames_pushed,
     overrun_events |-> a.overrun_events + b.overrun_events]

Join(id)  == [kind |-> "join",  id |-> id]
Leave(id) == [kind |-> "leave", id |-> id]
Queued(order) == \E i \in 1 .. Len(inbox) : inbox[i] = order

Init ==
    /\ inbox = <<>> /\ holder = Free /\ next_id = 0
    /\ phase = [id \in Ids |-> "none"]
    /\ fill = [id \in Ids |-> 0] /\ pushed = [id \in Ids |-> NoCounts]
    /\ recording = [id \in Ids |-> NoCounts]
    /\ sources = {}
    /\ live = [id \in Ids |-> FALSE]
    /\ quiet = [id \in Ids |-> 0]
    /\ seen = [id \in Ids |-> NoCounts]
    /\ reported = NoCounts /\ stats = NoCounts /\ limit = "none"
    /\ primed = FALSE /\ losses = 0
    /\ pc = "idle" /\ pulling = FALSE /\ todo = {} /\ at = 0
    /\ busiest = NoCounts /\ mixed = 0 /\ starved = 0
    /\ silent = [id \in Ids |-> 0]

-----------------------------------------------------------------------------
(* SourceBus::join and SourceBus::leave.  The id is taken before the lock, *)
(* so two joins may post in the other order than their ids.                *)

JoinStart ==
    /\ next_id < MaxId
    /\ next_id' = next_id + 1
    /\ phase' = [phase EXCEPT ![next_id + 1] = "joining"]
    /\ UNCHANGED <<inbox, holder, ringVars, sourceVars,
                   ledgerVars, pullVars, workerVars, silent>>

LeaveStart(id) ==
    /\ phase[id] = "member"
    /\ phase' = [phase EXCEPT ![id] = "leaving"]
    /\ UNCHANGED <<inbox, holder, next_id, ringVars,
                   sourceVars, ledgerVars, pullVars, workerVars, silent>>

Lock(id) ==
    /\ phase[id] \in {"joining", "leaving"}
    /\ holder = Free
    /\ holder' = id
    /\ UNCHANGED <<inbox, next_id, phase, ringVars,
                   sourceVars, ledgerVars, pullVars, workerVars, silent>>

Post(id) ==
    /\ holder = id
    /\ holder' = Free
    /\ \/ /\ phase[id] = "joining"
          /\ inbox' = Append(inbox, Join(id))
          /\ phase' = [phase EXCEPT ![id] = "member"]
       \/ /\ phase[id] = "leaving"
          /\ inbox' = Append(inbox, Leave(id))
          /\ phase' = [phase EXCEPT ![id] = "gone"]
    /\ UNCHANGED <<next_id, ringVars, sourceVars,
                   ledgerVars, pullVars, workerVars, silent>>

(* The audio callback pushes a block: the frames are in the ring first and *)
(* counted after (RingProducer::push).  The producer is installed once join*)
(* has returned, and may still be in use while and just after leave runs;  *)
(* a ring whose consumer is gone is of no interest.                        *)
Push(id, frames) ==
    /\ phase[id] \in {"member", "leaving", "gone"}
    /\ id \in sources \/ Queued(Join(id))
    /\ recording[id] = NoCounts
    /\ pushed[id].frames_pushed < MaxPushed
    /\ pushed[id].overrun_events < MaxOverruns
    /\ LET written == AtMost(frames, Capacity - fill[id]) IN
       /\ fill' = [fill EXCEPT ![id] = @ + written]
       /\ recording' = [recording EXCEPT ![id] =
              [frames_pushed  |-> written,
               overrun_events |-> IF written < frames THEN 1 ELSE 0]]
    /\ UNCHANGED <<busVars, pushed, sourceVars, ledgerVars, pullVars, workerVars,
                   silent>>

record_push(id) ==
    /\ recording[id] # NoCounts
    /\ pushed' = [pushed EXCEPT ![id] = Plus(@, recording[id])]
    /\ recording' = [recording EXCEPT ![id] = NoCounts]
    /\ silent' = IF recording[id].frames_pushed > 0 THEN [silent EXCEPT ![id] = 0]
                                                    ELSE silent
    /\ UNCHANGED <<busVars, fill, sourceVars, ledgerVars, pullVars, workerVars>>

-----------------------------------------------------------------------------
(* Mixer::sync, alone (while the engine primes) or at the head of a pull:  *)
(* try_lock gives up when the inbox is held; otherwise the orders are      *)
(* drained under the lock, oldest first.                                   *)

SyncBegin(p) ==
    /\ pc = "idle" /\ p = primed
    /\ pulling' = p /\ limit' = "none"
    /\ IF holder = Free
       THEN holder' = Engine /\ pc' = "drain"
       ELSE holder' = holder /\ pc' = IF p THEN "start" ELSE "idle"
    /\ UNCHANGED <<inbox, next_id, phase, ringVars,
                   sourceVars, reported, stats, todo, at, busiest, mixed, starved,
                   workerVars, silent>>

Popped(order) ==
    /\ pc = "drain" /\ inbox # <<>>
    /\ Head(inbox) = order
    /\ inbox' = Tail(inbox)
    /\ UNCHANGED <<holder, next_id, phase, ringVars, stats, limit, pullVars,
                   workerVars>>

DrainJoin(id) ==
    /\ Popped(Join(id)) /\ id \notin Foreign
    /\ sources' = sources \cup {id}
    /\ live' = [live EXCEPT ![id] = FALSE]
    /\ quiet' = [quiet EXCEPT ![id] = 0]
    /\ seen' = [seen EXCEPT ![id] = pushed[id]]
    /\ reported' = Peak(reported, pushed[id])
    /\ silent' = [silent EXCEPT ![id] = 0]

DrainForeign(id) ==
    /\ Popped(Join(id)) /\ id \in Foreign
    /\ UNCHANGED <<sourceVars, reported, silent>>

DrainLeaveIgnored(id) ==        \* a slip: the order is taken and forgotten
    /\ Popped(Leave(id))
    /\ UNCHANGED <<sourceVars, reported, silent>>

DrainLeave(id) ==
    /\ Popped(Leave(id))
    /\ sources' = sources \ {id}
    /\ UNCHANGED <<live, quiet, seen, reported, silent>>

DrainEnd ==
    /\ pc = "drain" /\ inbox = <<>>
    /\ holder' = Free
    /\ pc' = IF pulling THEN "start" ELSE "idle"
    /\ UNCHANGED <<inbox, next_id, phase, ringVars, sourceVars,
                   ledgerVars, pulling, todo, at, busiest, mixed, starved,
                   workerVars, silent>>

(* Mixer::trim, between priming, which may end at any time, and the first  *)
(* pull; and a device lost after a pull, to be primed for again.           *)
Trim ==
    /\ pc = "idle" /\ ~primed
    /\ fill' = [id \in Ids |-> IF id \in sources THEN AtMost(fill[id], Target)
                                                 ELSE fill[id]]
    /\ primed' = TRUE
    /\ UNCHANGED <<busVars, recording, pushed, sourceVars, ledgerVars, pullVars,
                   losses, silent>>

Reprime ==
    /\ pc = "idle" /\ primed /\ losses < MaxLosses
    /\ primed' = FALSE /\ losses' = losses + 1
    /\ UNCHANGED <<busVars, ringVars, sourceVars, ledgerVars, pullVars, silent>>

-----------------------------------------------------------------------------
(* Mixer::pull.  Each source is visited in two steps: its counters are     *)
(* read, then its ring; a push may come between the two.                   *)

PullStart ==
    /\ pc = "start"
    /\ todo' = sources
    /\ pc' = "count" /\ pulling' = FALSE
    /\ UNCHANGED <<busVars, ringVars, sourceVars, ledgerVars, at, busiest, mixed,
                   starved, workerVars, silent>>

(* One pull more without a push; past Quiet the code only compares.        *)
Quieter(q) == AtMost(q + 1, Quiet)

Count(id) ==
    /\ pc = "count" /\ id \in todo
    /\ LET now == pushed[id] IN
       /\ quiet' = [quiet EXCEPT ![id] =
              IF Since(now, seen[id]).frames_pushed > 0 THEN 0 ELSE Quieter(@)]
       /\ seen' = [seen EXCEPT ![id] = now]
       /\ busiest' = Peak(busiest, now)
    /\ silent' = [silent EXCEPT ![id] = Quieter(@)]
    /\ todo' = todo \ {id} /\ at' = id
    /\ pc' = "mix"
    /\ UNCHANGED <<busVars, ringVars, sources, live, ledgerVars, pulling,
                   mixed, starved, workerVars>>

(* A source out of the mix enters once its ring holds a target, unless it  *)
(* has gone quiet.                                                         *)
EntersPastTarget(id) == live[id] \/ (quiet[id] < Quiet /\ fill[id] > Target)
Enters(id) == live[id] \/ (quiet[id] < Quiet /\ fill[id] >= Target)

Skip ==
    /\ pc = "mix" /\ ~Enters(at)
    /\ pc' = "count"
    /\ UNCHANGED <<busVars, ringVars, sourceVars, ledgerVars, pulling, todo,
                   at, busiest, mixed, starved, workerVars, silent>>

MixDropsTheShort ==             \* a slip: one short pull is enough
    /\ pc = "mix" /\ Enters(at)
    /\ LET taken == AtMost(Span, fill[at])
           short == taken < Span
       IN  /\ fill' = [fill EXCEPT ![at] = @ - taken]
           /\ starved' = IF short THEN starved + 1 ELSE starved
           /\ live' = [live EXCEPT ![at] = ~short]
    /\ mixed' = mixed + 1
    /\ pc' = "count"
    /\ UNCHANGED <<busVars, recording, pushed, sources, quiet, seen, ledgerVars, pulling,
                   todo, at, busiest, workerVars, silent>>

Mix ==
    /\ pc = "mix" /\ Enters(at)
    /\ LET taken == AtMost(Span, fill[at])
           short == taken < Span        \* PullOutcome::Underrun
       IN  /\ fill' = [fill EXCEPT ![at] = @ - taken]
           /\ starved' = IF short THEN starved + 1 ELSE starved
           /\ live' = [live EXCEPT ![at] = ~(short /\ quiet[at] >= Quiet)]
    /\ mixed' = mixed + 1
    /\ pc' = "count"
    /\ UNCHANGED <<busVars, recording, pushed, sources, quiet, seen, ledgerVars, pulling,
                   todo, at, busiest, workerVars, silent>>

(* The ledger grows by how far the busiest source is past what was already *)
(* reported.  frames_pulled and underrun_events of a pull follow from mixed*)
(* and limit and are not summed here.                                      *)
FinishForgetsReported ==        \* a slip: every pull is counted in full
    /\ pc = "count" /\ todo = {}
    /\ stats' = Plus(stats, busiest)
    /\ limit' = "Free"
    /\ reported' = Peak(reported, busiest)
    /\ pc' = "idle" /\ at' = 0
    /\ busiest' = NoCounts /\ mixed' = 0 /\ starved' = 0
    /\ UNCHANGED <<inbox, holder, next_id, phase, ringVars, sourceVars,
                   pulling, todo, workerVars, silent>>

Finish ==
    /\ pc = "count" /\ todo = {}
    /\ LET ledger == Since(busiest, reported) IN
       /\ stats' = Plus(stats, ledger)
       /\ limit' = IF mixed = 0 THEN "Dry"
                   ELSE IF ledger.overrun_events > 0 THEN "Full"
                   ELSE IF starved = mixed THEN "Empty" ELSE "Free"
    /\ reported' = Peak(reported, busiest)
    /\ pc' = "idle" /\ at' = 0     \* and the locals of the call are gone
    /\ busiest' = NoCounts /\ mixed' = 0 /\ starved' = 0
    /\ UNCHANGED <<inbox, holder, next_id, phase, ringVars, sourceVars,
                   pulling, todo, workerVars, silent>>

-----------------------------------------------------------------------------
Drain == \/ \E id \in Ids : DrainJoin(id) \/ DrainForeign(id) \/ DrainLeave(id)
         \/ DrainEnd
Visit == PullStart \/ Skip \/ Mix \/ Finish \/ \E id \in Ids : Count(id)
Owner(id) == LeaveStart(id) \/ Lock(id) \/ Post(id)

Next == \/ JoinStart
        \/ \E id \in Ids : Owner(id)
        \/ \E id \in Ids, frames \in Blocks : Push(id, frames)
        \/ \E id \in Ids : record_push(id)
        \/ \E p \in BOOLEAN : SyncBegin(p)
        \/ Drain \/ Visit \/ Trim \/ Reprime

(* A thread inside join or leave gets the lock in the end, since the engine*)
(* holds it for an instant in each period, and gets on with it; the engine *)
(* thread finishes its call and pulls again and again (priming has a       *)
(* deadline); a push returns.  Nothing says that hosts push, or that       *)
(* anybody leaves.                                                         *)
Fairness ==
    /\ \A id \in Ids : WF_vars(Post(id)) /\ SF_vars(Lock(id)) /\ WF_vars(record_push(id))
    /\ SF_vars(SyncBegin(TRUE)) /\ SF_vars(Trim)
    /\ WF_vars(Drain) /\ WF_vars(Visit)

Spec     == Init /\ [][Next]_vars
FairSpec == Spec /\ Fairness

-----------------------------------------------------------------------------
TypeOK ==
    /\ inbox \in Seq([kind : {"join", "leave"}, id : Ids])
    /\ holder \in Ids \cup {Free, Engine}
    /\ next_id \in 0 .. MaxId
    /\ phase \in [Ids -> {"none", "joining", "member", "leaving", "gone"}]
    /\ fill \in [Ids -> 0 .. Capacity] /\ pushed \in [Ids -> Counters]
    /\ recording \in [Ids -> Counters] /\ primed \in BOOLEAN /\ losses \in Nat
    /\ sources \subseteq Ids
    /\ live \in [Ids -> BOOLEAN] /\ quiet \in [Ids -> 0 .. Quiet]
    /\ seen \in [Ids -> Counters]
    /\ reported \in Counters /\ stats \in Counters
    /\ limit \in {"none", "Dry", "Full", "Empty", "Free"}
    /\ pc \in {"idle", "drain", "start", "count", "mix"} /\ pulling \in BOOLEAN
    /\ todo \subseteq Ids /\ at \in Ids \cup {0} /\ (pc = "mix" => at \in Ids)
    /\ busiest \in Counters /\ mixed \in Nat /\ starved \in Nat
    /\ silent \in [Ids -> 0 .. Quiet]

(* The ledger counts the bridge once, not once per track: however pushes,  *)
(* joins, leaves and pulls interleave, what it claims was pushed or        *)
(* overrun is never more than what one single track did.                   *)
LedgerCountsOnce ==
    /\ \/ stats.frames_pushed = 0
       \/ \E id \in Ids : stats.frames_pushed <= pushed[id].frames_pushed
    /\ \/ stats.overrun_events = 0
       \/ \E id \in Ids : stats.overrun_events <= pushed[id].overrun_events

(* No order is lost or applied twice, skipped locks included: a member is  *)
(* either still queued or mixed, never both; who has left is mixed only    *)
(* until the engine reaches the Leave; and nobody else is mixed.           *)
OrdersTakeEffectOnce ==
    \A id \in Ids :
       /\ ~(Queued(Join(id)) /\ id \in sources)
       /\ phase[id] \in {"member", "leaving"} /\ id \notin Foreign =>
             Queued(Join(id)) \/ id \in sources
       /\ phase[id] = "gone" /\ (Queued(Join(id)) \/ id \in sources) =>
             Queued(Leave(id))
       /\ phase[id] \in {"none", "joining"} =>
             ~Queued(Join(id)) /\ ~Queued(Leave(id)) /\ id \notin sources

(* Between two pulls, a source that holds a full target and is not in the  *)
(* mix will be let in by the next one: either its push has not been        *)
(* counted yet, or it is not about to be found quiet.  A track with audio  *)
(* to play is never stranded outside the mix.                              *)
NeverStranded ==
    pc = "idle" =>
       \A id \in sources : ~live[id] /\ fill[id] >= Target =>
          \/ pushed[id].frames_pushed > seen[id].frames_pushed
          \/ recording[id].frames_pushed > 0
          \/ quiet[id] + 1 < Quiet

(* A source is put out of the mix only by running short after Quiet pulls  *)
(* that found no push counted since the one before, unless one is counted  *)
(* in the midst of this very pull; a track that only stutters stays in.    *)
OnlyTheQuietAreDropped ==
    [][\A id \in sources : live[id] /\ ~live'[id] =>
          /\ silent[id] >= Quiet \/ pushed[id] # seen[id]
          /\ fill[id] < Span]_vars

(* A track that has left is taken out of the mix, and one whose ring holds *)
(* a target is mixed unless it leaves first.                               *)
LeavingEnds == \A id \in Ids : phase[id] = "gone" ~> id \notin sources
Heard ==
    \A id \in Ids \ Foreign :
       phase[id] = "member" /\ fill[id] >= Target ~> live[id] \/ phase[id] # "member"
=============================================================================
