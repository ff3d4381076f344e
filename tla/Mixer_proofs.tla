----------------------------- MODULE Mixer_proofs -----------------------------
(***************************************************************************)
(* What Mixer.tla promises for any number of tracks, any ring and any      *)
(* block sizes.                                                            *)
(***************************************************************************)
EXTENDS Mixer, TLAPS

Order == [kind : {"join", "leave"}, id : Ids]

(* The arithmetic of Counters.                                             *)
LEMMA CountersClosed ==
    ASSUME NEW a \in Counters, NEW b \in Counters
    PROVE  Since(a, b) \in Counters /\ Peak(a, b) \in Counters /\ Plus(a, b) \in Counters
BY DEF Counters, Since, Peak, Plus, AtLeast

LEMMA NoCountsType == NoCounts \in Counters
BY DEF NoCounts, Counters

(* What a step does to a queue.                                            *)
LEMMA Appended ==
    ASSUME NEW S, NEW q \in Seq(S), NEW e \in S
    PROVE  /\ Append(q, e) \in Seq(S) /\ Len(Append(q, e)) = Len(q) + 1
           /\ Len(q) \in Nat
           /\ \A i \in 1 .. Len(q) : Append(q, e)[i] = q[i]
           /\ Append(q, e)[Len(q) + 1] = e
OBVIOUS

LEMMA TailOf ==
    ASSUME NEW S, NEW q \in Seq(S), q # <<>>
    PROVE  /\ Tail(q) \in Seq(S) /\ Len(q) \in Nat \ {0}
           /\ Len(Tail(q)) = Len(q) - 1
           /\ Head(q) = q[1] /\ Head(q) \in S
           /\ \A i \in 1 .. Len(q) - 1 : Tail(q)[i] = q[i + 1]
OBVIOUS

LEMMA TailOfInbox ==
    ASSUME TypeOK, NEW order, Popped(order)
    PROVE  /\ inbox' \in Seq(Order) /\ Len(inbox) \in Nat \ {0}
           /\ Len(inbox') = Len(inbox) - 1
           /\ inbox[1] = order
           /\ \A i \in 1 .. Len(inbox) - 1 : inbox'[i] = inbox[i + 1]
<1>1. inbox \in Seq(Order) /\ inbox # <<>> /\ inbox' = Tail(inbox) /\ Head(inbox) = order
  BY DEF TypeOK, Order, Popped
<1>2. QED
  BY <1>1, TailOf

-----------------------------------------------------------------------------
LEMMA TypeInit == Init => TypeOK
<1> SUFFICES ASSUME Init PROVE TypeOK
  OBVIOUS
<1>1. primed \in BOOLEAN /\ pulling \in BOOLEAN /\ live \in [Ids -> BOOLEAN]
  BY DEF Init
<1>2. QED
  BY <1>1, NoCountsType, MixerAssumption DEF Init, TypeOK, Free, Engine, Ids

(* Every step keeps the types.                                             *)
LEMMA TypeStep == TypeOK /\ [Next]_vars => TypeOK'
<1> SUFFICES ASSUME TypeOK, [Next]_vars PROVE TypeOK'
  OBVIOUS
<1> USE MixerAssumption
    DEF TypeOK, Free, Engine, vars, busVars, ringVars, sourceVars, ledgerVars,
        pullVars, workerVars
<1>1. CASE JoinStart
  <2>1. next_id + 1 \in Ids /\ next_id' \in 0 .. MaxId
    BY <1>1 DEF JoinStart, Ids
  <2>2. phase' \in [Ids -> {"none", "joining", "member", "leaving", "gone"}]
    BY <1>1, <2>1 DEF JoinStart
  <2>3. QED
    BY <1>1, <2>1, <2>2 DEF JoinStart
<1>2. ASSUME NEW id \in Ids, LeaveStart(id) PROVE TypeOK'
  BY <1>2 DEF LeaveStart
<1>3. ASSUME NEW id \in Ids, Lock(id) PROVE TypeOK'
  BY <1>3 DEF Lock
<1>4. ASSUME NEW id \in Ids, Post(id) PROVE TypeOK'
  <2>1. Join(id) \in Order /\ Leave(id) \in Order
    BY DEF Join, Leave, Order
  <2>2. inbox' \in Seq(Order)
    <3>1. inbox \in Seq(Order)
      BY DEF Order
    <3>2. inbox' = Append(inbox, Join(id)) \/ inbox' = Append(inbox, Leave(id))
      BY <1>4 DEF Post
    <3>3. QED
      BY ONLY <2>1, <3>1, <3>2, Appended
  <2>3. phase' \in [Ids -> {"none", "joining", "member", "leaving", "gone"}]
    BY <1>4 DEF Post
  <2>4. QED
    BY <1>4, <2>2, <2>3 DEF Post, Order
<1>5. ASSUME NEW id \in Ids, NEW frames \in Blocks, Push(id, frames) PROVE TypeOK'
  <2> DEFINE written == AtMost(frames, Capacity - fill[id])
  <2>1. written \in Nat /\ fill[id] + written \in 0 .. Capacity
    <3>1. frames \in Nat /\ Capacity \in Nat /\ fill[id] \in 0 .. Capacity
      OBVIOUS
    <3>2. QED
      BY ONLY <3>1 DEF AtMost
  <2>2. fill' \in [Ids -> 0 .. Capacity]
    BY <1>5, <2>1 DEF Push
  <2>3. recording' \in [Ids -> Counters]
    <3>1. [frames_pushed |-> written,
           overrun_events |-> IF written < frames THEN 1 ELSE 0] \in Counters
      BY <2>1 DEF Counters
    <3>2. QED
      BY <1>5, <3>1 DEF Push
  <2>4. QED
    BY <1>5, <2>2, <2>3 DEF Push
<1>6. ASSUME NEW id \in Ids, record_push(id) PROVE TypeOK'
  BY <1>6, CountersClosed, NoCountsType DEF record_push
<1>7. ASSUME NEW p \in BOOLEAN, SyncBegin(p) PROVE TypeOK'
  BY <1>7 DEF SyncBegin
<1>8. ASSUME NEW id \in Ids, DrainJoin(id) PROVE TypeOK'
  <2>1. inbox' \in Seq(Order)
    BY <1>8, TailOfInbox DEF DrainJoin
  <2>2. seen' \in [Ids -> Counters] /\ reported' \in Counters
    BY <1>8, CountersClosed DEF DrainJoin
  <2>3. sources' \subseteq Ids /\ live' \in [Ids -> BOOLEAN]
    BY <1>8 DEF DrainJoin
  <2>4. quiet' \in [Ids -> 0 .. Quiet] /\ silent' \in [Ids -> 0 .. Quiet]
    BY <1>8 DEF DrainJoin
  <2>5. QED
    BY <1>8, <2>1, <2>2, <2>3, <2>4 DEF DrainJoin, Popped, Order
<1>9. ASSUME NEW id \in Ids, DrainForeign(id) \/ DrainLeave(id) PROVE TypeOK'
  <2>1. inbox' \in Seq(Order)
    BY <1>9, TailOfInbox DEF DrainForeign, DrainLeave
  <2>2. QED
    BY <1>9, <2>1 DEF DrainForeign, DrainLeave, Popped, Order
<1>10. CASE DrainEnd
  BY <1>10 DEF DrainEnd
<1>11. CASE Trim
  BY <1>11 DEF Trim, AtMost
<1>12. CASE Reprime
  <2>1. primed' \in BOOLEAN
    BY <1>12 DEF Reprime
  <2>2. QED
    BY <1>12, <2>1 DEF Reprime
<1>13. CASE PullStart
  BY <1>13 DEF PullStart
<1>14. ASSUME NEW id \in Ids, Count(id) PROVE TypeOK'
  BY <1>14, CountersClosed DEF Count, Quieter, AtMost
<1>15. CASE Skip
  BY <1>15 DEF Skip
<1>16. CASE Mix
  <2>2. live' \in [Ids -> BOOLEAN]
    BY <1>16 DEF Mix
  <2>3. fill' \in [Ids -> 0 .. Capacity]
    <3> DEFINE taken == AtMost(Span, fill[at])
    <3>1. fill[at] \in 0 .. Capacity /\ Span \in Nat /\ Capacity \in Nat
      BY <1>16 DEF Mix
    <3>2. fill[at] - taken \in 0 .. Capacity
      BY ONLY <3>1 DEF AtMost
    <3>3. fill' = [fill EXCEPT ![at] = @ - taken]
      BY <1>16 DEF Mix
    <3>4. QED
      BY <3>2, <3>3
  <2>4. starved' \in Nat /\ mixed' \in Nat
    BY <1>16 DEF Mix
  <2>5. QED
    BY <1>16, <2>2, <2>3, <2>4 DEF Mix
<1>17. CASE Finish
  BY <1>17, CountersClosed, NoCountsType DEF Finish
<1>18. CASE UNCHANGED vars
  BY <1>18
<1>19. QED
  BY <1>1, <1>2, <1>3, <1>4, <1>5, <1>6, <1>7, <1>8, <1>9, <1>10, <1>11, <1>12,
     <1>13, <1>14, <1>15, <1>16, <1>17, <1>18 DEF Next, Owner, Drain, Visit

(* Type correctness.                                                       *)
THEOREM TypeCorrect == Spec => []TypeOK
BY TypeInit, TypeStep, PTL DEF Spec

-----------------------------------------------------------------------------
(* A count that no more than one track has reached: LedgerCountsOnce says  *)
(* it of what was reported to the editor, and holds because it is true of  *)
(* the highest count seen so far and of the one this pull has seen.        *)
Reached(v) ==
    /\ v.frames_pushed = 0 \/ \E id \in Ids : v.frames_pushed <= pushed[id].frames_pushed
    /\ v.overrun_events = 0 \/ \E id \in Ids : v.overrun_events <= pushed[id].overrun_events

LedgerInv ==
    /\ Reached(reported) /\ Reached(busiest)
    /\ stats.frames_pushed <= reported.frames_pushed
    /\ stats.overrun_events <= reported.overrun_events

(* The inbox: an order is posted once, a leave after its join, and by who  *)
(* has an id.                                                              *)
InboxInv ==
    /\ \A i, j \in 1 .. Len(inbox) : inbox[i] = inbox[j] => i = j
    /\ \A i, j \in 1 .. Len(inbox), id \in Ids :
          inbox[i] = Leave(id) /\ inbox[j] = Join(id) => j < i
    /\ \A id \in Ids : Queued(Join(id)) => phase[id] \in {"member", "leaving", "gone"}
    /\ \A id \in Ids : Queued(Leave(id)) => phase[id] = "gone"
    /\ \A id \in sources : phase[id] \in {"member", "leaving", "gone"}
    /\ \A id \in Ids : id > next_id => phase[id] = "none"

OrdersInv == InboxInv /\ OrdersTakeEffectOnce

-----------------------------------------------------------------------------
LEMMA ReachedPeak ==
    ASSUME NEW a \in Counters, NEW b \in Counters, Reached(a), Reached(b)
    PROVE  Reached(Peak(a, b))
<1>1. Peak(a, b).frames_pushed \in {a.frames_pushed, b.frames_pushed}
  BY DEF Peak, AtLeast
<1>2. Peak(a, b).overrun_events \in {a.overrun_events, b.overrun_events}
  BY DEF Peak, AtLeast
<1>3. QED
  BY <1>1, <1>2 DEF Reached

LEMMA ReachedNow ==
    ASSUME TypeOK, NEW id \in Ids
    PROVE  Reached(pushed[id])
<1>1. pushed[id].frames_pushed \in Nat /\ pushed[id].overrun_events \in Nat
  BY DEF TypeOK, Counters
<1>2. QED
  BY <1>1 DEF Reached

(* What has been reached stays reached: counts never go down.              *)
LEMMA ReachedStays ==
    ASSUME TypeOK, TypeOK', NEW v \in Counters, Reached(v),
           \A id \in Ids : /\ pushed[id].frames_pushed <= pushed'[id].frames_pushed
                           /\ pushed[id].overrun_events <= pushed'[id].overrun_events
    PROVE  Reached(v)'
<1>1. /\ v.frames_pushed \in Nat /\ v.overrun_events \in Nat
      /\ \A id \in Ids : /\ pushed[id].frames_pushed \in Nat
                         /\ pushed[id].overrun_events \in Nat
                         /\ pushed'[id].frames_pushed \in Nat
                         /\ pushed'[id].overrun_events \in Nat
  BY DEF TypeOK, Counters
<1>2. QED
  BY <1>1 DEF Reached

LEMMA LedgerInit == Init => LedgerInv
BY DEF Init, LedgerInv, Reached, NoCounts

LEMMA LedgerStep == TypeOK /\ LedgerInv /\ [Next]_vars => LedgerInv'
<1> SUFFICES ASSUME TypeOK, LedgerInv, [Next]_vars PROVE LedgerInv'
  OBVIOUS
<1>1. TypeOK'
  BY TypeStep
<1>2. reported \in Counters /\ busiest \in Counters /\ stats \in Counters
  BY DEF TypeOK
<1>3. ASSUME UNCHANGED <<pushed, busiest, reported, stats>> PROVE LedgerInv'
  BY <1>3 DEF LedgerInv, Reached
<1>4. ASSUME NEW id \in Ids, record_push(id) PROVE LedgerInv'
  <2>1. \A i \in Ids : /\ pushed[i].frames_pushed <= pushed'[i].frames_pushed
                       /\ pushed[i].overrun_events <= pushed'[i].overrun_events
    <3>1. \A i \in Ids : pushed'[i] = IF i = id THEN Plus(pushed[id], recording[id])
                                             ELSE pushed[i]
      BY <1>4 DEF record_push, TypeOK
    <3>2. recording[id] \in Counters /\ \A i \in Ids : pushed[i] \in Counters
      BY DEF TypeOK
    <3>3. QED
      BY <3>1, <3>2 DEF Plus, Counters
  <2>2. Reached(reported)' /\ Reached(busiest)'
    <3>1. UNCHANGED <<reported, busiest>>
      BY <1>4 DEF record_push, ledgerVars, pullVars
    <3>2. QED
      BY <1>1, <1>2, <2>1, <3>1, ReachedStays DEF LedgerInv, Reached
  <2>3. QED
    BY <1>4, <2>2 DEF record_push, ledgerVars, LedgerInv
<1>5. ASSUME NEW id \in Ids, DrainJoin(id) PROVE LedgerInv'
  <2>1. pushed[id] \in Counters
    BY DEF TypeOK
  <2>2. Reached(Peak(reported, pushed[id]))
    BY <1>2, <2>1, ReachedPeak, ReachedNow DEF LedgerInv
  <2>3. /\ reported.frames_pushed <= Peak(reported, pushed[id]).frames_pushed
        /\ reported.overrun_events <= Peak(reported, pushed[id]).overrun_events
    BY <1>2, <2>1 DEF Peak, AtLeast, Counters
  <2>4. reported' = Peak(reported, pushed[id]) /\ UNCHANGED <<pushed, busiest, stats>>
    BY <1>5 DEF DrainJoin, Popped, ringVars, pullVars
  <2>5. reported' \in Counters
    BY <1>1 DEF TypeOK
  <2>6. QED
    BY <1>2, <2>2, <2>3, <2>4, <2>5 DEF LedgerInv, Reached, Counters
<1>6. ASSUME NEW id \in Ids, Count(id) PROVE LedgerInv'
  <2>1. pushed[id] \in Counters
    BY DEF TypeOK
  <2>2. Reached(Peak(busiest, pushed[id]))
    BY <1>2, <2>1, ReachedPeak, ReachedNow DEF LedgerInv
  <2>3. busiest' = Peak(busiest, pushed[id]) /\ UNCHANGED <<pushed, reported, stats>>
    BY <1>6 DEF Count, ringVars, ledgerVars
  <2>4. QED
    BY <2>2, <2>3 DEF LedgerInv, Reached
<1>7. CASE Finish
  <2>1. Reached(Peak(reported, busiest))
    BY <1>2, ReachedPeak DEF LedgerInv
  <2>2. /\ stats.frames_pushed + Since(busiest, reported).frames_pushed
              <= Peak(reported, busiest).frames_pushed
        /\ stats.overrun_events + Since(busiest, reported).overrun_events
              <= Peak(reported, busiest).overrun_events
    BY <1>2 DEF LedgerInv, Since, Peak, AtLeast, Counters
  <2>3. /\ reported' = Peak(reported, busiest) /\ busiest' = NoCounts
        /\ stats' = Plus(stats, Since(busiest, reported))
        /\ UNCHANGED pushed
    BY <1>7 DEF Finish, ringVars
  <2>4. /\ stats'.frames_pushed <= reported'.frames_pushed
        /\ stats'.overrun_events <= reported'.overrun_events
    BY <2>2, <2>3 DEF Plus
  <2>5. Reached(reported)' /\ Reached(busiest)'
    BY <2>1, <2>3 DEF Reached, NoCounts
  <2>6. QED
    BY <2>4, <2>5 DEF LedgerInv
<1>8. QED
  <2> USE DEF vars, busVars, ringVars, ledgerVars, pullVars
  <2>1. CASE JoinStart \/ Trim \/ Reprime \/ DrainEnd \/ PullStart \/ Skip \/ Mix
             \/ UNCHANGED vars
    BY <2>1, <1>3 DEF JoinStart, Trim, Reprime, DrainEnd, PullStart, Skip, Mix
  <2>2. CASE \E id \in Ids : Owner(id)
    BY <2>2, <1>3 DEF Owner, LeaveStart, Lock, Post
  <2>3. CASE \E id \in Ids, frames \in Blocks : Push(id, frames)
    BY <2>3, <1>3 DEF Push
  <2>4. CASE \E p \in BOOLEAN : SyncBegin(p)
    BY <2>4, <1>3 DEF SyncBegin
  <2>5. CASE \E id \in Ids : DrainForeign(id) \/ DrainLeave(id)
    BY <2>5, <1>3 DEF DrainForeign, DrainLeave, Popped
  <2>6. QED
    BY <1>4, <1>5, <1>6, <1>7, <2>1, <2>2, <2>3, <2>4, <2>5 DEF Next, Drain, Visit

(* The ledger of the bridge never claims more than one track did.          *)
THEOREM LedgerIsOfOneTrack == Spec => []LedgerCountsOnce
<1>1. TypeOK /\ LedgerInv => LedgerCountsOnce
  <2> SUFFICES ASSUME TypeOK, LedgerInv PROVE LedgerCountsOnce
    OBVIOUS
  <2>1. /\ stats \in Counters /\ reported \in Counters
        /\ \A id \in Ids : pushed[id] \in Counters
    BY DEF TypeOK
  <2>2. QED
    BY <2>1 DEF LedgerInv, Reached, LedgerCountsOnce, Counters
<1>2. Spec => [](TypeOK /\ LedgerInv)
  BY TypeInit, TypeStep, LedgerInit, LedgerStep, PTL DEF Spec
<1>3. QED
  BY <1>1, <1>2, PTL

-----------------------------------------------------------------------------
LEMMA OrdersInit == Init => OrdersInv
<1> SUFFICES ASSUME Init PROVE OrdersInv
  OBVIOUS
<1>1. inbox = <<>> /\ Len(inbox) = 0 /\ sources = {} /\ \A id \in Ids : phase[id] = "none"
  BY DEF Init
<1>2. QED
  BY <1>1 DEF OrdersInv, InboxInv, OrdersTakeEffectOnce, Queued

LEMMA OrdersDiffer ==
    /\ \A a, b \in Ids : Join(a) # Leave(b)
    /\ \A a, b \in Ids : Join(a) = Join(b) <=> a = b
    /\ \A a, b \in Ids : Leave(a) = Leave(b) <=> a = b
BY DEF Join, Leave

(* Posting one more order: the ones that were queued are, and it is.       *)
LEMMA QueuedAfterPost ==
    ASSUME TypeOK, NEW order \in Order, inbox' = Append(inbox, order)
    PROVE  /\ \A o : Queued(o)' <=> Queued(o) \/ o = order
           /\ Len(inbox) \in Nat /\ Len(inbox') = Len(inbox) + 1
           /\ inbox'[Len(inbox')] = order
           /\ \A i \in 1 .. Len(inbox) : inbox'[i] = inbox[i]
<1>1. inbox \in Seq(Order)
  BY DEF TypeOK, Order
<1>2. /\ Len(inbox) \in Nat /\ Len(inbox') = Len(inbox) + 1
      /\ \A i \in 1 .. Len(inbox) : inbox'[i] = inbox[i]
      /\ inbox'[Len(inbox) + 1] = order
  BY <1>1, Appended
<1>3. QED
  BY <1>2 DEF Queued

(* Taking the oldest: it is gone, for it was there once, and the others    *)
(* are still queued.                                                       *)
LEMMA QueuedAfterPop ==
    ASSUME TypeOK, InboxInv, NEW order, Popped(order)
    PROVE  \A o : Queued(o)' <=> Queued(o) /\ o # order
<1>1. /\ Len(inbox) \in Nat \ {0} /\ Len(inbox') = Len(inbox) - 1
      /\ inbox[1] = order
      /\ \A i \in 1 .. Len(inbox) - 1 : inbox'[i] = inbox[i + 1]
  BY TailOfInbox
<1>2. \A i, j \in 1 .. Len(inbox) : inbox[i] = inbox[j] => i = j
  BY DEF InboxInv
<1> TAKE o
<1>3. ASSUME Queued(o)' PROVE Queued(o) /\ o # order
  <2>1. PICK i \in 1 .. Len(inbox') : inbox'[i] = o
    BY <1>3 DEF Queued
  <2>2. i + 1 \in 1 .. Len(inbox) /\ inbox[i + 1] = o
    BY <1>1, <2>1
  <2>3. QED
    BY <1>1, <1>2, <2>2 DEF Queued
<1>4. ASSUME Queued(o), o # order PROVE Queued(o)'
  <2>1. PICK i \in 1 .. Len(inbox) : inbox[i] = o
    BY <1>4 DEF Queued
  <2>2. i - 1 \in 1 .. Len(inbox') /\ inbox'[i - 1] = o
    BY <1>1, <1>4, <2>1
  <2>3. QED
    BY <2>2 DEF Queued
<1>5. QED
  BY <1>3, <1>4

(* A step that neither queues, takes, starts nor ends anything.            *)
LEMMA OrdersUntouched ==
    ASSUME OrdersInv, UNCHANGED <<inbox, sources, phase, next_id>>
    PROVE  OrdersInv'
BY DEF OrdersInv, InboxInv, OrdersTakeEffectOnce, Queued

LEMMA OrdersPosted ==
    ASSUME TypeOK, OrdersInv, NEW id \in Ids, Post(id)
    PROVE  OrdersInv'
<1> USE OrdersDiffer DEF Order
<1>1. UNCHANGED <<sources, next_id>>
  BY DEF Post, sourceVars
<1>2. Join(id) \in Order /\ Leave(id) \in Order
  BY DEF Join, Leave
<1>3. phase \in [Ids -> {"none", "joining", "member", "leaving", "gone"}]
  BY DEF TypeOK
<1>4. CASE phase[id] = "joining"
  <2>1. /\ inbox' = Append(inbox, Join(id))
        /\ phase' = [phase EXCEPT ![id] = "member"]
    BY <1>4 DEF Post
  <2>2. /\ \A o : Queued(o)' <=> Queued(o) \/ o = Join(id)
        /\ Len(inbox) \in Nat /\ Len(inbox') = Len(inbox) + 1
        /\ inbox'[Len(inbox')] = Join(id)
        /\ \A i \in 1 .. Len(inbox) : inbox'[i] = inbox[i]
    BY <1>2, <2>1, QueuedAfterPost
  <2>3. ~Queued(Join(id)) /\ ~Queued(Leave(id)) /\ id \notin sources
    BY <1>4 DEF OrdersInv, OrdersTakeEffectOnce
  <2>4. \A i, j \in 1 .. Len(inbox') : inbox'[i] = inbox'[j] => i = j
    BY <2>2, <2>3 DEF OrdersInv, InboxInv, Queued
  <2>5. \A i, j \in 1 .. Len(inbox'), x \in Ids :
           inbox'[i] = Leave(x) /\ inbox'[j] = Join(x) => j < i
    BY <2>2, <2>3 DEF OrdersInv, InboxInv, Queued
  <2>6. InboxInv'
    BY <1>1, <1>3, <1>4, <2>1, <2>2, <2>4, <2>5 DEF OrdersInv, InboxInv
  <2>7. OrdersTakeEffectOnce'
    BY <1>1, <1>3, <1>4, <2>1, <2>2, <2>3 DEF OrdersInv, OrdersTakeEffectOnce
  <2>8. QED
    BY <2>6, <2>7 DEF OrdersInv
<1>5. CASE phase[id] = "leaving"
  <2>1. /\ inbox' = Append(inbox, Leave(id))
        /\ phase' = [phase EXCEPT ![id] = "gone"]
    BY <1>5 DEF Post
  <2>2. /\ \A o : Queued(o)' <=> Queued(o) \/ o = Leave(id)
        /\ Len(inbox) \in Nat /\ Len(inbox') = Len(inbox) + 1
        /\ inbox'[Len(inbox')] = Leave(id)
        /\ \A i \in 1 .. Len(inbox) : inbox'[i] = inbox[i]
    BY <1>2, <2>1, QueuedAfterPost
  <2>3. ~Queued(Leave(id))
    BY <1>5 DEF OrdersInv, InboxInv
  <2>4. \A i, j \in 1 .. Len(inbox') : inbox'[i] = inbox'[j] => i = j
    BY <2>2, <2>3 DEF OrdersInv, InboxInv, Queued
  <2>5. \A i, j \in 1 .. Len(inbox'), x \in Ids :
           inbox'[i] = Leave(x) /\ inbox'[j] = Join(x) => j < i
    BY <2>2, <2>3 DEF OrdersInv, InboxInv, Queued
  <2>6. InboxInv'
    BY <1>1, <1>3, <1>5, <2>1, <2>2, <2>4, <2>5 DEF OrdersInv, InboxInv
  <2>7. OrdersTakeEffectOnce'
    BY <1>1, <1>3, <1>5, <2>1, <2>2, <2>3 DEF OrdersInv, OrdersTakeEffectOnce
  <2>8. QED
    BY <2>6, <2>7 DEF OrdersInv
<1>6. QED
  BY <1>4, <1>5 DEF Post

(* The first two parts of InboxInv are about the order of the queue, and   *)
(* taking its oldest entry keeps them.                                     *)
LEMMA QueueStaysOrdered ==
    ASSUME TypeOK, InboxInv, NEW order, Popped(order)
    PROVE  /\ \A i, j \in 1 .. Len(inbox') : inbox'[i] = inbox'[j] => i = j
           /\ \A i, j \in 1 .. Len(inbox'), id \in Ids :
                 inbox'[i] = Leave(id) /\ inbox'[j] = Join(id) => j < i
<1>1. /\ Len(inbox) \in Nat \ {0} /\ Len(inbox') = Len(inbox) - 1
      /\ \A i \in 1 .. Len(inbox) - 1 : inbox'[i] = inbox[i + 1]
  BY TailOfInbox
<1>2. \A i \in 1 .. Len(inbox') : i + 1 \in 1 .. Len(inbox) /\ inbox'[i] = inbox[i + 1]
  BY <1>1
<1>3. \A i, j \in 1 .. Len(inbox') : inbox'[i] = inbox'[j] => i = j
  BY <1>1, <1>2 DEF InboxInv
<1>4. \A i, j \in 1 .. Len(inbox'), id \in Ids :
         inbox'[i] = Leave(id) /\ inbox'[j] = Join(id) => j < i
  <2> TAKE i, j \in 1 .. Len(inbox'), id \in Ids
  <2> HAVE inbox'[i] = Leave(id) /\ inbox'[j] = Join(id)
  <2>1. j + 1 < i + 1
    BY <1>2 DEF InboxInv
  <2>2. QED
    BY <1>1, <2>1
<1>5. QED
  BY <1>3, <1>4

LEMMA OrdersDrained ==
    ASSUME TypeOK, OrdersInv, NEW id \in Ids,
           DrainJoin(id) \/ DrainForeign(id) \/ DrainLeave(id)
    PROVE  OrdersInv'
<1> USE OrdersDiffer
<1>1. Popped(Join(id)) \/ Popped(Leave(id))
  BY DEF DrainJoin, DrainForeign, DrainLeave
<1>2. UNCHANGED <<phase, next_id>>
  BY <1>1 DEF Popped
<1>3. InboxInv
  BY DEF OrdersInv
<1>4. CASE DrainJoin(id) \/ DrainForeign(id)
  <2>1. Popped(Join(id))
    BY <1>4 DEF DrainJoin, DrainForeign
  <2>2. \A o : Queued(o)' <=> Queued(o) /\ o # Join(id)
    BY <1>3, <2>1, QueuedAfterPop
  <2>3. Queued(Join(id)) /\ phase[id] \in {"member", "leaving", "gone"}
    BY <1>3, <2>1, TailOfInbox DEF InboxInv, Queued
  <2>4. sources' = IF id \in Foreign THEN sources ELSE sources \cup {id}
    BY <1>4 DEF DrainJoin, DrainForeign, sourceVars
  <2>5. InboxInv'
    BY <1>2, <1>3, <2>1, <2>2, <2>3, <2>4, QueueStaysOrdered DEF InboxInv
  <2>6. OrdersTakeEffectOnce'
    BY <1>2, <2>2, <2>3, <2>4 DEF OrdersInv, OrdersTakeEffectOnce
  <2>7. QED
    BY <2>5, <2>6 DEF OrdersInv
<1>5. CASE DrainLeave(id)
  <2>1. Popped(Leave(id)) /\ sources' = sources \ {id}
    BY <1>5 DEF DrainLeave
  <2>2. \A o : Queued(o)' <=> Queued(o) /\ o # Leave(id)
    BY <1>3, <2>1, QueuedAfterPop
  <2>3. inbox[1] = Leave(id) /\ Len(inbox) \in Nat \ {0}
    BY <2>1, TailOfInbox
  <2>4. ~Queued(Join(id)) /\ phase[id] = "gone"
    BY <1>3, <2>3 DEF InboxInv, Queued
  <2>5. InboxInv'
    BY <1>2, <1>3, <2>1, <2>2, QueueStaysOrdered DEF InboxInv
  <2>6. OrdersTakeEffectOnce'
    BY <1>2, <2>1, <2>2, <2>4 DEF OrdersInv, OrdersTakeEffectOnce
  <2>7. QED
    BY <2>5, <2>6 DEF OrdersInv
<1>6. QED
  BY <1>4, <1>5

LEMMA OrdersStep == TypeOK /\ OrdersInv /\ [Next]_vars => OrdersInv'
<1> SUFFICES ASSUME TypeOK, OrdersInv, [Next]_vars PROVE OrdersInv'
  OBVIOUS
<1>1. phase \in [Ids -> {"none", "joining", "member", "leaving", "gone"}]
  BY DEF TypeOK
<1>2. CASE JoinStart
  <2>1. next_id + 1 \in Ids /\ next_id \in Nat
    BY <1>2, MixerAssumption DEF JoinStart, TypeOK, Ids
  <2>2. phase[next_id + 1] = "none"
    BY <2>1 DEF OrdersInv, InboxInv
  <2>3. /\ UNCHANGED <<inbox, sources>> /\ next_id' = next_id + 1
        /\ phase' = [phase EXCEPT ![next_id + 1] = "joining"]
    BY <1>2 DEF JoinStart, sourceVars
  <2>4. \A id \in Ids : id \in Nat
    BY MixerAssumption DEF Ids
  <2>5. InboxInv'
    BY <1>1, <2>1, <2>2, <2>3, <2>4 DEF OrdersInv, InboxInv, Queued
  <2>6. OrdersTakeEffectOnce'
    BY <1>1, <2>1, <2>2, <2>3 DEF OrdersInv, OrdersTakeEffectOnce, Queued
  <2>7. QED
    BY <2>5, <2>6 DEF OrdersInv
<1>3. ASSUME NEW id \in Ids, LeaveStart(id) PROVE OrdersInv'
  <2>1. /\ UNCHANGED <<inbox, sources, next_id>> /\ phase[id] = "member"
        /\ phase' = [phase EXCEPT ![id] = "leaving"]
    BY <1>3 DEF LeaveStart, sourceVars
  <2>2. QED
    BY <1>1, <2>1 DEF OrdersInv, InboxInv, OrdersTakeEffectOnce, Queued
<1>4. QED
  <2> USE OrdersUntouched DEF vars, busVars, ringVars, sourceVars, ledgerVars, pullVars
  <2>1. CASE \/ Trim \/ Reprime \/ DrainEnd \/ PullStart \/ Skip \/ Mix \/ Finish
             \/ UNCHANGED vars
    BY <2>1 DEF Trim, Reprime, DrainEnd, PullStart, Skip, Mix, Finish
  <2>2. CASE \E id \in Ids : Lock(id) \/ record_push(id) \/ Count(id)
    BY <2>2 DEF Lock, record_push, Count
  <2>3. CASE \E id \in Ids, frames \in Blocks : Push(id, frames)
    BY <2>3 DEF Push
  <2>4. CASE \E p \in BOOLEAN : SyncBegin(p)
    BY <2>4 DEF SyncBegin
  <2>5. QED
    BY <1>2, <1>3, <2>1, <2>2, <2>3, <2>4, OrdersPosted, OrdersDrained
       DEF Next, Owner, Drain, Visit

(* Orders take effect once, in spite of skipped locks and of ids posted    *)
(* out of order.                                                           *)
THEOREM OrdersAreAppliedOnce == Spec => []OrdersTakeEffectOnce
<1>1. Spec => [](TypeOK /\ OrdersInv)
  BY TypeInit, TypeStep, OrdersInit, OrdersStep, PTL DEF Spec
<1>2. OrdersInv => OrdersTakeEffectOnce
  BY DEF OrdersInv
<1>3. QED
  BY <1>1, <1>2, PTL

-----------------------------------------------------------------------------
(* What will let a full source in: a push the mixer has not counted, or    *)
(* that it is not quiet yet, not even at its next visit unless this is it. *)
Expected(id) ==
    \/ pushed[id].frames_pushed > seen[id].frames_pushed
    \/ recording[id].frames_pushed > 0
    \/ quiet[id] + 1 < Quiet
    \/ pc = "mix" /\ at = id /\ quiet[id] < Quiet

StrandAt(id) ==
    /\ seen[id].frames_pushed <= pushed[id].frames_pushed
    /\ id \in sources /\ ~live[id] /\ fill[id] >= Target => Expected(id)

StrandInv == \A id \in Ids : StrandAt(id)

LEMMA StrandInit == Init => StrandInv
BY DEF Init, StrandInv, StrandAt, NoCounts

(* The numbers of a source.                                                *)
LEMMA SourceNumbers ==
    ASSUME TypeOK, NEW i \in Ids
    PROVE  /\ pushed[i].frames_pushed \in Nat /\ seen[i].frames_pushed \in Nat
           /\ recording[i].frames_pushed \in Nat /\ quiet[i] \in 0 .. Quiet
           /\ fill[i] \in 0 .. Capacity /\ live[i] \in BOOLEAN
BY DEF TypeOK, Counters

(* A step that leaves a source, and the visit to it, as they are.          *)
LEMMA StrandUntouched ==
    ASSUME NEW i \in Ids, StrandAt(i),
           UNCHANGED <<seen[i], pushed[i], recording[i], quiet[i], live[i], fill[i]>>,
           i \in sources' => i \in sources,
           pc = "mix" => at # i \/ UNCHANGED <<pc, at>>
    PROVE  StrandAt(i)'
BY DEF StrandAt, Expected

LEMMA StrandStep == TypeOK /\ StrandInv /\ [Next]_vars => StrandInv'
<1> SUFFICES ASSUME TypeOK, StrandInv, [Next]_vars, NEW i \in Ids PROVE StrandAt(i)'
  BY DEF StrandInv
<1> DEFINE Same == UNCHANGED <<seen[i], pushed[i], recording[i], quiet[i], live[i], fill[i]>>
<1>1. StrandAt(i) /\ TypeOK'
  BY TypeStep DEF StrandInv
<1>2. /\ pushed[i].frames_pushed \in Nat /\ seen[i].frames_pushed \in Nat
      /\ recording[i].frames_pushed \in Nat /\ quiet[i] \in 0 .. Quiet
      /\ fill[i] \in 0 .. Capacity /\ live[i] \in BOOLEAN
  BY SourceNumbers
<1>3. /\ Span \in Nat \ {0} /\ Target \in Nat /\ Capacity \in Nat /\ Quiet \in Nat
      /\ Span <= Target /\ Target <= Capacity /\ 2 <= Quiet
  BY MixerAssumption
<1>4. ASSUME NEW id \in Ids, NEW frames \in Blocks, Push(id, frames) PROVE StrandAt(i)'
  <2>1. UNCHANGED <<seen, pushed, quiet, live, sources, pc, at>>
    BY <1>4 DEF Push, sourceVars, pullVars
  <2>2. CASE i # id
    <3>1. fill'[i] = fill[i] /\ recording'[i] = recording[i]
      BY <1>4, <2>2 DEF Push, TypeOK
    <3>2. QED
      BY <1>1, <2>1, <3>1, StrandUntouched
  <2>3. CASE i = id
    <3> DEFINE written == AtMost(frames, Capacity - fill[i])
    <3>1. frames \in Nat \ {0}
      BY MixerAssumption
    <3>2. fill'[i] = fill[i] + written /\ recording'[i].frames_pushed = written
      BY <1>4, <2>3 DEF Push, TypeOK
    <3>3. written \in Nat /\ (written = 0 => fill[i] = Capacity)
      BY <1>2, <1>3, <3>1 DEF AtMost
    <3>4. recording[i].frames_pushed = 0
      BY <1>4, <2>3 DEF Push, NoCounts
    <3>5. CASE written > 0
      BY <1>1, <2>1, <3>2, <3>5 DEF StrandAt, Expected
    <3>6. CASE written = 0
      <4>1. fill[i] >= Target
        BY <1>3, <3>3, <3>6
      <4>2. QED
        BY <1>1, <2>1, <3>2, <3>4, <3>6, <4>1 DEF StrandAt, Expected
    <3>7. QED
      BY <3>3, <3>5, <3>6
  <2>4. QED
    BY <2>2, <2>3
<1>5. ASSUME NEW id \in Ids, record_push(id) PROVE StrandAt(i)'
  <2>1. UNCHANGED <<seen, fill, quiet, live, sources, pc, at>>
    BY <1>5 DEF record_push, sourceVars, pullVars
  <2>2. CASE i # id
    <3>1. pushed'[i] = pushed[i] /\ recording'[i] = recording[i]
      BY <1>5, <2>2 DEF record_push, TypeOK
    <3>2. QED
      BY <1>1, <2>1, <3>1, StrandUntouched
  <2>3. CASE i = id
    <3>1. pushed'[i].frames_pushed = pushed[i].frames_pushed + recording[i].frames_pushed
      BY <1>5, <2>3 DEF record_push, TypeOK, Plus
    <3>2. QED
      BY <1>1, <1>2, <2>1, <3>1 DEF StrandAt, Expected
  <2>4. QED
    BY <2>2, <2>3
<1>6. ASSUME NEW id \in Ids, DrainJoin(id) PROVE StrandAt(i)'
  <2>1. /\ UNCHANGED <<pushed, recording, fill, pc, at>> /\ pc = "drain"
        /\ sources' = sources \cup {id}
    BY <1>6 DEF DrainJoin, Popped, ringVars, pullVars
  <2>2. CASE i # id
    <3>1. live'[i] = live[i] /\ quiet'[i] = quiet[i] /\ seen'[i] = seen[i]
      BY <1>6, <2>2 DEF DrainJoin, TypeOK
    <3>2. QED
      BY <1>1, <2>1, <2>2, <3>1, StrandUntouched
  <2>3. CASE i = id
    <3>1. quiet'[i] = 0 /\ seen'[i] = pushed[i]
      BY <1>6, <2>3 DEF DrainJoin, TypeOK
    <3>2. QED
      BY <1>2, <1>3, <2>1, <3>1 DEF StrandAt, Expected
  <2>4. QED
    BY <2>2, <2>3
<1>7. ASSUME NEW id \in Ids, DrainForeign(id) \/ DrainLeave(id) PROVE StrandAt(i)'
  <2>1. /\ UNCHANGED <<pushed, recording, fill, pc, at, live, quiet, seen>>
        /\ sources' \subseteq sources
    BY <1>7 DEF DrainForeign, DrainLeave, Popped, ringVars, pullVars, sourceVars
  <2>2. QED
    BY <1>1, <2>1, StrandUntouched
<1>8. CASE Trim
  <2>1. /\ UNCHANGED <<pushed, recording, live, quiet, seen, sources, pc, at>>
        /\ pc = "idle"
    BY <1>8 DEF Trim, sourceVars, pullVars
  <2>2. fill'[i] \in {fill[i], Target} /\ (fill'[i] = Target => fill[i] >= Target)
    BY <1>2, <1>3, <1>8 DEF Trim, AtMost
  <2>3. QED
    BY <1>1, <1>2, <1>3, <2>1, <2>2 DEF StrandAt, Expected
<1>9. ASSUME NEW id \in Ids, Count(id) PROVE StrandAt(i)'
  <2>1. /\ UNCHANGED <<pushed, recording, live, fill, sources>> /\ pc = "count"
        /\ pc' = "mix" /\ at' = id
    BY <1>9 DEF Count, ringVars
  <2>2. CASE i # id
    <3>1. quiet'[i] = quiet[i] /\ seen'[i] = seen[i]
      BY <1>9, <2>2 DEF Count, TypeOK
    <3>2. QED
      BY <1>1, <2>1, <3>1, StrandUntouched
  <2>3. CASE i = id
    <3> DEFINE new == Since(pushed[i], seen[i]).frames_pushed
    <3>1. /\ seen'[i] = pushed[i]
          /\ quiet'[i] = IF new > 0 THEN 0 ELSE Quieter(quiet[i])
      BY <1>9, <2>3 DEF Count, TypeOK
    <3>2. pushed[i].frames_pushed > seen[i].frames_pushed => new > 0
      BY <1>2 DEF Since, AtLeast
    <3>3. quiet[i] + 1 < Quiet => Quieter(quiet[i]) < Quiet
      BY <1>2, <1>3 DEF Quieter, AtMost
    <3>4. Expected(i) => recording[i].frames_pushed > 0 \/ quiet'[i] < Quiet
      BY <1>3, <2>1, <3>1, <3>2, <3>3 DEF Expected
    <3>5. QED
      BY <1>1, <1>2, <2>1, <2>3, <3>1, <3>4 DEF StrandAt, Expected
  <2>4. QED
    BY <2>2, <2>3
<1>10. CASE Skip
  <2>1. /\ UNCHANGED <<pushed, recording, live, fill, sources, quiet, seen>>
        /\ pc = "mix" /\ ~Enters(at)
    BY <1>10 DEF Skip, ringVars, sourceVars
  <2>2. CASE i = at
    BY <1>1, <1>2, <1>3, <2>1, <2>2 DEF StrandAt, Expected, Enters
  <2>3. CASE i # at
    BY <1>1, <2>1, <2>3, StrandUntouched
  <2>4. QED
    BY <2>2, <2>3
<1>11. CASE Mix
  <2>1. UNCHANGED <<pushed, recording, sources, quiet, seen>> /\ at \in Ids
    BY <1>11 DEF Mix, TypeOK
  <2>2. CASE i # at
    <3>1. live'[i] = live[i] /\ fill'[i] = fill[i]
      BY <1>11, <2>2 DEF Mix, TypeOK
    <3>2. QED
      BY <1>1, <2>1, <2>2, <3>1, StrandUntouched
  <2>3. CASE i = at
    <3> DEFINE taken == AtMost(Span, fill[i])
    <3>1. /\ fill'[i] = fill[i] - taken
          /\ live'[i] = ~(taken < Span /\ quiet[i] >= Quiet)
      BY <1>11, <2>3 DEF Mix, TypeOK
    <3>2. taken < Span => fill'[i] = 0
      BY <1>2, <1>3, <3>1 DEF AtMost
    <3>3. ~live'[i] => ~(fill'[i] >= Target)
      <4>1. fill'[i] = 0 => ~(fill'[i] >= Target)
        BY ONLY <1>3
      <4>2. ~live'[i] => taken < Span
        BY <3>1
      <4>3. QED
        BY <3>2, <4>1, <4>2
    <3>4. QED
      BY <1>1, <2>1, <3>3 DEF StrandAt
  <2>4. QED
    BY <2>2, <2>3
<1>12. QED
  <2> USE <1>1, StrandUntouched DEF vars, busVars, ringVars, sourceVars, pullVars
  <2>1. CASE \/ JoinStart \/ Reprime \/ DrainEnd \/ PullStart \/ Finish \/ UNCHANGED vars
    BY <2>1 DEF JoinStart, Reprime, DrainEnd, PullStart, Finish
  <2>2. CASE \E id \in Ids : Owner(id)
    BY <2>2 DEF Owner, LeaveStart, Lock, Post
  <2>3. CASE \E p \in BOOLEAN : SyncBegin(p)
    BY <2>3 DEF SyncBegin
  <2>4. QED
    BY <1>4, <1>5, <1>6, <1>7, <1>8, <1>9, <1>10, <1>11, <2>1, <2>2, <2>3
       DEF Next, Drain, Visit

(* No track with a target of audio waits outside the mix.                  *)
THEOREM NobodyIsStranded == Spec => []NeverStranded
<1>1. Spec => [](TypeOK /\ StrandInv)
  BY TypeInit, TypeStep, StrandInit, StrandStep, PTL DEF Spec
<1>2. TypeOK /\ StrandInv => NeverStranded
  BY DEF StrandInv, StrandAt, Expected, NeverStranded, TypeOK
<1>3. QED
  BY <1>1, <1>2, PTL

-----------------------------------------------------------------------------
(* quiet counts no faster than the pulls that really found nothing new:    *)
(* Count compares with what the visit before has seen, and a join sees     *)
(* everything counted so far.                                              *)
QuietAt(id) ==
    /\ seen[id].frames_pushed <= pushed[id].frames_pushed
    /\ seen[id].frames_pushed = pushed[id].frames_pushed => quiet[id] <= silent[id]

QuietInv == \A id \in Ids : QuietAt(id)

LEMMA QuietInit == Init => QuietInv
BY MixerAssumption DEF Init, QuietInv, QuietAt, NoCounts

LEMMA QuietStep == TypeOK /\ QuietInv /\ [Next]_vars => QuietInv'
<1> SUFFICES ASSUME TypeOK, QuietInv, [Next]_vars, NEW i \in Ids PROVE QuietAt(i)'
  BY DEF QuietInv
<1>1. /\ pushed[i].frames_pushed \in Nat /\ seen[i].frames_pushed \in Nat
      /\ recording[i].frames_pushed \in Nat /\ quiet[i] \in 0 .. Quiet /\ silent[i] \in 0 .. Quiet
  BY SourceNumbers DEF TypeOK
<1>2. QuietAt(i)
  BY DEF QuietInv
<1>3. ASSUME UNCHANGED <<seen, pushed, quiet, silent>> PROVE QuietAt(i)'
  BY <1>2, <1>3 DEF QuietAt
<1>4. ASSUME NEW id \in Ids, record_push(id) PROVE QuietAt(i)'
  <2>1. /\ pushed' = [pushed EXCEPT ![id] = Plus(pushed[id], recording[id])]
        /\ silent' = (IF recording[id].frames_pushed > 0 THEN [silent EXCEPT ![id] = 0] ELSE silent)
        /\ UNCHANGED <<seen, quiet>>
    BY <1>4 DEF record_push, sourceVars
  <2>2. CASE id # i
    <3>1. pushed'[i] = pushed[i] /\ silent'[i] = silent[i]
      BY <2>1, <2>2 DEF TypeOK
    <3>2. QED
      BY <1>2, <2>1, <3>1 DEF QuietAt
  <2>3. CASE id = i
    <3>1. pushed'[i].frames_pushed = pushed[i].frames_pushed + recording[i].frames_pushed
      BY <2>1, <2>3 DEF TypeOK, Plus
    <3>2. recording[i].frames_pushed = 0 => silent'[i] = silent[i]
      BY <2>1, <2>3
    <3>3. QED
      BY <1>1, <1>2, <2>1, <3>1, <3>2 DEF QuietAt
  <2>4. QED
    BY <2>2, <2>3
<1>5. ASSUME NEW id \in Ids, DrainJoin(id) PROVE QuietAt(i)'
  <2>1. /\ quiet' = [quiet EXCEPT ![id] = 0] /\ seen' = [seen EXCEPT ![id] = pushed[id]]
        /\ silent' = [silent EXCEPT ![id] = 0] /\ pushed' = pushed
    BY <1>5 DEF DrainJoin, Popped, ringVars
  <2>2. CASE id # i
    BY <1>2, <2>1, <2>2 DEF QuietAt, TypeOK
  <2>3. CASE id = i
    BY <1>1, <2>1, <2>3 DEF QuietAt, TypeOK
  <2>4. QED
    BY <2>2, <2>3
<1>6. ASSUME NEW id \in Ids, Count(id) PROVE QuietAt(i)'
  <2>1. /\ quiet' = [quiet EXCEPT ![id] =
              IF Since(pushed[id], seen[id]).frames_pushed > 0 THEN 0 ELSE Quieter(quiet[id])]
        /\ seen' = [seen EXCEPT ![id] = pushed[id]]
        /\ silent' = [silent EXCEPT ![id] = Quieter(silent[id])] /\ pushed' = pushed
    BY <1>6 DEF Count, ringVars
  <2>2. CASE id # i
    BY <1>2, <2>1, <2>2 DEF QuietAt, TypeOK
  <2>3. CASE id = i
    <3>1. /\ quiet'[i] = (IF Since(pushed[i], seen[i]).frames_pushed > 0 THEN 0 ELSE Quieter(quiet[i]))
          /\ seen'[i] = pushed[i] /\ silent'[i] = Quieter(silent[i]) /\ pushed'[i] = pushed[i]
      BY <2>1, <2>3 DEF TypeOK
    <3>2. Since(pushed[i], seen[i]).frames_pushed = pushed[i].frames_pushed - seen[i].frames_pushed
      BY <1>1, <1>2 DEF Since, AtLeast, QuietAt
    <3>3. Quiet \in Nat
      BY MixerAssumption
    <3>4. quiet[i] <= silent[i] => Quieter(quiet[i]) <= Quieter(silent[i])
      BY <1>1, <3>3 DEF Quieter, AtMost
    <3>5. Quieter(silent[i]) >= 0
      BY <1>1, <3>3 DEF Quieter, AtMost
    <3>6. QED
      BY <1>1, <1>2, <3>1, <3>2, <3>4, <3>5 DEF QuietAt
  <2>4. QED
    BY <2>2, <2>3
<1>7. QED
  <2> USE <1>3 DEF vars, busVars, ringVars, sourceVars, pullVars
  <2>1. CASE \/ JoinStart \/ Trim \/ Reprime \/ DrainEnd \/ PullStart \/ Skip \/ Mix \/ Finish
             \/ UNCHANGED vars
    BY <2>1 DEF JoinStart, Trim, Reprime, DrainEnd, PullStart, Skip, Mix, Finish
  <2>2. CASE \E id \in Ids : Owner(id) \/ DrainForeign(id) \/ DrainLeave(id)
    BY <2>2 DEF Owner, LeaveStart, Lock, Post, DrainForeign, DrainLeave, Popped
  <2>3. CASE \E id \in Ids, frames \in Blocks : Push(id, frames)
    BY <2>3 DEF Push
  <2>4. CASE \E p \in BOOLEAN : SyncBegin(p)
    BY <2>4 DEF SyncBegin
  <2>5. QED
    BY <1>4, <1>5, <1>6, <2>1, <2>2, <2>3, <2>4 DEF Next, Drain, Visit

(* Who leaves the mix while it stays a source was mixed short.             *)
LEMMA MixedShort ==
    ASSUME TypeOK, OrdersInv, [Next]_vars, NEW id \in sources, live[id], ~live'[id]
    PROVE  Mix /\ id = at /\ fill[id] < Span /\ quiet[id] >= Quiet
<1>0. id \in Ids /\ live \in [Ids -> BOOLEAN]
  BY DEF TypeOK
<1>1. live' # live
  OBVIOUS
<1>2. ASSUME NEW j \in Ids, DrainJoin(j) PROVE FALSE
  <2>1. Queued(Join(j))
    BY <1>2, TailOfInbox DEF DrainJoin, Queued
  <2>2. j # id
    BY <2>1 DEF OrdersInv, OrdersTakeEffectOnce
  <2>3. live' = [live EXCEPT ![j] = FALSE]
    BY <1>2 DEF DrainJoin
  <2>4. QED
    BY <1>0, <2>2, <2>3, Zenon
<1>3. Mix
  <2> USE <1>1 DEF vars, busVars, ringVars, sourceVars, pullVars
  <2>1. CASE \/ JoinStart \/ Trim \/ Reprime \/ DrainEnd \/ PullStart \/ Skip \/ Finish \/ UNCHANGED vars
    BY <2>1 DEF JoinStart, Trim, Reprime, DrainEnd, PullStart, Skip, Finish
  <2>2. CASE \E j \in Ids : Owner(j) \/ DrainForeign(j) \/ DrainLeave(j) \/ Count(j) \/ record_push(j)
    BY <2>2 DEF Owner, LeaveStart, Lock, Post, DrainForeign, DrainLeave, Popped, Count, record_push
  <2>3. CASE \E j \in Ids, frames \in Blocks : Push(j, frames)
    BY <2>3 DEF Push
  <2>4. CASE \E p \in BOOLEAN : SyncBegin(p)
    BY <2>4 DEF SyncBegin
  <2>5. QED
    BY <1>2, <2>1, <2>2, <2>3, <2>4 DEF Next, Drain, Visit
<1>4. PICK short \in BOOLEAN :
          /\ short <=> AtMost(Span, fill[at]) < Span
          /\ live' = [live EXCEPT ![at] = ~(short /\ quiet[at] >= Quiet)]
  BY <1>3 DEF Mix
<1>5. id = at
  BY <1>0, <1>4, Zenon
<1>6. short /\ quiet[id] >= Quiet
  BY <1>0, <1>4, <1>5, Zenon
<1>7. fill[id] < Span
  BY <1>0, <1>4, <1>5, <1>6, MixerAssumption DEF TypeOK, AtMost
<1>8. QED
  BY <1>3, <1>5, <1>6, <1>7

(* Only who ran short after Quiet pulls without a counted push is put out, *)
(* unless a push is counted in the midst of this very pull.                *)
THEOREM OnlyTheQuietAreOut == Spec => OnlyTheQuietAreDropped
<1>1. Spec => [](TypeOK /\ OrdersInv /\ QuietInv)
  BY TypeInit, TypeStep, OrdersInit, OrdersStep, QuietInit, QuietStep, PTL DEF Spec
<1>2. ASSUME TypeOK, OrdersInv, QuietInv, [Next]_vars, NEW id \in sources, live[id], ~live'[id]
      PROVE  (silent[id] >= Quiet \/ pushed[id] # seen[id]) /\ fill[id] < Span
  <2>1. fill[id] < Span /\ quiet[id] >= Quiet /\ id \in Ids
    BY <1>2, MixedShort DEF TypeOK
  <2>2. pushed[id] = seen[id] => quiet[id] <= silent[id]
    BY <1>2, <2>1 DEF QuietInv, QuietAt
  <2>3. quiet[id] \in Nat /\ silent[id] \in Nat /\ Quiet \in Nat
    BY <1>2, <2>1, MixerAssumption DEF TypeOK
  <2>4. QED
    BY <2>1, <2>2, <2>3
<1>3. TypeOK /\ OrdersInv /\ QuietInv /\ [Next]_vars =>
        [\A id \in sources : live[id] /\ ~live'[id] =>
            /\ silent[id] >= Quiet \/ pushed[id] # seen[id]
            /\ fill[id] < Span]_vars
  BY <1>2
<1>4. QED
  BY <1>1, <1>3, PTL DEF Spec, OnlyTheQuietAreDropped
=============================================================================
