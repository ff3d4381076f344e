---------------------------- MODULE Server_proofs ---------------------------
(***************************************************************************)
(* Proofs about the feedback server: that from one start to the next the   *)
(* limits hold (module Limits), that the tickets are kept and numbered     *)
(* anew (module Tickets), and that each day is summed up once and before   *)
(* its log goes (module Pings), for any number of threads, senders,        *)
(* tickets, devices and days.                                              *)
(***************************************************************************)
EXTENDS Limits, Tickets, Pings, SequenceTheorems, FunctionTheorems, FiniteSetTheorems, TLAPS

-----------------------------------------------------------------------------
(* The limits                                                              *)

(* The hits that still count.                                              *)
Recent(m, s) == {h \in passed[m][s] : now - h.at < Span[m]}

(* Threads that have looked, found room and may yet enter a wrong password.*)
Trying(s) == {w \in Threads : thread[w].pc \in {"auth", "wrong"} /\ thread[w].who = s}

Window(m, s, from) == {h \in passed[m][s] : h.at \in from..(from + Span[m] - 1)}

Allowed(m) == Most[m] + (IF m = "admin_fail_ip" THEN Cardinality(Threads) ELSE 1)

(* A hit's number is of its own, no hit lies ahead, and what counts is kept. *)
HitsInv ==
    \A m \in Maps, s \in Senders :
        /\ IsFiniteSet(passed[m][s])
        /\ \A h \in passed[m][s] : h.at <= now /\ h.n \in 1..Cardinality(passed[m][s])
        /\ hits[m][s] \subseteq passed[m][s]
        /\ Recent(m, s) \subseteq hits[m][s]

(* Who is not at home has a sender.                                        *)
BusyInv == \A w \in Threads : thread[w].pc # "idle" => thread[w].who \in Senders

(* With those who may still enter theirs the wrong passwords keep within   *)
(* what is allowed.                                                        *)
TryingInv ==
    \A s \in Senders :
        Cardinality(Recent("admin_fail_ip", s)) + Cardinality(Trying(s)) < Allowed("admin_fail_ip")

WindowsInv == \A m \in Maps, s \in Senders, from \in Int : Cardinality(Window(m, s, from)) < Allowed(m)

LimitsInv == LimitsTypeOK /\ HitsInv /\ BusyInv /\ TryingInv /\ WindowsInv

-----------------------------------------------------------------------------
LEMMA AllowedNat == \A m \in Maps : Allowed(m) \in Nat \ {0} /\ Cardinality(Threads) \in Nat \ {0}
<1>1. Cardinality(Threads) \in Nat /\ Cardinality(Threads) # 0
  BY LimitsAssumption, FS_CardinalityType, FS_EmptySet
<1>2. QED
  BY <1>1, LimitsAssumption DEF Allowed

(* Sizes that are asked for are numbers.                                   *)
LEMMA SizesAreNumbers ==
    ASSUME HitsInv, NEW m \in Maps, NEW s \in Senders
    PROVE  /\ IsFiniteSet(Recent(m, s)) /\ Cardinality(Recent(m, s)) \in Nat
           /\ IsFiniteSet(Trying(s)) /\ Cardinality(Trying(s)) \in Nat
           /\ \A from \in Int : IsFiniteSet(Window(m, s, from)) /\ Cardinality(Window(m, s, from)) \in Nat
           /\ Cardinality(passed[m][s]) \in Nat
<1>1. IsFiniteSet(passed[m][s])
  BY DEF HitsInv
<1>2. \A S \in SUBSET passed[m][s] : IsFiniteSet(S) /\ Cardinality(S) \in Nat
  BY <1>1, FS_Subset, FS_CardinalityType
<1>3. Recent(m, s) \in SUBSET passed[m][s] /\ \A from \in Int : Window(m, s, from) \in SUBSET passed[m][s]
  BY DEF Recent, Window
<1>4. IsFiniteSet(Trying(s)) /\ Cardinality(Trying(s)) \in Nat
  BY LimitsAssumption, FS_Subset, FS_CardinalityType DEF Trying
<1>5. QED
  BY <1>2, <1>3, <1>4

(* A server that has just started, whatever the time.                      *)
JustStarted == hits = NoHits /\ passed = NoHits /\ thread = [w \in Threads |-> Away] /\ now \in 0..MaxTime

LEMMA FreshKeeps == JustStarted => LimitsInv
<1> SUFFICES ASSUME JustStarted PROVE LimitsInv
  OBVIOUS
<1> USE DEF NoHits, JustStarted
<1>1. LimitsTypeOK
  BY LimitsAssumption DEF LimitsTypeOK, Hits, Away
<1>2. Cardinality({}) = 0 /\ IsFiniteSet({})
  BY FS_EmptySet
<1>3. HitsInv
  BY <1>2 DEF HitsInv, Recent
<1>4. BusyInv
  BY DEF BusyInv, Away
<1>5. \A s \in Senders : Recent("admin_fail_ip", s) = {} /\ Trying(s) = {}
  BY DEF Recent, Trying, Away, Maps
<1>6. TryingInv
  <2>1. "admin_fail_ip" \in Maps
    BY DEF Maps
  <2>2. 0 + 0 < Allowed("admin_fail_ip")
    BY <2>1, AllowedNat
  <2>3. QED
    BY <1>2, <1>5, <2>2 DEF TryingInv
<1>7. \A m \in Maps, s \in Senders, from \in Int : Window(m, s, from) = {}
  BY DEF Window
<1>8. WindowsInv
  <2>1. \A m \in Maps : 0 < Allowed(m)
    BY AllowedNat
  <2>2. QED
    BY <1>2, <1>7, <2>1 DEF WindowsInv
<1>9. QED
  BY <1>1, <1>3, <1>4, <1>6, <1>8 DEF LimitsInv

LEMMA LimitsInit_Inv == LimitsInit => LimitsInv
BY FreshKeeps, LimitsAssumption DEF LimitsInit, JustStarted

-----------------------------------------------------------------------------
(* What a look sees is exactly what counts.                                *)
LEMMA PrunedIsRecent ==
    ASSUME LimitsTypeOK, HitsInv, NEW m \in Maps, NEW s \in Senders
    PROVE  prune[m][s] = Recent(m, s)
<1>1. prune[m][s] = {h \in hits[m][s] : now - h.at < Span[m]}
  BY DEF prune
<1>2. hits[m][s] \subseteq passed[m][s] /\ Recent(m, s) \subseteq hits[m][s]
  BY DEF HitsInv
<1>3. QED
  BY <1>1, <1>2 DEF Recent

LEMMA PruneType == ASSUME LimitsTypeOK PROVE prune \in [Maps -> [Senders -> SUBSET Hits]]
BY DEF LimitsTypeOK, prune

(* A look that enters nothing leaves the hits in order.                    *)
LEMMA PruneKeeps ==
    ASSUME LimitsTypeOK, HitsInv, UNCHANGED <<now, passed>>, hits' = hits \/ hits' = prune
    PROVE  HitsInv' /\ hits' \in [Maps -> [Senders -> SUBSET Hits]]
<1>1. hits' \in [Maps -> [Senders -> SUBSET Hits]]
  BY PruneType DEF LimitsTypeOK
<1> SUFFICES ASSUME NEW m \in Maps, NEW s \in Senders
             PROVE  /\ hits'[m][s] \subseteq passed[m][s]
                    /\ Recent(m, s) \subseteq hits'[m][s]
  BY <1>1 DEF HitsInv, Recent
<1>2. prune[m][s] = Recent(m, s)
  BY PrunedIsRecent
<1>3. QED
  BY <1>2 DEF HitsInv, Recent

(* The windows and what counts are those of the entered hits.              *)
LEMMA CountsStay ==
    ASSUME UNCHANGED <<now, passed>>
    PROVE  \A m, s : Recent(m, s)' = Recent(m, s) /\ \A from : Window(m, s, from)' = Window(m, s, from)
BY DEF Recent, Window

-----------------------------------------------------------------------------
(* Entering a hit that there is room for.                                  *)
LEMMA PushKeeps ==
    ASSUME LimitsTypeOK, HitsInv, WindowsInv, NEW m \in Maps, NEW s \in Senders, Push(m, s), UNCHANGED now,
           Cardinality(Recent(m, s)) + 1 < Allowed(m)
    PROVE  /\ HitsInv' /\ WindowsInv'
           /\ {hits, passed}' \subseteq [Maps -> [Senders -> SUBSET Hits]]
           /\ \A n \in Maps, r \in Senders : <<n, r>> # <<m, s>> => Recent(n, r)' = Recent(n, r)
           /\ Cardinality(Recent(m, s)') <= Cardinality(Recent(m, s)) + 1
<1> DEFINE hit == [n |-> Cardinality(passed[m][s]) + 1, at |-> now]
<1>1. Cardinality(passed[m][s]) \in Nat /\ now \in 0..MaxTime
  BY SizesAreNumbers DEF LimitsTypeOK
<1>2. hit \in Hits
  BY <1>1 DEF Hits
<1>3. prune \in [Maps -> [Senders -> SUBSET Hits]] /\ passed \in [Maps -> [Senders -> SUBSET Hits]]
  BY PruneType DEF LimitsTypeOK
<1>4. /\ hits' = [prune EXCEPT ![m][s] = prune[m][s] \cup {hit}]
      /\ passed' = [passed EXCEPT ![m][s] = passed[m][s] \cup {hit}]
  BY DEF Push
<1> HIDE DEF hit
<1>5. {hits, passed}' \subseteq [Maps -> [Senders -> SUBSET Hits]]
  BY <1>2, <1>3, <1>4
<1>6. /\ hits'[m][s] = prune[m][s] \cup {hit} /\ passed'[m][s] = passed[m][s] \cup {hit}
      /\ \A n \in Maps, r \in Senders : <<n, r>> # <<m, s>> =>
            hits'[n][r] = prune[n][r] /\ passed'[n][r] = passed[n][r]
  BY <1>3, <1>4
<1>7. \A n \in Maps, r \in Senders : <<n, r>> # <<m, s>> =>
            Recent(n, r)' = Recent(n, r) /\ \A from \in Int : Window(n, r, from)' = Window(n, r, from)
  BY <1>6 DEF Recent, Window
<1>8. Recent(m, s)' \subseteq Recent(m, s) \cup {hit}
  BY <1>6 DEF Recent
<1>9. /\ IsFiniteSet(passed[m][s]) /\ IsFiniteSet(Recent(m, s))
      /\ Cardinality(Recent(m, s)) \in Nat
      /\ \A from \in Int : IsFiniteSet(Window(m, s, from)) /\ Cardinality(Window(m, s, from)) \in Nat
  BY SizesAreNumbers DEF HitsInv
<1>10. hit \notin passed[m][s]
  <2>1. \A h \in passed[m][s] : h.n \in 1..Cardinality(passed[m][s])
    BY DEF HitsInv
  <2>2. hit.n = Cardinality(passed[m][s]) + 1
    BY DEF hit
  <2>3. QED
    BY <1>1, <2>1, <2>2
<1>11. IsFiniteSet(passed[m][s] \cup {hit}) /\ Cardinality(passed[m][s] \cup {hit}) = Cardinality(passed[m][s]) + 1
  BY <1>9, <1>10, FS_AddElement
<1>12. \A S : IsFiniteSet(S) /\ Cardinality(S) \in Nat =>
          IsFiniteSet(S \cup {hit}) /\ Cardinality(S \cup {hit}) \in Nat /\ Cardinality(S \cup {hit}) <= Cardinality(S) + 1
  <2> SUFFICES ASSUME NEW S, IsFiniteSet(S), Cardinality(S) \in Nat
               PROVE  IsFiniteSet(S \cup {hit}) /\ Cardinality(S \cup {hit}) \in Nat /\ Cardinality(S \cup {hit}) <= Cardinality(S) + 1
    OBVIOUS
  <2>1. CASE hit \in S
    <3>1. \A T : T = S \cup {hit} => T = S
      BY <2>1
    <3>2. Cardinality(S) <= Cardinality(S) + 1
      OBVIOUS
    <3>3. QED
      BY <3>1, <3>2
  <2>2. CASE hit \notin S
    BY <2>2, FS_AddElement
  <2>3. QED
    BY <2>1, <2>2
<1>13. Cardinality(Recent(m, s)') <= Cardinality(Recent(m, s)) + 1
  <2>1. Cardinality(Recent(m, s)') \in Nat /\ Cardinality(Recent(m, s)') <= Cardinality(Recent(m, s) \cup {hit})
    BY <1>8, <1>9, <1>12, FS_Subset, FS_CardinalityType
  <2>2. QED
    BY <1>9, <1>12, <2>1
<1>14. HitsInv'
  <2> SUFFICES ASSUME NEW n \in Maps, NEW r \in Senders
               PROVE  /\ IsFiniteSet(passed'[n][r])
                      /\ \A h \in passed'[n][r] : h.at <= now' /\ h.n \in 1..Cardinality(passed'[n][r])
                      /\ hits'[n][r] \subseteq passed'[n][r]
                      /\ Recent(n, r)' \subseteq hits'[n][r]
    BY DEF HitsInv
  <2>1. CASE <<n, r>> # <<m, s>>
    <3>1. prune[n][r] = Recent(n, r) /\ Recent(n, r) \subseteq passed[n][r]
      BY PrunedIsRecent DEF Recent
    <3>2. QED
      BY <1>6, <1>7, <2>1, <3>1 DEF HitsInv
  <2>2. CASE n = m /\ r = s
    <3>1. prune[m][s] = Recent(m, s) /\ Recent(m, s) \subseteq passed[m][s]
      BY PrunedIsRecent DEF Recent
    <3>2. \A h \in passed[m][s] : h.at <= now /\ h.n \in 1..Cardinality(passed[m][s])
      BY DEF HitsInv
    <3>3. hit.at = now /\ hit.n = Cardinality(passed[m][s]) + 1
      BY DEF hit
    <3>4. \A h \in passed'[m][s] : h.at <= now' /\ h.n \in 1..Cardinality(passed'[m][s])
      BY <1>1, <1>6, <1>11, <3>2, <3>3
    <3>5. QED
      BY <1>6, <1>8, <1>11, <2>2, <3>1, <3>4
  <2>3. QED
    BY <2>1, <2>2
<1>15. WindowsInv'
  <2> SUFFICES ASSUME NEW n \in Maps, NEW r \in Senders, NEW from \in Int
               PROVE  Cardinality(Window(n, r, from)') < Allowed(n)
    BY DEF WindowsInv, Allowed
  <2>1. CASE <<n, r>> # <<m, s>>
    BY <1>7, <2>1 DEF WindowsInv
  <2>2. CASE n = m /\ r = s
    <3>1. CASE now \in from..(from + Span[m] - 1)
      <4>1. passed[m][s] \subseteq Hits /\ \A h \in passed[m][s] : h.at <= now
        BY <1>3 DEF HitsInv
      <4>2. Window(m, s, from)' \subseteq Recent(m, s) \cup {hit}
        BY <1>1, <1>6, <3>1, <4>1, LimitsAssumption DEF Window, Recent, Hits
      <4>3. Cardinality(Window(m, s, from)') \in Nat /\ Cardinality(Window(m, s, from)') <= Cardinality(Recent(m, s) \cup {hit})
        BY <1>9, <1>12, <4>2, FS_Subset, FS_CardinalityType
      <4>4. QED
        BY <1>9, <1>12, <2>2, <4>3, AllowedNat
    <3>2. CASE now \notin from..(from + Span[m] - 1)
      <4>1. hit.at = now
        BY DEF hit
      <4>2. Window(m, s, from)' = Window(m, s, from)
        BY <1>6, <3>2, <4>1 DEF Window
      <4>3. QED
        BY <2>2, <4>2 DEF WindowsInv
    <3>3. QED
      BY <3>1, <3>2
  <2>3. QED
    BY <2>1, <2>2
<1>16. QED
  BY <1>5, <1>7, <1>13, <1>14, <1>15

-----------------------------------------------------------------------------
(* A step that only moves a thread on, and lets nobody begin to try.       *)
LEMMA MoveKeeps ==
    ASSUME LimitsInv, UNCHANGED <<now, passed>>, hits' = hits \/ hits' = prune, LimitsTypeOK', BusyInv',
           \A s \in Senders : Trying(s)' \subseteq Trying(s)
    PROVE  LimitsInv'
<1>1. HitsInv'
  BY PruneKeeps DEF LimitsInv
<1>2. \A m, s : Recent(m, s)' = Recent(m, s) /\ \A from : Window(m, s, from)' = Window(m, s, from)
  BY CountsStay
<1>3. WindowsInv'
  BY <1>2 DEF LimitsInv, WindowsInv, Allowed
<1>4. ASSUME NEW s \in Senders
      PROVE  Cardinality(Recent("admin_fail_ip", s)') + Cardinality(Trying(s)') < Allowed("admin_fail_ip")
  <2>1. "admin_fail_ip" \in Maps
    BY DEF Maps
  <2>2. Cardinality(Trying(s)') \in Nat /\ Cardinality(Trying(s)') <= Cardinality(Trying(s))
    BY <2>1, SizesAreNumbers, FS_Subset, FS_CardinalityType DEF LimitsInv
  <2>3. Cardinality(Recent("admin_fail_ip", s)) + Cardinality(Trying(s)) < Allowed("admin_fail_ip")
    BY DEF LimitsInv, TryingInv
  <2>4. Cardinality(Recent("admin_fail_ip", s)) \in Nat /\ Cardinality(Trying(s)) \in Nat /\ Allowed("admin_fail_ip") \in Nat
    BY <2>1, SizesAreNumbers, AllowedNat DEF LimitsInv
  <2>5. QED
    BY <1>2, <2>2, <2>3, <2>4
<1>5. TryingInv'
  BY <1>4 DEF TryingInv, Allowed
<1>6. QED
  BY <1>1, <1>3, <1>5 DEF LimitsInv

ThreadTypes ==
    [pc : {"idle", "post", "checks", "post_id", "ping", "ping_ip", "admin", "auth", "wrong"},
     who : Senders \cup {"nobody"}]

(* Where one thread goes.                                                  *)
LEMMA Goes ==
    ASSUME LimitsTypeOK, BusyInv, NEW w \in Threads,
           NEW pc \in {"checks", "post_id", "ping_ip", "auth", "wrong"},
           thread[w].pc # "idle", GoesOn(w, pc) \/ Leaves(w)
    PROVE  /\ thread' \in [Threads -> ThreadTypes] /\ BusyInv'
           /\ \A v \in Threads \ {w} : thread'[v] = thread[v]
           /\ thread'[w].pc \in {pc, "idle"}
           /\ thread'[w].pc = pc => thread'[w].who = thread[w].who
<1>1. thread \in [Threads -> ThreadTypes]
  BY DEF LimitsTypeOK, ThreadTypes
<1>2. /\ thread' \in [Threads -> ThreadTypes]
      /\ \A v \in Threads \ {w} : thread'[v] = thread[v]
      /\ thread'[w].pc \in {pc, "idle"}
      /\ thread'[w].pc = pc => thread'[w].who = thread[w].who
      /\ thread'[w].pc # "idle" => thread'[w].who = thread[w].who
  <2>1. CASE GoesOn(w, pc)
    BY <1>1, <2>1 DEF GoesOn, ThreadTypes
  <2>2. CASE Leaves(w)
    BY <1>1, <2>2 DEF Leaves, Away, ThreadTypes
  <2>3. QED
    BY <2>1, <2>2
<1>3. BusyInv'
  BY <1>2 DEF BusyInv
<1>4. QED
  BY <1>2, <1>3

LEMMA TakeKeeps ==
    ASSUME LimitsInv, NEW w \in Threads, NEW m \in Maps \ {"admin_fail_ip"}, NEW next \in {"checks", "done"},
           thread[w].pc \in {"post", "post_id", "ping_ip"}, Take(w, m, next)
    PROVE  LimitsInv'
<1> USE DEF LimitsInv
<1>1. PICK s \in Senders : s = thread[w].who
  BY DEF BusyInv
<1>2. GoesOn(w, "checks") \/ Leaves(w)
  BY DEF Take
<1>3. /\ thread' \in [Threads -> ThreadTypes] /\ BusyInv'
      /\ \A v \in Threads \ {w} : thread'[v] = thread[v]
      /\ thread'[w].pc \in {"checks", "idle"}
  BY <1>2, Goes
<1>4. \A r \in Senders : Trying(r)' = Trying(r)
  BY <1>3 DEF Trying
<1>5. CASE over_limit(m, s)
  <2>1. hits' = prune /\ UNCHANGED <<now, passed>>
    BY <1>1, <1>5 DEF Take
  <2>2. LimitsTypeOK'
    BY <1>3, <2>1, PruneKeeps DEF LimitsTypeOK, ThreadTypes
  <2>3. QED
    BY <1>3, <1>4, <2>1, <2>2, MoveKeeps
<1>6. CASE ~over_limit(m, s)
  <2>1. Push(m, s) /\ UNCHANGED now
    BY <1>1, <1>6 DEF Take
  <2>2. Cardinality(Recent(m, s)) + 1 < Allowed(m)
    <3>1. Cardinality(Recent(m, s)) \in Nat /\ Most[m] \in Nat
      BY SizesAreNumbers, LimitsAssumption
    <3>2. ~(Cardinality(Recent(m, s)) >= Most[m])
      BY <1>6, PrunedIsRecent DEF over_limit
    <3>3. QED
      BY <3>1, <3>2 DEF Allowed
  <2>3. /\ HitsInv' /\ WindowsInv'
        /\ {hits, passed}' \subseteq [Maps -> [Senders -> SUBSET Hits]]
        /\ \A n \in Maps, r \in Senders : <<n, r>> # <<m, s>> => Recent(n, r)' = Recent(n, r)
    BY <2>1, <2>2, PushKeeps
  <2>4. LimitsTypeOK'
    BY <1>3, <2>1, <2>3 DEF LimitsTypeOK, ThreadTypes
  <2>5. TryingInv'
    BY <1>4, <2>3 DEF TryingInv, Allowed, Maps
  <2>6. QED
    BY <1>3, <2>3, <2>4, <2>5
<1>7. QED
  BY <1>5, <1>6

LEMMA RequestKeeps ==
    ASSUME LimitsInv, NEW w \in Threads, NEW s \in Senders, NEW pc \in {"post", "ping", "admin"}, Request(w, s, pc)
    PROVE  LimitsInv'
<1>1. thread' = [thread EXCEPT ![w] = [pc |-> pc, who |-> s]] /\ UNCHANGED <<now, hits, passed>>
  BY DEF Request
<1>2. thread \in [Threads -> ThreadTypes]
  BY DEF LimitsInv, LimitsTypeOK, ThreadTypes
<1>3. thread' \in [Threads -> ThreadTypes] /\ thread'[w] = [pc |-> pc, who |-> s]
      /\ \A v \in Threads \ {w} : thread'[v] = thread[v]
  BY <1>1, <1>2 DEF ThreadTypes
<1>4. LimitsTypeOK'
  BY <1>1, <1>3 DEF LimitsInv, LimitsTypeOK, ThreadTypes, Hits
<1>5. BusyInv'
  BY <1>3 DEF LimitsInv, BusyInv
<1>6. \A r \in Senders : Trying(r)' \subseteq Trying(r)
  BY <1>3 DEF Trying
<1>7. QED
  BY <1>1, <1>4, <1>5, <1>6, MoveKeeps

(* A step of a thread that enters and looks at nothing.                    *)
LEMMA WalkKeeps ==
    ASSUME LimitsInv, NEW w \in Threads, NEW pc \in {"post_id", "ping_ip", "wrong"}, thread[w].pc # "idle",
           pc = "wrong" => thread[w].pc = "auth",
           GoesOn(w, pc) \/ Leaves(w), UNCHANGED <<now, hits, passed>>
    PROVE  LimitsInv'
<1>1. /\ thread' \in [Threads -> ThreadTypes] /\ BusyInv'
      /\ \A v \in Threads \ {w} : thread'[v] = thread[v]
      /\ thread'[w].pc \in {pc, "idle"}
      /\ thread'[w].pc = pc => thread'[w].who = thread[w].who
  BY Goes DEF LimitsInv
<1>2. LimitsTypeOK'
  BY <1>1 DEF LimitsInv, LimitsTypeOK, ThreadTypes, Hits
<1>3. \A r \in Senders : Trying(r)' \subseteq Trying(r)
  BY <1>1 DEF Trying
<1>4. QED
  BY <1>1, <1>2, <1>3, MoveKeeps

(* The admin's look, that finds room for one more.                         *)
LEMMA AdminLooks ==
    ASSUME LimitsInv, NEW w \in Threads, At(w, "admin"), hits' = prune, UNCHANGED <<now, passed>>,
           IF over_limit("admin_fail_ip", thread[w].who) THEN Leaves(w) ELSE GoesOn(w, "auth")
    PROVE  LimitsInv'
<1> USE DEF LimitsInv
<1> DEFINE a == "admin_fail_ip"
<1>1. PICK s \in Senders : s = thread[w].who
  BY DEF BusyInv, At
<1>2. /\ thread' \in [Threads -> ThreadTypes] /\ BusyInv'
      /\ \A v \in Threads \ {w} : thread'[v] = thread[v]
      /\ thread'[w].pc \in {"auth", "idle"}
      /\ thread'[w].pc = "auth" => thread'[w].who = s
  BY <1>1, Goes DEF At
<1>3. HitsInv' /\ hits' \in [Maps -> [Senders -> SUBSET Hits]]
  BY PruneKeeps
<1>4. LimitsTypeOK'
  BY <1>2, <1>3 DEF LimitsTypeOK, ThreadTypes
<1>5. CASE over_limit(a, s)
  <2>1. Leaves(w)
    BY <1>1, <1>5
  <2>2. \A r \in Senders : Trying(r)' \subseteq Trying(r)
    BY <1>2, <2>1 DEF Trying, Leaves, Away, LimitsTypeOK
  <2>3. QED
    BY <1>2, <1>4, <2>2, MoveKeeps
<1>6. CASE ~over_limit(a, s)
  <2>1. \A m, r : Recent(m, r)' = Recent(m, r) /\ \A from : Window(m, r, from)' = Window(m, r, from)
    BY CountsStay
  <2>2. WindowsInv'
    BY <2>1 DEF WindowsInv, Allowed
  <2>3. a \in Maps
    BY DEF Maps
  <2>4. ASSUME NEW r \in Senders
        PROVE  Cardinality(Recent(a, r)') + Cardinality(Trying(r)') < Allowed(a)
    <3>1. CASE r = s
      <4>1. Cardinality(Recent(a, s)) < Most[a]
        <5>1. Cardinality(Recent(a, s)) \in Nat /\ Most[a] \in Nat
          BY <2>3, SizesAreNumbers, LimitsAssumption
        <5>2. ~(Cardinality(Recent(a, s)) >= Most[a])
          BY <1>6, <2>3, PrunedIsRecent DEF over_limit
        <5>3. QED
          BY <5>1, <5>2
      <4>2. Trying(s)' \subseteq Threads
        BY DEF Trying
      <4>3. Cardinality(Trying(s)') \in Nat /\ Cardinality(Trying(s)') <= Cardinality(Threads)
        BY <4>2, LimitsAssumption, FS_Subset, FS_CardinalityType
      <4>4. /\ Cardinality(Recent(a, s)) \in Nat /\ Most[a] \in Nat /\ Cardinality(Threads) \in Nat
            /\ Allowed(a) = Most[a] + Cardinality(Threads)
        BY <2>3, SizesAreNumbers, LimitsAssumption, AllowedNat DEF Allowed
      <4>5. QED
        BY <2>1, <3>1, <4>1, <4>3, <4>4
    <3>2. CASE r # s
      <4>1. Trying(r)' = Trying(r)
        BY <1>1, <1>2, <3>2 DEF Trying, At
      <4>2. QED
        BY <2>1, <4>1 DEF TryingInv
    <3>3. QED
      BY <3>1, <3>2
  <2>5. TryingInv'
    BY <2>4 DEF TryingInv, Allowed
  <2>6. QED
    BY <1>2, <1>3, <1>4, <2>2, <2>5
<1>7. QED
  BY <1>5, <1>6

(* A wrong password is entered by one who was trying.                      *)
LEMMA WrongIsEntered ==
    ASSUME LimitsInv, NEW w \in Threads, At(w, "wrong"), Push("admin_fail_ip", thread[w].who), Leaves(w),
           UNCHANGED now
    PROVE  LimitsInv'
<1> USE DEF LimitsInv
<1> DEFINE a == "admin_fail_ip"
<1>1. PICK s \in Senders : s = thread[w].who
  BY DEF BusyInv, At
<1>2. a \in Maps
  BY DEF Maps
<1>3. /\ thread' \in [Threads -> ThreadTypes] /\ BusyInv'
      /\ \A v \in Threads \ {w} : thread'[v] = thread[v]
  BY Goes DEF At
<1>4. thread'[w].pc = "idle"
  BY DEF Leaves, Away, LimitsTypeOK
<1>5. w \in Trying(s)
  BY <1>1 DEF Trying, At
<1>6. Trying(s)' = Trying(s) \ {w} /\ \A r \in Senders \ {s} : Trying(r)' = Trying(r)
  BY <1>1, <1>3, <1>4 DEF Trying
<1>7. /\ Cardinality(Trying(s)) \in Nat /\ Cardinality(Recent(a, s)) \in Nat
      /\ Cardinality(Trying(s)') = Cardinality(Trying(s)) - 1 /\ Cardinality(Trying(s)') \in Nat
  <2>1. IsFiniteSet(Trying(s)) /\ Cardinality(Trying(s)) \in Nat /\ Cardinality(Recent(a, s)) \in Nat
    BY <1>2, SizesAreNumbers
  <2>2. IsFiniteSet(Trying(s) \ {w}) /\ Cardinality(Trying(s) \ {w}) = Cardinality(Trying(s)) - 1
    BY <1>5, <2>1, FS_RemoveElement
  <2>3. Cardinality(Trying(s) \ {w}) \in Nat
    BY <2>2, FS_CardinalityType
  <2>4. QED
    BY <1>6, <2>1, <2>2, <2>3
<1>8. Cardinality(Recent(a, s)) + Cardinality(Trying(s)) < Allowed(a) /\ Allowed(a) \in Nat
  BY <1>2, AllowedNat DEF TryingInv
<1>9. Cardinality(Recent(a, s)) + 1 < Allowed(a)
  BY <1>7, <1>8
<1>10. /\ HitsInv' /\ WindowsInv'
       /\ {hits, passed}' \subseteq [Maps -> [Senders -> SUBSET Hits]]
       /\ \A n \in Maps, r \in Senders : <<n, r>> # <<a, s>> => Recent(n, r)' = Recent(n, r)
       /\ Cardinality(Recent(a, s)') <= Cardinality(Recent(a, s)) + 1
  BY <1>1, <1>2, <1>9, PushKeeps
<1>11. LimitsTypeOK'
  BY <1>3, <1>10 DEF LimitsTypeOK, ThreadTypes
<1>12. ASSUME NEW r \in Senders
       PROVE  Cardinality(Recent(a, r)') + Cardinality(Trying(r)') < Allowed(a)
  <2>1. CASE r = s
    <3>1. Cardinality(Recent(a, s)') \in Nat
      <4>1. HitsInv' => IsFiniteSet(passed'[a][s])
        BY <1>2 DEF HitsInv
      <4>2. Recent(a, s)' \subseteq passed'[a][s]
        BY DEF Recent
      <4>3. QED
        BY <1>10, <4>1, <4>2, FS_Subset, FS_CardinalityType
    <3>2. QED
      BY <1>7, <1>8, <1>10, <2>1, <3>1
  <2>2. CASE r # s
    BY <1>2, <1>6, <1>10, <2>2 DEF TryingInv
  <2>3. QED
    BY <2>1, <2>2
<1>13. TryingInv'
  BY <1>12 DEF TryingInv, Allowed
<1>14. QED
  BY <1>3, <1>10, <1>11, <1>13

(* As time goes by less counts.                                            *)
LEMMA TickKeeps == ASSUME LimitsInv, Tick PROVE LimitsInv'
<1> USE DEF LimitsInv
<1>1. now' = now + 1 /\ now < MaxTime /\ UNCHANGED <<hits, thread, passed>> /\ now \in 0..MaxTime /\ MaxTime \in Nat
  BY LimitsAssumption DEF Tick, LimitsTypeOK
<1>2. LimitsTypeOK'
  BY <1>1 DEF LimitsTypeOK, Hits
<1>3. BusyInv'
  BY <1>1 DEF BusyInv
<1>4. passed \in [Maps -> [Senders -> SUBSET Hits]]
  BY DEF LimitsTypeOK
<1>5. \A m \in Maps, s \in Senders : Recent(m, s)' \subseteq Recent(m, s)
  BY <1>1, <1>4, LimitsAssumption DEF Recent, Hits
<1>6. HitsInv'
  BY <1>1, <1>4, <1>5 DEF HitsInv, Hits
<1>7. \A m, s, from : Window(m, s, from)' = Window(m, s, from)
  BY <1>1 DEF Window
<1>8. WindowsInv'
  BY <1>7 DEF WindowsInv, Allowed
<1>9. ASSUME NEW s \in Senders
      PROVE  Cardinality(Recent("admin_fail_ip", s)') + Cardinality(Trying(s)') < Allowed("admin_fail_ip")
  <2>1. "admin_fail_ip" \in Maps
    BY DEF Maps
  <2>2. /\ Cardinality(Recent("admin_fail_ip", s)') \in Nat
        /\ Cardinality(Recent("admin_fail_ip", s)') <= Cardinality(Recent("admin_fail_ip", s))
    BY <1>5, <2>1, SizesAreNumbers, FS_Subset, FS_CardinalityType
  <2>3. Trying(s)' = Trying(s)
    BY <1>1 DEF Trying
  <2>4. Cardinality(Recent("admin_fail_ip", s)) + Cardinality(Trying(s)) < Allowed("admin_fail_ip")
    BY DEF TryingInv
  <2>5. /\ Cardinality(Recent("admin_fail_ip", s)) \in Nat /\ Cardinality(Trying(s)) \in Nat
        /\ Allowed("admin_fail_ip") \in Nat
    BY <2>1, SizesAreNumbers, AllowedNat
  <2>6. QED
    BY <2>2, <2>3, <2>4, <2>5
<1>10. TryingInv'
  BY <1>9 DEF TryingInv, Allowed
<1>11. QED
  BY <1>2, <1>3, <1>6, <1>8, <1>10

(* The maps of a new process are those of the first.                       *)
LEMMA RestartKeeps == LimitsInv /\ Restart => LimitsInv'
<1>1. LimitsInv /\ Restart => JustStarted'
  BY DEF Restart, JustStarted, LimitsInv, LimitsTypeOK
<1>2. QED
  BY <1>1, FreshKeeps, PTL

LEMMA LimitsStep == LimitsInv /\ [LimitsNext]_limit_vars => LimitsInv'
<1> SUFFICES ASSUME LimitsInv, [LimitsNext]_limit_vars PROVE LimitsInv'
  OBVIOUS
<1>1. ASSUME NEW w \in Threads, NEW s \in Senders, NEW pc \in {"post", "ping", "admin"}, Request(w, s, pc)
      PROVE  LimitsInv'
  BY <1>1, RequestKeeps
<1>2. ASSUME NEW w \in Threads, handle_post(w) PROVE LimitsInv'
  <2>1. CASE At(w, "post") /\ Take(w, "by_ip", "checks")
    BY <2>1, TakeKeeps DEF At, Maps
  <2>2. CASE At(w, "checks") /\ (GoesOn(w, "post_id") \/ Leaves(w)) /\ UNCHANGED <<now, hits, passed>>
    BY <2>2, WalkKeeps DEF At
  <2>3. CASE At(w, "post_id") /\ Take(w, "by_id", "done")
    BY <2>3, TakeKeeps DEF At, Maps
  <2>4. QED
    BY <1>2, <2>1, <2>2, <2>3 DEF handle_post
<1>3. ASSUME NEW w \in Threads, handle_ping(w) PROVE LimitsInv'
  <2>1. CASE At(w, "ping") /\ (GoesOn(w, "ping_ip") \/ Leaves(w)) /\ UNCHANGED <<now, hits, passed>>
    BY <2>1, WalkKeeps DEF At
  <2>2. CASE At(w, "ping_ip") /\ Take(w, "ping_by_ip", "done")
    BY <2>2, TakeKeeps DEF At, Maps
  <2>3. QED
    BY <1>3, <2>1, <2>2 DEF handle_ping
<1>4. ASSUME NEW w \in Threads, admin_gate(w) PROVE LimitsInv'
  <2>1. CASE /\ At(w, "admin") /\ hits' = prune
             /\ IF over_limit("admin_fail_ip", thread[w].who) THEN Leaves(w) ELSE GoesOn(w, "auth")
             /\ UNCHANGED <<now, passed>>
    BY <2>1, AdminLooks
  <2>2. CASE At(w, "auth") /\ (GoesOn(w, "wrong") \/ Leaves(w)) /\ UNCHANGED <<now, hits, passed>>
    BY <2>2, WalkKeeps DEF At
  <2>3. CASE At(w, "wrong") /\ Push("admin_fail_ip", thread[w].who) /\ Leaves(w) /\ UNCHANGED now
    BY <2>3, WrongIsEntered
  <2>4. QED
    BY <1>4, <2>1, <2>2, <2>3 DEF admin_gate
<1>5. CASE Tick
  BY <1>5, TickKeeps
<1>6. CASE UNCHANGED limit_vars
  <2>1. UNCHANGED <<now, hits, thread, passed>>
    BY <1>6 DEF limit_vars
  <2>2. LimitsTypeOK' /\ BusyInv' /\ \A s \in Senders : Trying(s)' \subseteq Trying(s)
    BY <2>1 DEF LimitsInv, LimitsTypeOK, BusyInv, Trying
  <2>3. QED
    BY <2>1, <2>2, MoveKeeps
<1>7. CASE Restart
  BY <1>7, RestartKeeps
<1>8. QED
  BY <1>1, <1>2, <1>3, <1>4, <1>5, <1>6, <1>7 DEF LimitsNext

LEMMA LimitsInvariant == LimitsSpec => []LimitsInv
BY LimitsInit_Inv, LimitsStep, PTL DEF LimitsSpec

(* Between two starts of the server, which begin with empty maps, in no    *)
(* window of an hour, or of a day, do more pass than the limit says,       *)
(* whatever number of threads let them through and whatever a restart      *)
(* cuts short (over_limit, prune, main).                                   *)
THEOREM RatesAreHeld == LimitsSpec => []RatesHold
<1>1. LimitsInv => NoneOverTheLimit
  <2> SUFFICES ASSUME LimitsInv, NEW m \in Maps, NEW s \in Senders, NEW from \in 0..now
               PROVE  Cardinality({h \in passed[m][s] : h.at \in from..(from + Span[m] - 1)})
                          < Most[m] + (IF m = "admin_fail_ip" THEN Cardinality(Threads) ELSE 1)
    BY DEF NoneOverTheLimit
  <2>1. from \in Int
    OBVIOUS
  <2>2. QED
    BY <2>1 DEF LimitsInv, WindowsInv, Window, Allowed
<1>2. LimitsInv => RatesHold
  BY <1>1 DEF LimitsInv, RatesHold
<1>3. QED
  BY <1>2, LimitsInvariant, PTL

-----------------------------------------------------------------------------
(* The tickets                                                             *)

(* A post that has its number, and one that has its name.                  *)
Numbered(w) == worker[w].post /\ worker[w].pc \in {"create_new", "create", "write", "rename", "remove"}
Holds(w) == worker[w].post /\ worker[w].pc \in {"create", "write", "rename", "remove"}

GivenOut(t) == told[t] # NoMsg /\ t \notin deleted

(* What a thread has in hand where it stands.                              *)
InHand(w) ==
    /\ worker[w].pc \in {"count", "id", "create_new", "remove"} => worker[w].post
    /\ worker[w].pc \in {"read", "delete"} => ~worker[w].post
    /\ worker[w].pc \notin {"idle", "count", "id"} => worker[w].ticket \in Ids
    /\ worker[w].pc # "idle" /\ worker[w].post => worker[w].rec.msg \in Msgs
    /\ worker[w].pc # "idle" /\ ~worker[w].post => told[worker[w].ticket] # NoMsg
    /\ Writing(w) => worker[w].rec \in Records
    /\ Numbered(w) => worker[w].ticket <= last

(* No two posts under way have the same number.                            *)
NumbersDiffer ==
    \A v, w \in Workers : v # w /\ Numbered(v) /\ Numbered(w) => worker[v].ticket # worker[w].ticket

(* A ticket that was given out is there, and no post is about to take its  *)
(* name.                                                                   *)
StillThere ==
    \A t \in Ids : GivenOut(t) =>
        /\ file[t] # None
        /\ \A w \in Workers : Holds(w) => worker[w].ticket # t

(* What one request at a time writes: it has the temporary file for        *)
(* itself, and a record of the message that was given out.                 *)
Alone(t) ==
    /\ \A v, w \in Workers : v # w /\ Writing(v) /\ Writing(w) => ~(worker[v].ticket = t /\ worker[w].ticket = t)
    /\ \A w \in Workers : worker[w].ticket = t =>
          /\ worker[w].pc = "write" => worker[w].at = "tmp" /\ tmp[t] = Empty
          /\ worker[w].pc = "rename" => worker[w].at = "tmp" /\ tmp[t] = worker[w].rec
          /\ Writing(w) /\ ~worker[w].post /\ t \notin deleted => worker[w].rec.msg = told[t]

Kept(t) == GivenOut(t) => file[t] \in Records /\ file[t].msg = told[t]

(* A file that cannot be read is a post's that is under way.               *)
Ghost(t) ==
    crashes = 0 /\ t \notin unremoved /\ file[t] \notin {None} \cup Records =>
        \E w \in Workers : Holds(w) /\ worker[w].ticket = t

Unshared == \A t \in Ids \ overlapped : Alone(t) /\ Kept(t) /\ Ghost(t)

(* Tickets that are or will be in the directory, and posts that found room *)
(* and have no ticket there yet.                                           *)
Taken == {t \in Ids : file[t] # None \/ \E w \in Workers : Writing(w) /\ worker[w].ticket = t}
Admitted == {w \in Workers : worker[w].pc \in {"id", "create_new"}}
Bounded == Cardinality(Taken) + Cardinality(Admitted) < MAX_FILES + Cardinality(Workers)

TicketsInv ==
    /\ TicketsTypeOK
    /\ \A w \in Workers : InHand(w)
    /\ NumbersDiffer /\ StillThere /\ Unshared /\ Bounded

-----------------------------------------------------------------------------
LEMMA KindsDiffer ==
    /\ None # Empty /\ None # Garbled /\ Empty # Garbled
    /\ None \notin Records /\ Empty \notin Records /\ Garbled \notin Records
    /\ \A r \in Records : r.is = "record" /\ r.msg \in Msgs /\ r.handled \in BOOLEAN
<1>1. None.is = "none" /\ Empty.is = "empty" /\ Garbled.is = "garbled"
  BY DEF None, Empty, Garbled
<1>2. \A r \in Records : r.is = "record" /\ r.msg \in Msgs /\ r.handled \in BOOLEAN
  BY DEF Records
<1>3. QED
  BY <1>1, <1>2

LEMMA IdsFinite == IsFiniteSet(Ids) /\ Ids \subseteq Nat \ {0}
<1>1. IsFiniteSet(1..MaxTicket)
  BY TicketsAssumption, FS_Interval
<1>2. QED
  BY <1>1, TicketsAssumption DEF Ids

(* The two sets of the bound are finite.                                   *)
LEMMA BoundFinite ==
    /\ IsFiniteSet(Taken) /\ Cardinality(Taken) \in Nat
    /\ IsFiniteSet(Admitted) /\ Cardinality(Admitted) \in Nat
    /\ Cardinality(Workers) \in Nat \ {0}
<1>1. Taken \subseteq Ids /\ Admitted \subseteq Workers
  BY DEF Taken, Admitted
<1>2. Cardinality(Workers) \in Nat /\ Cardinality(Workers) # 0
  BY TicketsAssumption, FS_CardinalityType, FS_EmptySet
<1>3. QED
  BY <1>1, <1>2, IdsFinite, TicketsAssumption, FS_Subset, FS_CardinalityType

LEMMA BoundShrinks ==
    ASSUME Bounded, Taken' \subseteq Taken, Admitted' \subseteq Admitted
    PROVE  Bounded'
<1>1. /\ Cardinality(Taken') \in Nat /\ Cardinality(Taken') <= Cardinality(Taken)
      /\ Cardinality(Admitted') \in Nat /\ Cardinality(Admitted') <= Cardinality(Admitted)
  BY BoundFinite, FS_Subset, FS_CardinalityType
<1>2. QED
  BY <1>1, BoundFinite, TicketsAssumption DEF Bounded

LEMMA TicketsInit_Inv == TicketsInit => TicketsInv
<1> SUFFICES ASSUME TicketsInit PROVE TicketsInv
  OBVIOUS
<1>1. \A w \in Workers : worker[w].pc = "idle" /\ ~worker[w].post /\ worker[w].ticket = 0
  BY DEF TicketsInit, Idle
<1>2. \A t \in Ids : file[t] = None /\ told[t] = NoMsg
  BY DEF TicketsInit
<1>3. TicketsTypeOK
  BY TicketsAssumption DEF TicketsInit, TicketsTypeOK, Idle, Contents, WorkerStates
<1>4. \A w \in Workers : InHand(w)
  BY <1>1 DEF InHand, Writing, Numbered
<1>5. NumbersDiffer /\ StillThere
  BY <1>1, <1>2 DEF NumbersDiffer, Numbered, StillThere, GivenOut
<1>6. Unshared
  BY <1>1, <1>2, KindsDiffer DEF Unshared, Alone, Kept, Ghost, GivenOut, Writing
<1>7. Bounded
  <2>1. Taken = {} /\ Admitted = {}
    BY <1>1, <1>2 DEF Taken, Admitted, Writing
  <2>2. 0 + 0 < MAX_FILES + Cardinality(Workers)
    BY BoundFinite, TicketsAssumption
  <2>3. QED
    BY <2>1, <2>2, FS_EmptySet DEF Bounded
<1>8. QED
  BY <1>3, <1>4, <1>5, <1>6, <1>7 DEF TicketsInv

-----------------------------------------------------------------------------
(* What a step of one thread does to the others: nothing, but that they    *)
(* may lose the name of a file they have open.                             *)
OthersStay(w) ==
    \A v \in Workers \ {w} :
        /\ worker'[v].pc = worker[v].pc /\ worker'[v].post = worker[v].post
        /\ worker'[v].ticket = worker[v].ticket /\ worker'[v].rec = worker[v].rec

LEMMA OneSteps ==
    ASSUME TicketsTypeOK, NEW w \in Workers, NEW x \in WorkerStates, worker' = [worker EXCEPT ![w] = x]
    PROVE  /\ worker' \in [Workers -> WorkerStates] /\ worker'[w] = x
           /\ \A v \in Workers \ {w} : worker'[v] = worker[v]
           /\ OthersStay(w)
BY DEF TicketsTypeOK, OthersStay

LEMMA GoSteps ==
    ASSUME TicketsTypeOK, NEW w \in Workers,
           NEW pc \in {"id", "create_new", "create", "write", "rename", "remove"}, Go(w, pc)
    PROVE  /\ worker' \in [Workers -> WorkerStates] /\ worker'[w] = [worker[w] EXCEPT !.pc = pc]
           /\ \A v \in Workers \ {w} : worker'[v] = worker[v]
           /\ OthersStay(w)
BY DEF TicketsTypeOK, WorkerStates, OthersStay, Go

LEMMA DoneSteps ==
    ASSUME TicketsTypeOK, NEW w \in Workers, Done(w)
    PROVE  /\ worker' \in [Workers -> WorkerStates] /\ worker'[w] = Idle
           /\ \A v \in Workers \ {w} : worker'[v] = worker[v]
           /\ OthersStay(w)
<1>1. Idle \in WorkerStates
  BY TicketsAssumption DEF Idle, WorkerStates
<1>2. QED
  BY <1>1, OneSteps DEF Done

(* What the other threads have in hand they keep, whatever happens to w.   *)
LEMMA OthersInHand ==
    ASSUME TicketsInv, TicketsTypeOK', NEW w \in Workers, OthersStay(w), last' >= last,
           \A t \in Ids : told[t] # NoMsg => told'[t] # NoMsg, InHand(w)'
    PROVE  \A v \in Workers : InHand(v)'
<1> SUFFICES ASSUME NEW v \in Workers, v # w PROVE InHand(v)'
  OBVIOUS
<1>1. InHand(v) /\ worker[v].ticket \in Nat /\ last \in Nat /\ last' \in Nat
  BY DEF TicketsInv, TicketsTypeOK, WorkerStates
<1>2. /\ worker'[v].pc = worker[v].pc /\ worker'[v].post = worker[v].post
      /\ worker'[v].ticket = worker[v].ticket /\ worker'[v].rec = worker[v].rec
  BY DEF OthersStay
<1>3. Numbered(v)' = Numbered(v) /\ Writing(v)' = Writing(v)
  BY <1>2 DEF Numbered, Writing
<1>4. Numbered(v)' => worker'[v].ticket <= last'
  BY <1>1, <1>2, <1>3 DEF InHand
<1>5. worker'[v].pc # "idle" /\ ~worker'[v].post => told'[worker'[v].ticket] # NoMsg
  BY <1>1, <1>2 DEF InHand
<1>6. QED
  BY <1>1, <1>2, <1>3, <1>4, <1>5 DEF InHand

LEMMA NumbersStay ==
    ASSUME TicketsInv, NEW w \in Workers, OthersStay(w),
           Numbered(w)' => Numbered(w) /\ worker'[w].ticket = worker[w].ticket
    PROVE  NumbersDiffer'
<1>1. \A v \in Workers : Numbered(v)' => Numbered(v) /\ worker'[v].ticket = worker[v].ticket
  BY DEF OthersStay, Numbered
<1>2. QED
  BY <1>1 DEF TicketsInv, NumbersDiffer

LEMMA StaysThere ==
    ASSUME TicketsInv, NEW w \in Workers, OthersStay(w),
           Holds(w)' => Holds(w) /\ worker'[w].ticket = worker[w].ticket,
           \A t \in Ids : GivenOut(t)' => GivenOut(t) /\ file'[t] # None
    PROVE  StillThere'
<1>1. \A v \in Workers : Holds(v)' => Holds(v) /\ worker'[v].ticket = worker[v].ticket
  BY DEF OthersStay, Holds
<1>2. QED
  BY <1>1 DEF TicketsInv, StillThere

(* What w does to its own ticket is nothing to another one.                *)
LEMMA ElsewhereKept ==
    ASSUME TicketsInv, TicketsTypeOK', NEW w \in Workers, OthersStay(w), NEW u \in Ids, u \notin overlapped,
           worker'[w].ticket = u => ~Writing(w)', worker[w].ticket = u => ~Holds(w),
           file'[u] = file[u], tmp'[u] = tmp[u], told'[u] = told[u], (u \in deleted') = (u \in deleted),
           \A v \in Workers \ {w} : worker[v].ticket = u => worker'[v].at = worker[v].at,
           unremoved \subseteq unremoved', crashes' >= crashes
    PROVE  Alone(u)' /\ Kept(u)' /\ Ghost(u)'
<1>1. Alone(u) /\ Kept(u) /\ Ghost(u)
  BY DEF TicketsInv, Unshared
<1>2. \A v \in Workers \ {w} :
          /\ worker'[v].pc = worker[v].pc /\ worker'[v].post = worker[v].post
          /\ worker'[v].ticket = worker[v].ticket /\ worker'[v].rec = worker[v].rec
          /\ Writing(v)' = Writing(v) /\ Holds(v)' = Holds(v)
  BY DEF OthersStay, Writing, Holds
<1>3. Alone(u)'
  <2>1. \A a, b \in Workers : a # b /\ Writing(a)' /\ Writing(b)' => ~(worker'[a].ticket = u /\ worker'[b].ticket = u)
    BY <1>1, <1>2 DEF Alone
  <2>2. ASSUME NEW v \in Workers, worker'[v].ticket = u
        PROVE  /\ worker'[v].pc = "write" => worker'[v].at = "tmp" /\ tmp'[u] = Empty
               /\ worker'[v].pc = "rename" => worker'[v].at = "tmp" /\ tmp'[u] = worker'[v].rec
               /\ Writing(v)' /\ ~worker'[v].post /\ u \notin deleted' => worker'[v].rec.msg = told'[u]
    <3>1. CASE v = w
      BY <2>2, <3>1 DEF Writing
    <3>2. CASE v # w
      BY <1>1, <1>2, <2>2, <3>2 DEF Alone
    <3>3. QED
      BY <3>1, <3>2
  <2>3. QED
    BY <2>1, <2>2 DEF Alone
<1>4. Kept(u)'
  BY <1>1 DEF Kept, GivenOut
<1>5. Ghost(u)'
  <2>1. crashes' = 0 => crashes = 0
    BY DEF TicketsInv, TicketsTypeOK
  <2>2. \A v \in Workers : Holds(v) /\ worker[v].ticket = u => Holds(v)' /\ worker'[v].ticket = u
    BY <1>2
  <2>3. QED
    BY <1>1, <2>1, <2>2 DEF Ghost
<1>6. QED
  BY <1>3, <1>4, <1>5

(* A thread goes where it holds no name and writes nothing, and changes    *)
(* nothing else.                                                           *)
LEMMA AsideKeeps ==
    ASSUME TicketsInv, NEW w \in Workers, NEW x \in WorkerStates, worker' = [worker EXCEPT ![w] = x],
           x.pc \in {"idle", "count", "read", "delete"}, InHand(w)', ~Holds(w), TicketsTypeOK',
           UNCHANGED <<file, tmp, last, told, deleted>>,
           overlapped \subseteq overlapped', unremoved \subseteq unremoved', crashes' >= crashes
    PROVE  TicketsInv'
<1>1. /\ worker'[w].pc \in {"idle", "count", "read", "delete"}
      /\ OthersStay(w) /\ \A v \in Workers \ {w} : worker'[v] = worker[v]
  BY OneSteps DEF TicketsInv
<1>2. ~Numbered(w)' /\ ~Holds(w)' /\ ~Writing(w)'
  BY <1>1 DEF Numbered, Holds, Writing
<1>3. last \in Nat /\ last' >= last
  BY DEF TicketsInv, TicketsTypeOK
<1>4. \A v \in Workers : InHand(v)'
  BY <1>1, <1>3, OthersInHand
<1>5. NumbersDiffer'
  BY <1>1, <1>2, NumbersStay
<1>6. StillThere'
  <2>1. \A t \in Ids : GivenOut(t)' => GivenOut(t) /\ file'[t] # None
    BY DEF TicketsInv, StillThere, GivenOut
  <2>2. QED
    BY <1>1, <1>2, <2>1, StaysThere
<1>7. ASSUME NEW t \in Ids \ overlapped' PROVE Alone(t)' /\ Kept(t)' /\ Ghost(t)'
  BY <1>1, <1>2, ElsewhereKept
<1>8. Bounded'
  <2>1. Taken' \subseteq Taken /\ Admitted' \subseteq Admitted
    BY <1>1 DEF Taken, Admitted, Writing
  <2>2. QED
    BY <2>1, BoundShrinks DEF TicketsInv
<1>9. QED
  BY <1>4, <1>5, <1>6, <1>7, <1>8 DEF Unshared, TicketsInv

LEMMA DoneKeeps ==
    ASSUME TicketsInv, NEW w \in Workers, Done(w), ~Holds(w), TicketsTypeOK',
           UNCHANGED <<file, tmp, last, told, deleted>>,
           overlapped \subseteq overlapped', unremoved \subseteq unremoved', crashes' >= crashes
    PROVE  TicketsInv'
<1>1. Idle \in WorkerStates /\ Idle.pc = "idle"
  BY TicketsAssumption DEF Idle, WorkerStates
<1>2. worker'[w] = Idle
  BY DoneSteps DEF TicketsInv
<1>3. InHand(w)'
  BY <1>1, <1>2 DEF InHand, Writing, Numbered
<1>4. QED
  BY <1>1, <1>3, AsideKeeps DEF Done

LEMMA PostBegins == ASSUME TicketsInv, NEW w \in Workers, NEW m \in Msgs, Post(w, m) PROVE TicketsInv'
<1>1. PICK x : x = [Idle EXCEPT !.pc = "count", !.post = TRUE, !.rec.msg = m]
  OBVIOUS
<1>2. x \in WorkerStates /\ x.pc = "count" /\ x.post /\ x.rec.msg = m
  <2>1. x = [pc |-> "count", post |-> TRUE, ticket |-> 0,
             rec |-> [is |-> "record", msg |-> m, handled |-> FALSE], at |-> "gone"]
    BY <1>1 DEF Idle
  <2>2. x.rec = [is |-> "record", msg |-> m, handled |-> FALSE]
    BY <2>1
  <2>3. QED
    BY <2>1, <2>2, TicketsAssumption DEF WorkerStates
<1>3. worker' = [worker EXCEPT ![w] = x] /\ UNCHANGED <<files, last, history, bounds>>
  BY <1>1 DEF Post
<1>4. worker'[w] = x /\ worker' \in [Workers -> WorkerStates]
  BY <1>2, <1>3, OneSteps DEF TicketsInv
<1>5. InHand(w)'
  BY <1>2, <1>4 DEF InHand, Writing, Numbered
<1>6. TicketsTypeOK'
  BY <1>3, <1>4 DEF Post, TicketsInv, TicketsTypeOK, files, history, bounds
<1>7. ~Holds(w)
  BY DEF Post, Holds
<1>8. crashes' >= crashes
  BY <1>3 DEF bounds, TicketsInv, TicketsTypeOK
<1>9. QED
  BY <1>2, <1>3, <1>5, <1>6, <1>7, <1>8, AsideKeeps DEF files, history, bounds

LEMMA AdminBegins ==
    ASSUME TicketsInv, NEW w \in Workers, NEW t \in Ids, NEW pc \in {"read", "delete"}, Begin(w, pc, t)
    PROVE  TicketsInv'
<1>1. PICK x : x = [Idle EXCEPT !.pc = pc, !.ticket = t]
  OBVIOUS
<1>2. x \in WorkerStates /\ x.pc = pc /\ ~x.post /\ x.ticket = t
  <2>1. x = [pc |-> pc, post |-> FALSE, ticket |-> t,
             rec |-> [is |-> "record", msg |-> NoMsg, handled |-> FALSE], at |-> "gone"]
    BY <1>1 DEF Idle
  <2>2. t \in 0..MaxTicket
    BY TicketsAssumption DEF Ids
  <2>3. QED
    BY <2>1, <2>2 DEF WorkerStates
<1>3. worker' = [worker EXCEPT ![w] = x] /\ UNCHANGED <<files, last, posted, history, bounds>> /\ told[t] # NoMsg
  BY <1>1 DEF Begin, Known
<1>4. worker'[w] = x /\ worker' \in [Workers -> WorkerStates]
  BY <1>2, <1>3, OneSteps DEF TicketsInv
<1>5. InHand(w)'
  BY <1>2, <1>3, <1>4 DEF InHand, Writing, Numbered, history
<1>6. TicketsTypeOK'
  BY <1>3, <1>4 DEF TicketsInv, TicketsTypeOK, files, history, bounds
<1>7. ~Holds(w)
  BY DEF Begin, Holds
<1>8. crashes' >= crashes
  BY <1>3 DEF bounds, TicketsInv, TicketsTypeOK
<1>9. QED
  BY <1>2, <1>3, <1>5, <1>6, <1>7, <1>8, AsideKeeps DEF files, history, bounds

-----------------------------------------------------------------------------
(* A post finds room: it and those who write may each add one.             *)
LEMMA RoomIsForAll ==
    ASSUME TicketsInv, Cardinality(list_tickets) < MAX_FILES
    PROVE  \A w \in Workers : worker[w].pc = "count" =>
               Cardinality(Taken) + Cardinality(Admitted) + 1 < MAX_FILES + Cardinality(Workers)
<1> SUFFICES ASSUME NEW w \in Workers, worker[w].pc = "count"
             PROVE  Cardinality(Taken) + Cardinality(Admitted) + 1 < MAX_FILES + Cardinality(Workers)
  OBVIOUS
<1> DEFINE Writers == {v \in Workers : Writing(v)}
           f == [v \in Writers |-> worker[v].ticket]
           Written == {worker[v].ticket : v \in Writers}
<1>1. IsFiniteSet(Writers) /\ IsFiniteSet(list_tickets)
  BY TicketsAssumption, IdsFinite, FS_Subset DEF list_tickets
<1>2. f \in Surjection(Writers, Written)
  BY DEF Surjection
<1>3. IsFiniteSet(Written) /\ Cardinality(Written) <= Cardinality(Writers)
  BY <1>1, <1>2, FS_Surjection
<1>4. Taken \subseteq list_tickets \cup Written
  BY DEF Taken, list_tickets
<1>5. /\ Cardinality(list_tickets \cup Written) <= Cardinality(list_tickets) + Cardinality(Written)
      /\ IsFiniteSet(list_tickets \cup Written) /\ Cardinality(list_tickets \cup Written) \in Nat
  <2>1. IsFiniteSet(list_tickets \cap Written) /\ Cardinality(list_tickets \cap Written) \in Nat
    BY <1>1, FS_Subset, FS_CardinalityType
  <2>2. /\ IsFiniteSet(list_tickets \cup Written)
        /\ Cardinality(list_tickets \cup Written)
              = Cardinality(list_tickets) + Cardinality(Written) - Cardinality(list_tickets \cap Written)
    BY <1>1, <1>3, FS_Union
  <2>3. Cardinality(list_tickets) \in Nat /\ Cardinality(Written) \in Nat /\ Cardinality(list_tickets \cup Written) \in Nat
    BY <1>1, <1>3, <2>2, FS_CardinalityType
  <2>4. QED
    BY <2>1, <2>2, <2>3
<1>6. Cardinality(Taken) <= Cardinality(list_tickets \cup Written)
  BY <1>4, <1>5, FS_Subset
<1>7. Cardinality(Writers \cup Admitted) = Cardinality(Writers) + Cardinality(Admitted)
      /\ Cardinality(Writers \cup Admitted) <= Cardinality(Workers) - 1
  <2>1. Writers \cap Admitted = {}
    BY DEF Writing, Admitted
  <2>2. Writers \cup Admitted \subseteq Workers \ {w}
    BY DEF Writing, Admitted
  <2>3. IsFiniteSet(Workers \ {w}) /\ Cardinality(Workers \ {w}) = Cardinality(Workers) - 1
    BY TicketsAssumption, FS_RemoveElement
  <2>4. Cardinality(Writers \cup Admitted) = Cardinality(Writers) + Cardinality(Admitted) - Cardinality({})
    BY <1>1, <2>1, BoundFinite, FS_Union
  <2>5. Cardinality(Writers) \in Nat
    BY <1>1, FS_CardinalityType
  <2>6. Cardinality(Writers \cup Admitted) <= Cardinality(Workers \ {w})
    BY <2>2, <2>3, FS_Subset
  <2>7. QED
    BY <2>3, <2>4, <2>5, <2>6, FS_EmptySet, BoundFinite
<1>8. Cardinality(list_tickets) \in Nat /\ Cardinality(Written) \in Nat /\ Cardinality(Writers) \in Nat
  BY <1>1, <1>3, FS_CardinalityType
<1> HIDE DEF Writers, Written
<1>9. QED
  BY <1>3, <1>5, <1>6, <1>7, <1>8, BoundFinite, TicketsAssumption

(* A step of a thread that has no name and changes none of the files.      *)
LEMMA LookingOnKeeps ==
    ASSUME TicketsInv, TicketsTypeOK', NEW w \in Workers, OthersStay(w),
           \A v \in Workers \ {w} : worker'[v] = worker[v],
           ~Holds(w), ~Holds(w)', ~Numbered(w)', ~Writing(w)', InHand(w)',
           UNCHANGED <<files, last, history, bounds>>
    PROVE  (\A v \in Workers : InHand(v)') /\ NumbersDiffer' /\ StillThere' /\ Unshared'
<1>1. last' >= last /\ crashes' >= crashes
  BY DEF bounds, TicketsInv, TicketsTypeOK
<1>2. \A v \in Workers : InHand(v)'
  BY <1>1, OthersInHand DEF history
<1>3. NumbersDiffer'
  BY NumbersStay
<1>4. \A t \in Ids : GivenOut(t)' => GivenOut(t) /\ file'[t] # None
  BY DEF TicketsInv, StillThere, GivenOut, history, files
<1>5. StillThere'
  BY <1>4, StaysThere
<1>6. ASSUME NEW u \in Ids \ overlapped' PROVE Alone(u)' /\ Kept(u)' /\ Ghost(u)'
  BY <1>1, ElsewhereKept DEF files, history, bounds
<1>7. QED
  BY <1>2, <1>3, <1>5, <1>6 DEF Unshared

LEMMA CountKeeps == ASSUME TicketsInv, NEW w \in Workers, CountTickets(w) PROVE TicketsInv'
<1> USE DEF TicketsInv
<1>1. worker[w].pc = "count" /\ worker[w].post /\ UNCHANGED <<files, last, posted, history, bounds>>
  BY DEF CountTickets, InHand
<1>2. worker' \in [Workers -> WorkerStates]
  BY GoSteps, DoneSteps DEF CountTickets
<1>3. TicketsTypeOK'
  BY <1>1, <1>2 DEF TicketsTypeOK, files, history, bounds
<1>4. CASE Done(w)
  <2>1. ~Holds(w) /\ crashes' >= crashes
    BY <1>1 DEF Holds, TicketsTypeOK, bounds
  <2>2. QED
    BY <1>1, <1>3, <1>4, <2>1, DoneKeeps DEF files, history, bounds
<1>5. CASE Cardinality(list_tickets) < MAX_FILES /\ Go(w, "id")
  <2>1. /\ worker'[w] = [worker[w] EXCEPT !.pc = "id"]
        /\ \A v \in Workers \ {w} : worker'[v] = worker[v]
    BY <1>5, GoSteps
  <2>2. worker'[w].pc = "id" /\ worker'[w].post /\ worker'[w].rec = worker[w].rec /\ worker'[w].ticket = worker[w].ticket
    BY <1>1, <2>1 DEF TicketsTypeOK, WorkerStates
  <2>3. OthersStay(w) /\ ~Holds(w)' /\ ~Numbered(w)' /\ ~Writing(w)' /\ ~Holds(w) /\ InHand(w)'
    BY <1>1, <1>5, <2>2, GoSteps DEF Holds, Numbered, Writing, InHand
  <2>4. /\ \A v \in Workers : InHand(v)'
        /\ NumbersDiffer' /\ StillThere' /\ Unshared'
    BY <1>1, <1>3, <2>1, <2>3, LookingOnKeeps
  <2>6. Taken' \subseteq Taken /\ Admitted' = Admitted \cup {w} /\ w \notin Admitted
    BY <1>1, <2>1, <2>2 DEF Taken, Admitted, Writing, files
  <2>7. Cardinality(Admitted') = Cardinality(Admitted) + 1
    BY <2>6, BoundFinite, FS_AddElement
  <2>8. Cardinality(Taken') \in Nat /\ Cardinality(Taken') <= Cardinality(Taken)
    BY <2>6, BoundFinite, FS_Subset, FS_CardinalityType
  <2>9. Bounded'
    BY <1>1, <1>5, <2>7, <2>8, RoomIsForAll, BoundFinite, TicketsAssumption DEF Bounded
  <2>10. QED
    BY <1>3, <2>4, <2>9
<1>6. QED
  BY <1>4, <1>5 DEF CountTickets

(* A number is higher than all that are in hand.                           *)
LEMMA NumberKeeps == ASSUME TicketsInv, NEW w \in Workers, ticket_id(w) PROVE TicketsInv'
<1> USE DEF TicketsInv
<1>1. /\ worker[w].pc = "id" /\ worker[w].post /\ UNCHANGED <<files, posted, history, bounds>>
      /\ last' \in Ids /\ last' > last /\ last \in Nat
      /\ worker' = [worker EXCEPT ![w].pc = "create_new", ![w].ticket = last']
  <2>1. worker[w].pc = "id" /\ worker[w].post /\ UNCHANGED <<files, posted, history, bounds>> /\ last \in Nat
    BY DEF ticket_id, InHand, TicketsTypeOK
  <2>2. PICK clock \in 0..MaxTicket :
            /\ last' = IF clock > last THEN clock ELSE last + 1
            /\ last' \in Ids
            /\ worker' = [worker EXCEPT ![w].pc = "create_new", ![w].ticket = last']
    BY DEF ticket_id
  <2>3. last' > last
    BY <2>1, <2>2
  <2>4. QED
    BY <2>1, <2>2, <2>3
<1>2. PICK x : x = [worker[w] EXCEPT !.pc = "create_new", !.ticket = last']
  OBVIOUS
<1>3. x \in WorkerStates /\ x.pc = "create_new" /\ x.post /\ x.ticket = last' /\ x.rec = worker[w].rec
  <2>1. worker[w] \in WorkerStates /\ last' \in 0..MaxTicket
    BY <1>1 DEF TicketsTypeOK, Ids
  <2>2. QED
    BY <1>1, <1>2, <2>1 DEF WorkerStates
<1>4. worker' = [worker EXCEPT ![w] = x]
  BY <1>1, <1>2 DEF TicketsTypeOK
<1>5. worker' \in [Workers -> WorkerStates] /\ worker'[w] = x /\ \A v \in Workers \ {w} : worker'[v] = worker[v]
  BY <1>3, <1>4, OneSteps
<1>6. TicketsTypeOK'
  BY <1>1, <1>5 DEF TicketsTypeOK, files, history, bounds, Ids
<1>7. OthersStay(w) /\ ~Holds(w) /\ ~Holds(w)' /\ ~Writing(w)' /\ InHand(w)
  BY <1>1, <1>3, <1>4, <1>5, OneSteps DEF Holds, Writing
<1>8. InHand(w)'
  BY <1>1, <1>3, <1>5, <1>7 DEF InHand, Writing, Numbered, Ids
<1>9. \A v \in Workers : InHand(v)'
  <2>1. last' >= last /\ told' = told
    BY <1>1, IdsFinite DEF history
  <2>2. QED
    BY <1>6, <1>7, <1>8, <2>1, OthersInHand
<1>10. NumbersDiffer'
  <2>1. ASSUME NEW v \in Workers, Numbered(v) PROVE worker[v].ticket # last'
    <3>1. worker[v].ticket \in Nat /\ worker[v].ticket <= last /\ last' \in Nat
      BY <1>1, <2>1, IdsFinite DEF TicketsTypeOK, WorkerStates, InHand
    <3>2. QED
      BY <1>1, <3>1
  <2>2. QED
    BY <1>3, <1>5, <2>1 DEF NumbersDiffer, Numbered
<1>11. StillThere'
  BY <1>1, <1>7, StaysThere DEF StillThere, GivenOut, files, history
<1>12. ASSUME NEW u \in Ids \ overlapped' PROVE Alone(u)' /\ Kept(u)' /\ Ghost(u)'
  <2>1. crashes' >= crashes
    BY <1>1 DEF bounds, TicketsTypeOK
  <2>2. QED
    BY <1>1, <1>5, <1>6, <1>7, <2>1, ElsewhereKept DEF files, history, bounds
<1>13. Bounded'
  <2>1. Taken' \subseteq Taken /\ Admitted' \subseteq Admitted
    BY <1>1, <1>3, <1>5 DEF Taken, Admitted, Writing, files
  <2>2. QED
    BY <2>1, BoundShrinks
<1>14. QED
  BY <1>6, <1>9, <1>10, <1>11, <1>12, <1>13 DEF Unshared

-----------------------------------------------------------------------------
(* Files that go, and writers that give up.                                *)

LEMMA IdleHoldsNothing == Idle \in WorkerStates /\ Idle.pc = "idle" /\ Idle.ticket = 0 /\ ~Idle.post
BY TicketsAssumption DEF Idle, WorkerStates

LEMMA IdleIsFree ==
    ASSUME NEW w \in Workers, worker'[w] = Idle
    PROVE  /\ InHand(w)' /\ ~Holds(w)' /\ ~Numbered(w)' /\ ~Writing(w)'
           /\ worker'[w].ticket \notin Ids /\ worker'[w].pc = "idle"
BY IdleHoldsNothing, IdsFinite DEF InHand, Holds, Numbered, Writing

LEMMA UnnamedSteps ==
    ASSUME TicketsTypeOK, NEW w \in Workers, NEW t \in Ids, worker' = Unnamed(w, t)
    PROVE  /\ worker' \in [Workers -> WorkerStates] /\ worker'[w] = Idle /\ OthersStay(w)
           /\ \A v \in Workers \ {w} : worker[v].at = "tmp" \/ worker[v].ticket # t => worker'[v].at = worker[v].at
<1>1. worker \in [Workers -> WorkerStates]
  BY DEF TicketsTypeOK
<1>2. \A v \in Workers : [worker[v] EXCEPT !.at = "gone"] \in WorkerStates
  BY <1>1 DEF WorkerStates
<1>3. worker' \in [Workers -> WorkerStates] /\ worker'[w] = Idle
  BY <1>1, <1>2, IdleHoldsNothing DEF Unnamed
<1>4. ASSUME NEW v \in Workers \ {w}
      PROVE  /\ worker'[v].pc = worker[v].pc /\ worker'[v].post = worker[v].post
             /\ worker'[v].ticket = worker[v].ticket /\ worker'[v].rec = worker[v].rec
             /\ worker[v].at = "tmp" \/ worker[v].ticket # t => worker'[v].at = worker[v].at
  <2>1. worker'[v] = IF worker[v].ticket = t /\ worker[v].at = "file" THEN [worker[v] EXCEPT !.at = "gone"] ELSE worker[v]
    BY DEF Unnamed
  <2>2. worker[v] \in WorkerStates
    BY <1>1
  <2>3. QED
    BY <2>1, <2>2 DEF WorkerStates
<1>5. QED
  BY <1>3, <1>4 DEF OthersStay

(* A writer less: the others of its ticket are as alone as before.         *)
LEMMA AloneWithout ==
    ASSUME NEW w \in Workers, NEW t \in Ids, OthersStay(w), Alone(t), ~Writing(w)', tmp'[t] = tmp[t], told'[t] = told[t],
           t \in deleted => t \in deleted',
           \A v \in Workers \ {w} : worker[v].at = "tmp" => worker'[v].at = "tmp"
    PROVE  Alone(t)'
<1>1. \A v \in Workers \ {w} :
          /\ worker'[v].pc = worker[v].pc /\ worker'[v].post = worker[v].post
          /\ worker'[v].ticket = worker[v].ticket /\ worker'[v].rec = worker[v].rec
          /\ Writing(v)' = Writing(v)
  BY DEF OthersStay, Writing
<1>2. \A a, b \in Workers : a # b /\ Writing(a)' /\ Writing(b)' => ~(worker'[a].ticket = t /\ worker'[b].ticket = t)
  BY <1>1 DEF Alone
<1>3. ASSUME NEW v \in Workers, worker'[v].ticket = t
      PROVE  /\ worker'[v].pc = "write" => worker'[v].at = "tmp" /\ tmp'[t] = Empty
             /\ worker'[v].pc = "rename" => worker'[v].at = "tmp" /\ tmp'[t] = worker'[v].rec
             /\ Writing(v)' /\ ~worker'[v].post /\ t \notin deleted' => worker'[v].rec.msg = told'[t]
  <2>1. CASE v = w
    BY <2>1 DEF Writing
  <2>2. CASE v # w
    BY <1>1, <1>3, <2>2 DEF Alone
  <2>3. QED
    BY <2>1, <2>2
<1>4. QED
  BY <1>2, <1>3 DEF Alone

(* A file is removed that is not, or no longer, a ticket's.                *)
LEMMA FileGoes ==
    ASSUME TicketsInv, TicketsTypeOK', NEW w \in Workers, NEW t \in Ids, worker[w].ticket = t,
           file' = [file EXCEPT ![t] = None], worker' = Unnamed(w, t),
           UNCHANGED <<tmp, last, told, overlapped, unremoved>>, deleted' \in {deleted, deleted \cup {t}},
           ~GivenOut(t)', crashes' >= crashes
    PROVE  TicketsInv'
<1>1. worker'[w] = Idle /\ OthersStay(w)
      /\ \A v \in Workers \ {w} : worker[v].at = "tmp" \/ worker[v].ticket # t => worker'[v].at = worker[v].at
  BY UnnamedSteps DEF TicketsInv
<1>2. /\ InHand(w)' /\ ~Holds(w)' /\ ~Numbered(w)' /\ ~Writing(w)' /\ worker'[w].ticket \notin Ids /\ worker'[w].pc = "idle"
  BY <1>1, IdleIsFree
<1>3. file'[t] = None /\ \A u \in Ids \ {t} : file'[u] = file[u]
  BY DEF TicketsInv, TicketsTypeOK
<1>4. last' >= last
  BY DEF TicketsInv, TicketsTypeOK
<1>5. \A v \in Workers : InHand(v)'
  BY <1>1, <1>2, <1>4, OthersInHand
<1>6. NumbersDiffer'
  BY <1>1, <1>2, NumbersStay
<1>7. StillThere'
  <2>1. \A u \in Ids : GivenOut(u)' => GivenOut(u) /\ file'[u] # None
    BY <1>3 DEF TicketsInv, StillThere, GivenOut
  <2>2. QED
    BY <1>1, <1>2, <2>1, StaysThere
<1>8. ASSUME NEW u \in Ids \ overlapped' PROVE Alone(u)' /\ Kept(u)' /\ Ghost(u)'
  <2>1. CASE u = t
    <3>1. Alone(u)'
      BY <1>1, <1>2, <2>1, AloneWithout DEF TicketsInv, Unshared
    <3>2. Kept(u)' /\ Ghost(u)'
      BY <1>3, <2>1 DEF Kept, Ghost
    <3>3. QED
      BY <3>1, <3>2
  <2>2. CASE u # t
    BY <1>1, <1>2, <1>3, <2>2, ElsewhereKept
  <2>3. QED
    BY <2>1, <2>2
<1>9. Bounded'
  <2>1. Taken' \subseteq Taken
    BY <1>1, <1>2, <1>3 DEF Taken, Writing, OthersStay
  <2>2. Admitted' \subseteq Admitted
    BY <1>1, <1>2 DEF Admitted, OthersStay
  <2>3. QED
    BY <2>1, <2>2, BoundShrinks DEF TicketsInv
<1>10. QED
  BY <1>5, <1>6, <1>7, <1>8, <1>9 DEF Unshared, TicketsInv

LEMMA RemoveKeeps == ASSUME TicketsInv, NEW w \in Workers, remove_file(w) PROVE TicketsInv'
<1>0. PICK t : t = worker[w].ticket
  OBVIOUS
<1>1. worker[w].pc = "remove" /\ worker[w].post /\ t \in Ids /\ Holds(w) /\ ~GivenOut(t)
  BY <1>0 DEF remove_file, TicketsInv, InHand, Holds, StillThere
<1>2. UNCHANGED <<tmp, last, posted, told, deleted, overlapped>> /\ ~GivenOut(t)'
  BY <1>1 DEF remove_file, GivenOut
<1>3. CASE file' = [file EXCEPT ![t] = None] /\ worker' = Unnamed(w, t) /\ UNCHANGED <<unremoved, bounds>>
  <2>1. worker' \in [Workers -> WorkerStates]
    BY <1>1, <1>3, UnnamedSteps DEF TicketsInv
  <2>2. TicketsTypeOK' /\ crashes' >= crashes
    BY <1>1, <1>2, <1>3, <2>1 DEF TicketsInv, TicketsTypeOK, Contents, bounds
  <2>3. QED
    BY <1>0, <1>1, <1>2, <1>3, <2>2, FileGoes
<1>4. CASE Fail /\ unremoved' = unremoved \cup {t} /\ Done(w) /\ UNCHANGED file
  <2>1. worker' \in [Workers -> WorkerStates] /\ worker'[w] = Idle /\ OthersStay(w) /\ \A v \in Workers \ {w} : worker'[v] = worker[v]
    BY <1>4, DoneSteps DEF TicketsInv
  <2>2. /\ InHand(w)' /\ ~Holds(w)' /\ ~Numbered(w)' /\ ~Writing(w)' /\ worker'[w].ticket \notin Ids /\ worker'[w].pc = "idle"
    BY <2>1, IdleIsFree
  <2>3. TicketsTypeOK' /\ crashes' >= crashes /\ last' >= last
    BY <1>1, <1>2, <1>4, <2>1 DEF TicketsInv, TicketsTypeOK, Fail
  <2>4. \A v \in Workers : InHand(v)'
    BY <1>2, <2>1, <2>2, <2>3, OthersInHand
  <2>5. NumbersDiffer'
    BY <2>1, <2>2, NumbersStay
  <2>6. StillThere'
    <3>1. \A u \in Ids : GivenOut(u)' => GivenOut(u) /\ file'[u] # None
      BY <1>2, <1>4 DEF TicketsInv, StillThere, GivenOut
    <3>2. QED
      BY <2>1, <2>2, <3>1, StaysThere
  <2>7. ASSUME NEW u \in Ids \ overlapped' PROVE Alone(u)' /\ Kept(u)' /\ Ghost(u)'
    <3>1. CASE u = t
      <4>1. Alone(u)'
        BY <1>2, <2>1, <2>2, <3>1, AloneWithout DEF TicketsInv, Unshared
      <4>2. Kept(u)' /\ Ghost(u)'
        BY <1>2, <1>4, <3>1 DEF Kept, Ghost
      <4>3. QED
        BY <4>1, <4>2
    <3>2. CASE u # t
      BY <1>0, <1>2, <1>4, <2>1, <2>2, <2>3, <3>2, ElsewhereKept
    <3>3. QED
      BY <3>1, <3>2
  <2>8. Bounded'
    <3>1. Taken' \subseteq Taken /\ Admitted' \subseteq Admitted
      BY <1>4, <2>1, <2>2 DEF Taken, Admitted, Writing
    <3>2. QED
      BY <3>1, BoundShrinks DEF TicketsInv
  <2>9. QED
    BY <2>3, <2>4, <2>5, <2>6, <2>7, <2>8 DEF Unshared, TicketsInv
<1>5. QED
  BY <1>0, <1>3, <1>4 DEF remove_file

LEMMA DeleteKeeps == ASSUME TicketsInv, NEW w \in Workers, delete(w) PROVE TicketsInv'
<1>0. PICK t : t = worker[w].ticket
  OBVIOUS
<1>1. worker[w].pc = "delete" /\ t \in Ids /\ ~Holds(w)
  BY <1>0 DEF delete, TicketsInv, InHand, Holds
<1>2. UNCHANGED <<tmp, last, posted, told, overlapped, unremoved>>
  BY DEF delete
<1>3. CASE file[t] # None /\ file' = [file EXCEPT ![t] = None] /\ deleted' = deleted \cup {t}
           /\ worker' = Unnamed(w, t) /\ UNCHANGED bounds
  <2>1. worker' \in [Workers -> WorkerStates]
    BY <1>1, <1>3, UnnamedSteps DEF TicketsInv
  <2>2. TicketsTypeOK' /\ crashes' >= crashes
    BY <1>1, <1>2, <1>3, <2>1 DEF TicketsInv, TicketsTypeOK, Contents, bounds
  <2>3. ~GivenOut(t)'
    BY <1>3 DEF GivenOut
  <2>4. QED
    BY <1>0, <1>1, <1>2, <1>3, <2>2, <2>3, FileGoes
<1>4. CASE (IF file[t] = None THEN UNCHANGED bounds ELSE Fail) /\ Done(w) /\ UNCHANGED <<file, deleted>>
  <2>1. worker' \in [Workers -> WorkerStates]
    BY <1>4, DoneSteps DEF TicketsInv
  <2>2. faults' \in Nat /\ crashes' = crashes /\ crashes \in Nat
    BY <1>4 DEF TicketsInv, TicketsTypeOK, Fail, bounds
  <2>3. TicketsTypeOK' /\ crashes' >= crashes
    BY <1>2, <1>4, <2>1, <2>2 DEF TicketsInv, TicketsTypeOK
  <2>4. QED
    BY <1>1, <1>2, <1>4, <2>3, DoneKeeps
<1>5. QED
  BY <1>0, <1>3, <1>4 DEF delete

-----------------------------------------------------------------------------
(* Writers.                                                                *)

(* A step of w to x about its own ticket t: what is left to show is about  *)
(* t alone.                                                                *)
LEMMA OwnTicketKeeps ==
    ASSUME TicketsInv, TicketsTypeOK', NEW w \in Workers, NEW t \in Ids, worker[w].ticket = t,
           OthersStay(w), \A v \in Workers \ {w} : worker[v].ticket # t => worker'[v].at = worker[v].at,
           InHand(w)', worker'[w].ticket = t \/ worker'[w].pc = "idle",
           Numbered(w)' => Numbered(w) /\ worker'[w].ticket = t,
           UNCHANGED <<last, unremoved>>, crashes' >= crashes, overlapped \subseteq overlapped',
           \A u \in Ids \ {t} : /\ file'[u] = file[u] /\ tmp'[u] = tmp[u] /\ told'[u] = told[u]
                                /\ (u \in deleted') = (u \in deleted),
           told[t] # NoMsg => told'[t] # NoMsg,
           GivenOut(t)' => file'[t] # None /\ \A v \in Workers : Holds(v)' => worker'[v].ticket # t,
           t \notin overlapped' => Alone(t)' /\ Kept(t)' /\ Ghost(t)'
    PROVE  /\ \A v \in Workers : InHand(v)'
           /\ NumbersDiffer' /\ StillThere' /\ Unshared'
<1>1. last' >= last
  BY DEF TicketsInv, TicketsTypeOK
<1>2. \A v \in Workers : InHand(v)'
  <2>1. \A u \in Ids : told[u] # NoMsg => told'[u] # NoMsg
    OBVIOUS
  <2>2. QED
    BY <1>1, <2>1, OthersInHand
<1>3. NumbersDiffer'
  BY NumbersStay
<1>4. ASSUME NEW u \in Ids \ {t}, GivenOut(u)'
      PROVE  file'[u] # None /\ \A v \in Workers : Holds(v)' => worker'[v].ticket # u
  <2>1. GivenOut(u)
    BY <1>4 DEF GivenOut
  <2>2. file[u] # None /\ \A v \in Workers : Holds(v) => worker[v].ticket # u
    BY <2>1 DEF TicketsInv, StillThere
  <2>3. Holds(w)' => worker'[w].ticket = t
    BY DEF Holds
  <2>4. \A v \in Workers \ {w} : Holds(v)' = Holds(v) /\ worker'[v].ticket = worker[v].ticket
    BY DEF OthersStay, Holds
  <2>5. QED
    BY <2>2, <2>3, <2>4
<1>5. StillThere'
  BY <1>4 DEF StillThere
<1>6. ASSUME NEW u \in Ids \ overlapped', u # t PROVE Alone(u)' /\ Kept(u)' /\ Ghost(u)'
  <2>1. worker'[w].ticket = u => ~Writing(w)'
    BY <1>6 DEF Writing
  <2>2. QED
    BY <1>6, <2>1, ElsewhereKept
<1>7. Unshared'
  BY <1>6 DEF Unshared
<1>8. QED
  BY <1>2, <1>3, <1>5, <1>7

LEMMA Written ==
    ASSUME TicketsInv, NEW w \in Workers, Writing(w)
    PROVE  /\ worker[w].ticket \in Ids /\ worker[w].rec \in Records
           /\ worker[w].post => Numbered(w) /\ Holds(w)
           /\ worker[w].ticket \in Taken /\ w \notin Admitted
           /\ GivenOut(worker[w].ticket) => ~worker[w].post
BY DEF TicketsInv, InHand, Writing, Holds, Numbered, Taken, Admitted, StillThere

(* Nothing is admitted, and nothing taken that was not.                    *)
LEMMA WriterStaysBounded ==
    ASSUME TicketsInv, NEW w \in Workers, NEW t \in Ids, t \in Taken, OthersStay(w),
           worker'[w].pc \notin {"id", "create_new"},
           worker'[w].ticket = t \/ ~Writing(w)', \A u \in Ids \ {t} : file'[u] = file[u]
    PROVE  Bounded'
<1>1. Taken' \subseteq Taken
  BY DEF Taken, OthersStay, Writing
<1>2. Admitted' \subseteq Admitted
  BY DEF Admitted, OthersStay
<1>3. QED
  BY <1>1, <1>2, BoundShrinks DEF TicketsInv

LEMMA GiveUpKeeps ==
    ASSUME TicketsInv, NEW w \in Workers, Writing(w), GiveUp(w), TicketsTypeOK',
           UNCHANGED <<files, last, history>>, crashes' >= crashes
    PROVE  TicketsInv'
<1>0. PICK t : t = worker[w].ticket
  OBVIOUS
<1>1. t \in Ids /\ t \in Taken
  BY <1>0, Written
<1>2. CASE ~worker[w].post
  BY <1>2, DoneKeeps DEF GiveUp, Holds, files, history
<1>3. CASE worker[w].post
  <2>1. /\ worker'[w] = [worker[w] EXCEPT !.pc = "remove"] /\ OthersStay(w)
        /\ \A v \in Workers \ {w} : worker'[v] = worker[v]
    BY <1>3, GoSteps DEF GiveUp, TicketsInv
  <2>2. /\ worker'[w].pc = "remove" /\ worker'[w].post /\ worker'[w].ticket = t
        /\ worker'[w].rec = worker[w].rec
    BY <1>0, <1>3, <2>1 DEF TicketsInv, TicketsTypeOK, WorkerStates
  <2>3. Holds(w) /\ Numbered(w) /\ Holds(w)' /\ ~Writing(w)'
    BY <1>3, <2>2, Written DEF Holds, Writing
  <2>4. InHand(w)'
    BY <1>0, <1>1, <1>3, <2>2, <2>3 DEF TicketsInv, InHand, Writing, Numbered
  <2>5. ~GivenOut(t)'
    BY <1>0, <1>1, <2>3 DEF TicketsInv, StillThere, GivenOut, history
  <2>6. ASSUME t \notin overlapped' PROVE Alone(t)' /\ Kept(t)' /\ Ghost(t)'
    <3>1. Alone(t)
      BY <1>1, <2>6 DEF TicketsInv, Unshared, history
    <3>2. Alone(t)'
      BY <1>1, <2>1, <2>3, <3>1, AloneWithout DEF files, history
    <3>3. QED
      BY <2>2, <2>3, <2>5, <3>2 DEF Kept, Ghost
  <2>7. /\ \A v \in Workers : InHand(v)'
        /\ NumbersDiffer' /\ StillThere' /\ Unshared'
    BY <1>0, <1>1, <2>1, <2>2, <2>3, <2>4, <2>5, <2>6, OwnTicketKeeps DEF files, history
  <2>8. Bounded'
    BY <1>1, <2>1, <2>2, WriterStaysBounded DEF files
  <2>9. QED
    BY <2>7, <2>8 DEF TicketsInv
<1>4. QED
  BY <1>2, <1>3

LEMMA GiveUpSteps ==
    ASSUME TicketsTypeOK, NEW w \in Workers, GiveUp(w)
    PROVE  worker' \in [Workers -> WorkerStates]
BY GoSteps, DoneSteps DEF GiveUp

LEMMA CreateTmpKeeps == ASSUME TicketsInv, NEW w \in Workers, CreateTmp(w) PROVE TicketsInv'
<1>0. PICK t : t = worker[w].ticket
  OBVIOUS
<1>1. worker[w].pc = "create" /\ Writing(w) /\ UNCHANGED <<file, last, posted, history>>
  BY DEF CreateTmp, Writing
<1>2. t \in Ids /\ worker[w].rec \in Records /\ t \in Taken /\ (worker[w].post => Numbered(w) /\ Holds(w))
  BY <1>0, <1>1, Written
<1>3. CASE tmp' = [tmp EXCEPT ![t] = Empty] /\ worker' = [worker EXCEPT ![w].pc = "write", ![w].at = "tmp"]
           /\ UNCHANGED bounds
  <2>1. PICK x : x = [worker[w] EXCEPT !.pc = "write", !.at = "tmp"]
    OBVIOUS
  <2>2. /\ x \in WorkerStates /\ x.pc = "write" /\ x.at = "tmp"
        /\ x.post = worker[w].post /\ x.ticket = t /\ x.rec = worker[w].rec
    BY <1>0, <2>1 DEF TicketsInv, TicketsTypeOK, WorkerStates
  <2>3. worker' = [worker EXCEPT ![w] = x]
    BY <1>3, <2>1 DEF TicketsInv, TicketsTypeOK
  <2>4. worker' \in [Workers -> WorkerStates] /\ worker'[w] = x /\ OthersStay(w) /\ \A v \in Workers \ {w} : worker'[v] = worker[v]
    BY <2>2, <2>3, OneSteps DEF TicketsInv
  <2>5. tmp'[t] = Empty /\ (\A u \in Ids \ {t} : tmp'[u] = tmp[u]) /\ crashes' >= crashes /\ TicketsTypeOK'
    BY <1>1, <1>2, <1>3, <2>4 DEF TicketsInv, TicketsTypeOK, Contents, bounds, history
  <2>6. Writing(w)' /\ (Numbered(w)' => Numbered(w)) /\ (Holds(w)' = Holds(w)) /\ (Holds(w)' => Numbered(w))
    BY <1>1, <2>2, <2>4 DEF Writing, Numbered, Holds
  <2>7. InHand(w)'
    BY <1>0, <1>1, <1>2, <2>2, <2>4, <2>6 DEF TicketsInv, InHand, Numbered, history
  <2>8. GivenOut(t)' => file'[t] # None /\ \A v \in Workers : Holds(v)' => worker'[v].ticket # t
    <3>1. GivenOut(t) => file[t] # None /\ \A v \in Workers : Holds(v) => worker[v].ticket # t
      BY <1>2 DEF TicketsInv, StillThere
    <3>2. \A v \in Workers : Holds(v)' = Holds(v) /\ worker'[v].ticket = worker[v].ticket
      BY <1>0, <2>2, <2>4, <2>6 DEF Holds
    <3>3. QED
      BY <1>1, <3>1, <3>2 DEF GivenOut, history
  <2>9. ASSUME t \notin overlapped' PROVE Alone(t)' /\ Kept(t)' /\ Ghost(t)'
    <3>1. Alone(t) /\ Kept(t) /\ Ghost(t)
      BY <1>1, <1>2, <2>9 DEF TicketsInv, Unshared, history
    <3>2. \A v \in Workers \ {w} : Writing(v) => worker[v].ticket # t
      BY <1>0, <1>1, <3>1 DEF Alone
    <3>3. Alone(t)'
      BY <1>0, <1>1, <2>2, <2>4, <2>5, <3>1, <3>2 DEF Alone, Writing, history
    <3>4. Kept(t)'
      BY <1>1, <3>1 DEF Kept, GivenOut, history
    <3>5. Ghost(t)'
      <4>1. \A v \in Workers : Holds(v)' = Holds(v) /\ worker'[v].ticket = worker[v].ticket
        BY <1>0, <2>2, <2>4, <2>6 DEF Holds
      <4>2. QED
        BY <1>1, <1>3, <3>1, <4>1 DEF Ghost, history, bounds
    <3>6. QED
      BY <3>3, <3>4, <3>5
  <2>10. /\ \A v \in Workers : InHand(v)'
         /\ NumbersDiffer' /\ StillThere' /\ Unshared'
    BY <1>0, <1>1, <1>2, <2>2, <2>4, <2>5, <2>6, <2>7, <2>8, <2>9, OwnTicketKeeps DEF history
  <2>11. Bounded'
    BY <1>1, <1>2, <2>2, <2>4, WriterStaysBounded
  <2>12. QED
    BY <2>5, <2>10, <2>11 DEF TicketsInv
<1>4. CASE Fail /\ GiveUp(w) /\ UNCHANGED tmp
  <2>1. TicketsTypeOK' /\ crashes' >= crashes
    BY <1>1, <1>4, GiveUpSteps DEF TicketsInv, TicketsTypeOK, history, Fail
  <2>2. QED
    BY <1>1, <1>4, <2>1, GiveUpKeeps DEF files
<1>5. QED
  BY <1>0, <1>3, <1>4 DEF CreateTmp

LEMMA WriteTmpKeeps == ASSUME TicketsInv, NEW w \in Workers, WriteTmp(w) PROVE TicketsInv'
<1>0. PICK t : t = worker[w].ticket
  OBVIOUS
<1>1. worker[w].pc = "write" /\ Writing(w) /\ UNCHANGED <<last, posted, history>>
  BY DEF WriteTmp, Writing
<1>2. t \in Ids /\ worker[w].rec \in Records /\ t \in Taken /\ (worker[w].post => Numbered(w) /\ Holds(w))
  BY <1>0, <1>1, Written
<1>3. CASE /\ tmp' = IF worker[w].at = "tmp" THEN [tmp EXCEPT ![t] = Over(@, worker[w].rec)] ELSE tmp
           /\ file' = IF worker[w].at = "file" THEN [file EXCEPT ![t] = Over(@, worker[w].rec)] ELSE file
           /\ Go(w, "rename") /\ UNCHANGED bounds
  <2>1. worker' \in [Workers -> WorkerStates] /\ worker'[w] = [worker[w] EXCEPT !.pc = "rename"]
        /\ OthersStay(w) /\ \A v \in Workers \ {w} : worker'[v] = worker[v]
    BY <1>3, GoSteps DEF TicketsInv
  <2>2. /\ worker'[w].pc = "rename" /\ worker'[w].at = worker[w].at
        /\ worker'[w].post = worker[w].post /\ worker'[w].ticket = t /\ worker'[w].rec = worker[w].rec
    BY <1>0, <2>1 DEF TicketsInv, TicketsTypeOK, WorkerStates
  <2>3. ASSUME NEW old PROVE /\ Over(old, worker[w].rec) \in Contents \ {None}
                             /\ Over(Empty, worker[w].rec) = worker[w].rec
    BY <1>2, KindsDiffer DEF Over, Contents
  <2>4. file \in [Ids -> Contents] /\ tmp \in [Ids -> Contents]
    BY DEF TicketsInv, TicketsTypeOK
  <2>5. /\ file' \in [Ids -> Contents] /\ (\A u \in Ids \ {t} : file'[u] = file[u])
        /\ file[t] # None => file'[t] # None
        /\ worker[w].at = "tmp" => file' = file
    BY <1>2, <1>3, <2>3, <2>4
  <2>6. /\ tmp' \in [Ids -> Contents] /\ (\A u \in Ids \ {t} : tmp'[u] = tmp[u])
        /\ worker[w].at = "tmp" /\ tmp[t] = Empty => tmp'[t] = worker[w].rec
    BY <1>2, <1>3, <2>3, <2>4
  <2>7. TicketsTypeOK' /\ crashes' >= crashes
    BY <1>1, <1>3, <2>1, <2>5, <2>6 DEF TicketsInv, TicketsTypeOK, bounds, history
  <2>8. Writing(w)' /\ (Numbered(w)' => Numbered(w)) /\ (Holds(w)' = Holds(w))
    BY <1>1, <2>2 DEF Writing, Numbered, Holds
  <2>9. InHand(w)'
    BY <1>0, <1>1, <1>2, <2>2, <2>8 DEF TicketsInv, InHand, Numbered, history
  <2>10. \A v \in Workers : Holds(v)' = Holds(v) /\ worker'[v].ticket = worker[v].ticket
    BY <1>0, <2>1, <2>2, <2>8 DEF Holds
  <2>11. GivenOut(t)' => file'[t] # None /\ \A v \in Workers : Holds(v)' => worker'[v].ticket # t
    <3>1. GivenOut(t) => file[t] # None /\ \A v \in Workers : Holds(v) => worker[v].ticket # t
      BY <1>2 DEF TicketsInv, StillThere
    <3>2. QED
      BY <1>1, <2>5, <2>10, <3>1 DEF GivenOut, history
  <2>12. ASSUME t \notin overlapped' PROVE Alone(t)' /\ Kept(t)' /\ Ghost(t)'
    <3>1. Alone(t) /\ Kept(t) /\ Ghost(t)
      BY <1>1, <1>2, <2>12 DEF TicketsInv, Unshared, history
    <3>2. worker[w].at = "tmp" /\ tmp[t] = Empty /\ \A v \in Workers \ {w} : Writing(v) => worker[v].ticket # t
      BY <1>0, <1>1, <3>1 DEF Alone
    <3>3. file' = file /\ tmp'[t] = worker[w].rec
      BY <2>5, <2>6, <3>2
    <3>4. Alone(t)'
      <4>1. \A v \in Workers \ {w} : Writing(v)' => worker'[v].ticket # t
        BY <2>1, <3>2 DEF Writing
      <4>2. /\ worker'[w].pc = "rename" /\ worker'[w].at = "tmp" /\ tmp'[t] = worker'[w].rec
            /\ ~worker'[w].post /\ t \notin deleted' => worker'[w].rec.msg = told'[t]
        BY <1>0, <1>1, <2>2, <3>1, <3>2, <3>3 DEF Alone, history
      <4>3. QED
        BY <4>1, <4>2 DEF Alone, Writing
    <3>5. Kept(t)'
      BY <1>1, <3>1, <3>3 DEF Kept, GivenOut, history
    <3>6. Ghost(t)'
      BY <1>1, <1>3, <2>10, <3>1, <3>3 DEF Ghost, history, bounds
    <3>7. QED
      BY <3>4, <3>5, <3>6
  <2>13. /\ \A v \in Workers : InHand(v)'
         /\ NumbersDiffer' /\ StillThere' /\ Unshared'
    BY <1>0, <1>1, <1>2, <2>1, <2>2, <2>5, <2>6, <2>7, <2>8, <2>9, <2>11, <2>12, OwnTicketKeeps DEF history
  <2>14. Bounded'
    BY <1>2, <2>1, <2>2, <2>5, WriterStaysBounded
  <2>15. QED
    BY <2>7, <2>13, <2>14 DEF TicketsInv
<1>4. CASE Fail /\ GiveUp(w) /\ UNCHANGED files
  <2>1. TicketsTypeOK' /\ crashes' >= crashes
    BY <1>1, <1>4, GiveUpSteps DEF TicketsInv, TicketsTypeOK, history, Fail, files
  <2>2. QED
    BY <1>1, <1>4, <2>1, GiveUpKeeps
<1>5. QED
  BY <1>0, <1>3, <1>4 DEF WriteTmp

LEMMA RenamedSteps ==
    ASSUME TicketsTypeOK, NEW w \in Workers, NEW t \in Ids, worker' = [Renamed(t) EXCEPT ![w] = Idle]
    PROVE  /\ worker' \in [Workers -> WorkerStates] /\ worker'[w] = Idle /\ OthersStay(w)
           /\ \A v \in Workers \ {w} : worker[v].ticket # t => worker'[v].at = worker[v].at
<1>1. worker \in [Workers -> WorkerStates]
  BY DEF TicketsTypeOK
<1>2. ASSUME NEW v \in Workers
      PROVE  /\ Renamed(t)[v] \in WorkerStates
             /\ Renamed(t)[v].pc = worker[v].pc /\ Renamed(t)[v].post = worker[v].post
             /\ Renamed(t)[v].ticket = worker[v].ticket /\ Renamed(t)[v].rec = worker[v].rec
             /\ worker[v].ticket # t => Renamed(t)[v].at = worker[v].at
  <2>1. CASE worker[v].ticket # t
    <3>1. Renamed(t)[v] = worker[v]
      BY <2>1 DEF Renamed
    <3>2. QED
      BY <1>1, <2>1, <3>1
  <2>2. CASE worker[v].ticket = t
    <3>1. PICK a : a = IF worker[v].at = "tmp" THEN "file" ELSE "gone"
      OBVIOUS
    <3>2. Renamed(t)[v] = [worker[v] EXCEPT !.at = a]
      BY <1>1, <2>2, <3>1 DEF Renamed, WorkerStates
    <3>3. worker[v] \in WorkerStates /\ a \in {"file", "gone"}
      BY <1>1, <3>1
    <3>4. /\ Renamed(t)[v].pc = worker[v].pc /\ Renamed(t)[v].post = worker[v].post
          /\ Renamed(t)[v].ticket = worker[v].ticket /\ Renamed(t)[v].rec = worker[v].rec
          /\ Renamed(t)[v].at = a /\ Renamed(t)[v] \in WorkerStates
      BY <3>2, <3>3 DEF WorkerStates
    <3>5. QED
      BY <2>2, <3>4
  <2>3. QED
    BY <2>1, <2>2
<1>3. \A v \in Workers : worker'[v] = IF v = w THEN Idle ELSE Renamed(t)[v]
  BY DEF Renamed
<1>4. worker' = [v \in Workers |-> worker'[v]]
  BY DEF Renamed
<1>5. \A v \in Workers : worker'[v] \in WorkerStates
  BY <1>2, <1>3, IdleHoldsNothing
<1>6. worker' \in [Workers -> WorkerStates]
  BY <1>4, <1>5
<1>7. QED
  BY <1>2, <1>3, <1>6 DEF OthersStay

(* The action property: a post that gets its ticket has the number for     *)
(* itself, and the last ticket of that number is gone.                     *)
LEMMA RenameIsNew ==
    ASSUME TicketsInv, NEW w \in Workers, Rename(w), NEW u \in Ids, told'[u] # told[u]
    PROVE  told[u] = NoMsg \/ u \in deleted
<1>1. told' = [told EXCEPT ![worker[w].ticket] = worker[w].rec.msg] /\ worker[w].post
  BY DEF Rename
<1>2. u = worker[w].ticket
  BY <1>1 DEF TicketsInv, TicketsTypeOK
<1>3. Writing(w)
  BY DEF Rename, Writing
<1>4. QED
  BY <1>1, <1>2, <1>3, Written DEF GivenOut

LEMMA RenameKeeps == ASSUME TicketsInv, NEW w \in Workers, Rename(w) PROVE TicketsInv'
<1>0. PICK t : t = worker[w].ticket
  OBVIOUS
<1>1. worker[w].pc = "rename" /\ Writing(w) /\ UNCHANGED <<last, posted, overlapped, unremoved>>
  BY DEF Rename, Writing
<1>2. t \in Ids /\ worker[w].rec \in Records /\ t \in Taken /\ (worker[w].post => Numbered(w) /\ Holds(w))
  BY <1>0, <1>1, Written
<1>3. CASE /\ tmp[t] # None
           /\ file' = [file EXCEPT ![t] = tmp[t]] /\ tmp' = [tmp EXCEPT ![t] = None]
           /\ worker' = [Renamed(t) EXCEPT ![w] = Idle]
           /\ told' = IF worker[w].post THEN [told EXCEPT ![t] = worker[w].rec.msg] ELSE told
           /\ deleted' = IF worker[w].post THEN deleted \ {t} ELSE deleted
           /\ UNCHANGED bounds
  <2>1. worker' \in [Workers -> WorkerStates] /\ worker'[w] = Idle /\ OthersStay(w)
        /\ \A v \in Workers \ {w} : worker[v].ticket # t => worker'[v].at = worker[v].at
    BY <1>2, <1>3, RenamedSteps DEF TicketsInv
  <2>2. /\ InHand(w)' /\ ~Holds(w)' /\ ~Numbered(w)' /\ ~Writing(w)' /\ worker'[w].ticket \notin Ids /\ worker'[w].pc = "idle"
    BY <2>1, IdleIsFree
  <2>3. file \in [Ids -> Contents] /\ tmp \in [Ids -> Contents] /\ told \in [Ids -> Msgs \cup {NoMsg}]
    BY DEF TicketsInv, TicketsTypeOK
  <2>4. /\ file' \in [Ids -> Contents] /\ tmp' \in [Ids -> Contents] /\ file'[t] = tmp[t] /\ file'[t] # None
        /\ \A u \in Ids \ {t} : file'[u] = file[u] /\ tmp'[u] = tmp[u]
    BY <1>2, <1>3, <2>3 DEF Contents
  <2>5. worker[w].rec.msg \in Msgs /\ worker[w].rec.msg # NoMsg
    BY <1>2, KindsDiffer, TicketsAssumption
  <2>6. /\ told' \in [Ids -> Msgs \cup {NoMsg}]
        /\ worker[w].post => told'[t] = worker[w].rec.msg
        /\ \A u \in Ids \ {t} : told'[u] = told[u]
        /\ told[t] # NoMsg => told'[t] # NoMsg
    BY <1>2, <1>3, <2>3, <2>5
  <2>7. TicketsTypeOK' /\ crashes' = crashes /\ crashes' >= crashes
    BY <1>1, <1>2, <1>3, <2>1, <2>4, <2>6 DEF TicketsInv, TicketsTypeOK, bounds
  <2>8. \A v \in Workers : Holds(v)' => v # w /\ Holds(v) /\ worker'[v].ticket = worker[v].ticket
    BY <2>1, <2>2 DEF OthersStay, Holds
  <2>9. ASSUME NEW v \in Workers, Holds(v)', GivenOut(t)' PROVE worker'[v].ticket # t
    <3>1. v # w /\ Holds(v) /\ worker'[v].ticket = worker[v].ticket
      BY <2>8, <2>9
    <3>2. CASE worker[w].post
      BY <1>0, <1>2, <3>1, <3>2 DEF TicketsInv, NumbersDiffer, Holds, Numbered
    <3>3. CASE ~worker[w].post
      BY <1>2, <1>3, <2>9, <3>1, <3>3 DEF TicketsInv, StillThere, GivenOut
    <3>4. QED
      BY <3>2, <3>3
  <2>10. ASSUME t \notin overlapped' PROVE Alone(t)' /\ Kept(t)' /\ Ghost(t)'
    <3>1. Alone(t)
      BY <1>1, <1>2, <2>10 DEF TicketsInv, Unshared
    <3>2. tmp[t] = worker[w].rec /\ \A v \in Workers \ {w} : Writing(v) => worker[v].ticket # t
      BY <1>0, <1>1, <3>1 DEF Alone
    <3>3. \A v \in Workers : Writing(v)' => worker'[v].ticket # t
      BY <2>1, <2>2, <3>2 DEF OthersStay, Writing
    <3>4. Alone(t)'
      BY <3>3 DEF Alone, Writing
    <3>5. Kept(t)'
      <4>1. CASE worker[w].post
        BY <1>2, <2>4, <2>6, <3>2, <4>1 DEF Kept
      <4>2. CASE ~worker[w].post
        BY <1>0, <1>1, <1>2, <1>3, <2>4, <3>1, <3>2, <4>2 DEF Alone, Kept, GivenOut
      <4>3. QED
        BY <4>1, <4>2
    <3>6. Ghost(t)'
      BY <1>2, <2>4, <3>2 DEF Ghost
    <3>7. QED
      BY <3>4, <3>5, <3>6
  <2>11. \A u \in Ids \ {t} : (u \in deleted') = (u \in deleted)
    BY <1>3
  <2>12. /\ \A v \in Workers : InHand(v)'
         /\ NumbersDiffer' /\ StillThere' /\ Unshared'
    BY <1>0, <1>1, <1>2, <2>1, <2>2, <2>4, <2>6, <2>7, <2>9, <2>10, <2>11, OwnTicketKeeps
  <2>13. Bounded'
    BY <1>2, <2>1, <2>2, <2>4, WriterStaysBounded
  <2>14. QED
    BY <2>7, <2>12, <2>13 DEF TicketsInv
<1>4. CASE (IF tmp[t] = None THEN UNCHANGED bounds ELSE Fail) /\ GiveUp(w) /\ UNCHANGED <<files, told, deleted>>
  <2>1. faults' \in Nat /\ crashes' = crashes /\ crashes \in Nat
    BY <1>4 DEF TicketsInv, TicketsTypeOK, Fail, bounds
  <2>2. TicketsTypeOK' /\ crashes' >= crashes
    BY <1>1, <1>4, <2>1, GiveUpSteps DEF TicketsInv, TicketsTypeOK, files
  <2>3. QED
    BY <1>1, <1>4, <2>2, GiveUpKeeps DEF history
<1>5. QED
  BY <1>0, <1>3, <1>4 DEF Rename

LEMMA CreateNewKeeps == ASSUME TicketsInv, NEW w \in Workers, create_new(w) PROVE TicketsInv'
<1>0. PICK t : t = worker[w].ticket
  OBVIOUS
<1>1. /\ worker[w].pc = "create_new" /\ worker[w].post /\ t \in Ids /\ worker[w].rec.msg \in Msgs
      /\ Numbered(w) /\ ~Holds(w) /\ UNCHANGED <<tmp, last, posted, told, deleted, unremoved>>
  BY <1>0 DEF create_new, Exists, TicketsInv, InHand, Numbered, Holds
<1>2. CASE /\ file[t] = None
           /\ file' = [file EXCEPT ![t] = Empty]
           /\ overlapped' = IF WrittenByOther(w, t) THEN overlapped \cup {t} ELSE overlapped
           /\ Go(w, "create") /\ UNCHANGED bounds
  <2>1. worker' \in [Workers -> WorkerStates] /\ worker'[w] = [worker[w] EXCEPT !.pc = "create"]
        /\ OthersStay(w) /\ \A v \in Workers \ {w} : worker'[v] = worker[v]
    BY <1>2, GoSteps DEF TicketsInv
  <2>2. /\ worker'[w].pc = "create" /\ worker'[w].post /\ worker'[w].ticket = t /\ worker'[w].rec = worker[w].rec
    BY <1>0, <1>1, <2>1 DEF TicketsInv, TicketsTypeOK, WorkerStates
  <2>3. worker[w].rec \in Records
    BY <1>1 DEF TicketsInv, TicketsTypeOK, WorkerStates, Records
  <2>4. file \in [Ids -> Contents]
    BY DEF TicketsInv, TicketsTypeOK
  <2>5. file' \in [Ids -> Contents] /\ file'[t] = Empty /\ \A u \in Ids \ {t} : file'[u] = file[u]
    BY <1>1, <1>2, <2>4 DEF Contents
  <2>6. overlapped \subseteq overlapped' /\ (t \notin overlapped' => ~WrittenByOther(w, t) /\ t \notin overlapped)
        /\ overlapped' \subseteq overlapped \cup {t}
    BY <1>2
  <2>7. TicketsTypeOK' /\ crashes' >= crashes
    BY <1>1, <1>2, <2>1, <2>5, <2>6 DEF TicketsInv, TicketsTypeOK, bounds
  <2>8. InHand(w)'
    BY <1>0, <1>1, <2>2, <2>3 DEF TicketsInv, InHand, Numbered
  <2>9. ~GivenOut(t)'
    BY <1>1, <1>2 DEF TicketsInv, StillThere, GivenOut
  <2>10. ASSUME t \notin overlapped' PROVE Alone(t)' /\ Kept(t)' /\ Ghost(t)'
    <3>1. \A v \in Workers \ {w} : Writing(v)' => worker'[v].ticket # t
      BY <2>1, <2>6, <2>10 DEF WrittenByOther, Writing
    <3>2. Alone(t)'
      BY <2>2, <3>1 DEF Alone, Writing
    <3>3. Kept(t)'
      BY <2>9 DEF Kept
    <3>4. Ghost(t)'
      BY <2>2 DEF Ghost, Holds
    <3>5. QED
      BY <3>2, <3>3, <3>4
  <2>11. /\ \A v \in Workers : InHand(v)'
         /\ NumbersDiffer' /\ StillThere' /\ Unshared'
    BY <1>0, <1>1, <2>1, <2>2, <2>5, <2>6, <2>7, <2>8, <2>9, <2>10, OwnTicketKeeps
  <2>12. Bounded'
    <3>1. Taken' \subseteq Taken \cup {t}
      BY <2>1, <2>2, <2>5 DEF Taken, OthersStay, Writing
    <3>2. Admitted' = Admitted \ {w} /\ w \in Admitted
      BY <1>1, <2>1, <2>2 DEF Admitted
    <3>3. Cardinality(Admitted') = Cardinality(Admitted) - 1
      BY <3>2, BoundFinite, FS_RemoveElement
    <3>4. IsFiniteSet(Taken \cup {t}) /\ Cardinality(Taken \cup {t}) <= Cardinality(Taken) + 1
          /\ Cardinality(Taken \cup {t}) \in Nat
      <4>1. CASE t \in Taken
        <5>1. \A T : T = Taken \cup {t} => T = Taken
          BY <4>1
        <5>2. QED
          BY <5>1, BoundFinite
      <4>2. CASE t \notin Taken
        <5>1. IsFiniteSet(Taken \cup {t}) /\ Cardinality(Taken \cup {t}) = Cardinality(Taken) + 1
          BY <4>2, BoundFinite, FS_AddElement
        <5>2. QED
          BY <5>1, BoundFinite
      <4>3. QED
        BY <4>1, <4>2
    <3>5. Cardinality(Taken') \in Nat /\ Cardinality(Taken') <= Cardinality(Taken \cup {t})
      BY <3>1, <3>4, FS_Subset, FS_CardinalityType
    <3>6. Cardinality(Taken) + Cardinality(Admitted) < MAX_FILES + Cardinality(Workers)
      BY DEF TicketsInv, Bounded
    <3>7. Cardinality(Taken') + Cardinality(Admitted') < MAX_FILES + Cardinality(Workers)
      BY <3>3, <3>4, <3>5, <3>6, BoundFinite, TicketsAssumption
    <3>8. QED
      BY <3>7 DEF Bounded
  <2>13. QED
    BY <2>7, <2>11, <2>12 DEF TicketsInv
<1>3. CASE (IF file[t] # None THEN UNCHANGED bounds ELSE Fail) /\ Done(w) /\ UNCHANGED <<file, overlapped>>
  <2>1. worker' \in [Workers -> WorkerStates]
    BY <1>3, DoneSteps DEF TicketsInv
  <2>2. faults' \in Nat /\ crashes' = crashes /\ crashes \in Nat
    BY <1>3 DEF TicketsInv, TicketsTypeOK, Fail, bounds
  <2>3. TicketsTypeOK' /\ crashes' >= crashes
    BY <1>1, <1>3, <2>1, <2>2 DEF TicketsInv, TicketsTypeOK
  <2>4. QED
    BY <1>1, <1>3, <2>3, DoneKeeps
<1>4. QED
  BY <1>0, <1>2, <1>3 DEF create_new, Exists

LEMMA SetHandledKeeps == ASSUME TicketsInv, NEW w \in Workers, set_handled(w) PROVE TicketsInv'
<1>0. PICK t, old : t = worker[w].ticket /\ old = load_ticket(t)
  OBVIOUS
<1>1. /\ worker[w].pc = "read" /\ ~worker[w].post /\ t \in Ids /\ told[t] # NoMsg /\ ~Holds(w) /\ ~Numbered(w)
      /\ UNCHANGED <<files, last, posted, told, deleted, unremoved, bounds>>
  BY <1>0 DEF set_handled, TicketsInv, InHand, Numbered, Holds
<1>2. crashes' >= crashes
  BY <1>1 DEF TicketsInv, TicketsTypeOK, bounds
<1>3. CASE old = None /\ Done(w) /\ UNCHANGED overlapped
  <2>1. worker' \in [Workers -> WorkerStates]
    BY <1>3, DoneSteps DEF TicketsInv
  <2>2. TicketsTypeOK'
    BY <1>1, <1>3, <2>1 DEF TicketsInv, TicketsTypeOK, files, bounds
  <2>3. QED
    BY <1>1, <1>2, <1>3, <2>2, DoneKeeps DEF files
<1>4. ASSUME NEW handled \in BOOLEAN, old # None,
             worker' = [worker EXCEPT ![w].pc = "create", ![w].rec = [old EXCEPT !.handled = handled]],
             overlapped' = IF WrittenByOther(w, t) THEN overlapped \cup {t} ELSE overlapped
      PROVE  TicketsInv'
  <2>1. old = file[t] /\ file[t] \in Records
    BY <1>0, <1>4 DEF load_ticket
  <2>2. PICK rec : rec = [old EXCEPT !.handled = handled]
    OBVIOUS
  <2>3. rec \in Records /\ rec.msg = file[t].msg
    BY <2>1, <2>2 DEF Records
  <2>4. PICK x : x = [worker[w] EXCEPT !.pc = "create", !.rec = rec]
    OBVIOUS
  <2>5. /\ x \in WorkerStates /\ x.pc = "create" /\ ~x.post /\ x.ticket = t /\ x.rec = rec
    <3>1. worker[w] \in WorkerStates /\ rec \in [is : {"record"}, msg : Msgs \cup {NoMsg}, handled : BOOLEAN]
      BY <2>3 DEF TicketsInv, TicketsTypeOK, Records
    <3>2. QED
      BY <1>0, <1>1, <2>4, <3>1 DEF WorkerStates
  <2>6. worker' = [worker EXCEPT ![w] = x]
    BY <1>4, <2>2, <2>4 DEF TicketsInv, TicketsTypeOK
  <2>7. worker' \in [Workers -> WorkerStates] /\ worker'[w] = x /\ OthersStay(w) /\ \A v \in Workers \ {w} : worker'[v] = worker[v]
    BY <2>5, <2>6, OneSteps DEF TicketsInv
  <2>8. overlapped \subseteq overlapped' /\ (t \notin overlapped' => ~WrittenByOther(w, t) /\ t \notin overlapped)
        /\ overlapped' \subseteq overlapped \cup {t}
    BY <1>4
  <2>9. TicketsTypeOK'
    BY <1>1, <2>7, <2>8 DEF TicketsInv, TicketsTypeOK, files, bounds
  <2>10. InHand(w)' /\ ~Numbered(w)' /\ ~Holds(w)'
    BY <1>1, <2>3, <2>5, <2>7 DEF InHand, Numbered, Holds
  <2>11. \A v \in Workers : Holds(v)' = Holds(v) /\ worker'[v].ticket = worker[v].ticket
    BY <1>0, <1>1, <2>5, <2>7, <2>10 DEF Holds
  <2>12. GivenOut(t)' => file'[t] # None /\ \A v \in Workers : Holds(v)' => worker'[v].ticket # t
    <3>1. GivenOut(t) => file[t] # None /\ \A v \in Workers : Holds(v) => worker[v].ticket # t
      BY <1>1 DEF TicketsInv, StillThere
    <3>2. QED
      BY <1>1, <2>11, <3>1 DEF GivenOut, files
  <2>13. ASSUME t \notin overlapped' PROVE Alone(t)' /\ Kept(t)' /\ Ghost(t)'
    <3>1. Alone(t) /\ Kept(t)
      BY <1>1, <2>8, <2>13 DEF TicketsInv, Unshared
    <3>2. \A v \in Workers \ {w} : Writing(v)' => worker'[v].ticket # t
      BY <2>7, <2>8, <2>13 DEF WrittenByOther, Writing
    <3>3. t \notin deleted => rec.msg = told[t]
      BY <1>1, <2>3, <3>1 DEF Kept, GivenOut
    <3>4. Alone(t)'
      BY <1>1, <2>5, <2>7, <3>2, <3>3 DEF Alone, Writing
    <3>5. Kept(t)' /\ Ghost(t)'
      BY <1>1, <2>1, <3>1 DEF Kept, Ghost, GivenOut, files
    <3>6. QED
      BY <3>4, <3>5
  <2>14. /\ \A v \in Workers : InHand(v)'
         /\ NumbersDiffer' /\ StillThere' /\ Unshared'
    BY <1>0, <1>1, <1>2, <2>5, <2>7, <2>8, <2>9, <2>10, <2>12, <2>13, OwnTicketKeeps DEF files
  <2>15. Bounded'
    <3>1. t \in Taken
      BY <1>1, <2>1, KindsDiffer DEF Taken
    <3>2. QED
      BY <1>1, <2>5, <2>7, <3>1, WriterStaysBounded DEF files
  <2>16. QED
    BY <2>9, <2>14, <2>15 DEF TicketsInv
<1>5. QED
  BY <1>0, <1>3, <1>4 DEF set_handled

LEMMA CrashKeeps == ASSUME TicketsInv, Crash PROVE TicketsInv'
<1> DEFINE Half(where) == {t \in Ids : \E w \in Workers :
             worker[w].pc = "write" /\ worker[w].ticket = t /\ worker[w].at = where}
<1>1. PICK cut_off \in SUBSET (Half("tmp") \cup Half("file")) :
        /\ tmp' = [t \in Ids |-> IF t \in cut_off \cap Half("tmp") THEN Garbled ELSE tmp[t]]
        /\ file' = [t \in Ids |-> IF t \in cut_off \cap Half("file") THEN Garbled ELSE file[t]]
  BY DEF Crash
<1>2. crashes' = crashes + 1 /\ worker' = [w \in Workers |-> Idle] /\ last' = 0 /\ UNCHANGED <<posted, history, faults>>
  BY DEF Crash
<1>3. file \in [Ids -> Contents] /\ tmp \in [Ids -> Contents] /\ crashes \in Nat
  BY DEF TicketsInv, TicketsTypeOK
<1>4. file' \in [Ids -> Contents] /\ tmp' \in [Ids -> Contents]
  BY <1>1, <1>3 DEF Contents
<1>5. worker' \in [Workers -> WorkerStates] /\ \A w \in Workers : worker'[w] = Idle
  BY <1>2, IdleHoldsNothing
<1>6. TicketsTypeOK'
  BY <1>2, <1>3, <1>4, <1>5, TicketsAssumption DEF TicketsInv, TicketsTypeOK, history
<1>7. \A w \in Workers : /\ InHand(w)' /\ ~Holds(w)' /\ ~Numbered(w)' /\ ~Writing(w)'
                         /\ worker'[w].ticket \notin Ids /\ worker'[w].pc = "idle"
  BY <1>5, IdleIsFree
<1>8. NumbersDiffer'
  BY <1>7 DEF NumbersDiffer
<1>9. \A t \in Ids : file'[t] = file[t] \/ (file'[t] = Garbled /\ t \in Half("file"))
  BY <1>1
<1>10. StillThere'
  BY <1>2, <1>7, <1>9, KindsDiffer DEF TicketsInv, StillThere, GivenOut, history
<1>11. ASSUME NEW t \in Ids \ overlapped' PROVE Alone(t)' /\ Kept(t)' /\ Ghost(t)'
  <2>1. Alone(t) /\ Kept(t)
    BY <1>2, <1>11 DEF TicketsInv, Unshared, history
  <2>2. t \notin Half("file")
    BY <2>1 DEF Alone
  <2>3. file'[t] = file[t]
    BY <1>9, <2>2
  <2>4. Alone(t)'
    BY <1>7 DEF Alone
  <2>5. Kept(t)'
    BY <1>2, <2>1, <2>3 DEF Kept, GivenOut, history
  <2>6. Ghost(t)'
    BY <1>2, <1>3 DEF Ghost
  <2>7. QED
    BY <2>4, <2>5, <2>6
<1>12. Bounded'
  <2>1. Half("file") \subseteq Taken
    BY DEF Taken, Writing
  <2>2. Taken' \subseteq Taken
    BY <1>7, <1>9, <2>1 DEF Taken
  <2>3. Admitted' \subseteq Admitted
    BY <1>7 DEF Admitted
  <2>4. QED
    BY <2>2, <2>3, BoundShrinks DEF TicketsInv
<1>13. QED
  BY <1>6, <1>7, <1>8, <1>10, <1>11, <1>12 DEF TicketsInv, Unshared

-----------------------------------------------------------------------------
LEMMA TicketsStep == TicketsInv /\ [TicketsNext]_ticket_vars => TicketsInv'
<1> SUFFICES ASSUME TicketsInv, [TicketsNext]_ticket_vars PROVE TicketsInv'
  OBVIOUS
<1>1. ASSUME NEW w \in Workers, NEW m \in Msgs, Post(w, m) PROVE TicketsInv'
  BY <1>1, PostBegins
<1>2. ASSUME NEW w \in Workers, NEW t \in Ids, handle_admin_handle(w, t) \/ handle_admin_delete(w, t) PROVE TicketsInv'
  BY <1>2, AdminBegins DEF handle_admin_handle, handle_admin_delete
<1>3. ASSUME NEW w \in Workers, Step(w) PROVE TicketsInv'
  BY <1>3, CountKeeps, NumberKeeps, CreateNewKeeps, RemoveKeeps, CreateTmpKeeps, WriteTmpKeeps, RenameKeeps,
     SetHandledKeeps, DeleteKeeps DEF Step
<1>4. CASE Crash
  BY <1>4, CrashKeeps
<1>5. CASE UNCHANGED ticket_vars
  <2>1. UNCHANGED <<file, tmp, last, worker, posted, told, deleted, overlapped, unremoved, faults, crashes>>
    BY <1>5 DEF ticket_vars, files, history, bounds
  <2>2. TicketsTypeOK' /\ \A w \in Workers : InHand(w)'
    BY <2>1 DEF TicketsInv, TicketsTypeOK, InHand, Writing, Numbered
  <2>3. NumbersDiffer' /\ StillThere'
    BY <2>1 DEF TicketsInv, NumbersDiffer, Numbered, StillThere, GivenOut, Holds
  <2>4. Unshared'
    BY <2>1 DEF TicketsInv, Unshared, Alone, Kept, Ghost, Writing, GivenOut, Holds
  <2>5. Bounded'
    <3>1. Taken' = Taken /\ Admitted' = Admitted
      BY <2>1 DEF Taken, Admitted, Writing
    <3>2. QED
      BY <3>1, BoundShrinks DEF TicketsInv
  <2>6. QED
    BY <2>2, <2>3, <2>4, <2>5 DEF TicketsInv
<1>6. QED
  BY <1>1, <1>2, <1>3, <1>4, <1>5 DEF TicketsNext

LEMMA SoundlyKept == TicketsInv => TicketsSound
<1> SUFFICES ASSUME TicketsInv PROVE TicketsSound
  OBVIOUS
<1>1. TicketsKept
  <2> SUFFICES ASSUME NEW t \in Ids \ (deleted \cup overlapped), told[t] # NoMsg
               PROVE  load_ticket(t) # None /\ file[t].msg = told[t]
    BY DEF TicketsKept
  <2>1. file[t] \in Records /\ file[t].msg = told[t]
    BY DEF TicketsInv, Unshared, Kept, GivenOut
  <2>2. QED
    BY <2>1, KindsDiffer DEF load_ticket
<1>2. NoGhosts
  <2> SUFFICES ASSUME crashes = 0, \A w \in Workers : worker[w].pc = "idle",
                      NEW t \in list_tickets \ ticket_rows, t \notin overlapped \cup unremoved
               PROVE  FALSE
    BY DEF NoGhosts
  <2>1. t \in Ids /\ file[t] # None /\ load_ticket(t) = None
    BY DEF list_tickets, ticket_rows
  <2>2. file[t] \notin {None} \cup Records
    BY <2>1 DEF load_ticket
  <2>3. Ghost(t)
    BY <2>1 DEF TicketsInv, Unshared
  <2>4. QED
    BY <2>2, <2>3 DEF Ghost, Holds
<1>3. DirectoryBounded
  <2>1. list_tickets \subseteq Taken
    BY DEF list_tickets, Taken
  <2>2. Cardinality(list_tickets) \in Nat /\ Cardinality(list_tickets) <= Cardinality(Taken)
    BY <2>1, BoundFinite, FS_Subset, FS_CardinalityType
  <2>3. QED
    BY <2>2, BoundFinite, TicketsAssumption DEF TicketsInv, Bounded, DirectoryBounded
<1>4. QED
  BY <1>1, <1>2, <1>3 DEF TicketsSound, TicketsInv

(* A ticket that was answered with its number is there, with the message   *)
(* it was given out for, until it is deleted, whatever the threads, the    *)
(* file system and the restarts do in between; what a post leaves behind   *)
(* when it fails is taken away; and the directory is never more than one   *)
(* ticket per thread beyond its cap (handle_post, forward, write_replace,  *)
(* set_handled).                                                           *)
THEOREM TicketsAreSound == TicketsSpec => []TicketsSound
<1>1. TicketsInit => TicketsInv
  BY TicketsInit_Inv
<1>2. TicketsInv /\ [TicketsNext]_ticket_vars => TicketsInv'
  BY TicketsStep
<1>3. TicketsInv => TicketsSound
  BY SoundlyKept
<1>4. QED
  BY <1>1, <1>2, <1>3, PTL DEF TicketsSpec

(* A number is given out a second time only when its ticket was deleted,   *)
(* also when a restart has set the clock back: taking the name is what     *)
(* refuses it (ticket_id, create_new, forward).                            *)
THEOREM NumbersAreNotReused == TicketsSpec => TicketsAreNotReused
<1>1. TicketsInit => TicketsInv
  BY TicketsInit_Inv
<1>2. TicketsInv /\ [TicketsNext]_ticket_vars => TicketsInv'
  BY TicketsStep
<1>3. TicketsInv /\ [TicketsNext]_ticket_vars
         => [\A t \in Ids : told'[t] # told[t] => told[t] = NoMsg \/ t \in deleted]_ticket_vars
  <2> SUFFICES ASSUME TicketsInv, TicketsNext, NEW t \in Ids, told'[t] # told[t]
               PROVE  told[t] = NoMsg \/ t \in deleted
    OBVIOUS
  <2>1. \E w \in Workers : Rename(w)
    BY DEF TicketsNext, Step, Post, handle_admin_handle, handle_admin_delete, Begin, CountTickets, ticket_id,
       create_new, remove_file, CreateTmp, WriteTmp, set_handled, delete, Crash, history
  <2>2. QED
    BY <2>1, RenameIsNew
<1>4. QED
  BY <1>1, <1>2, <1>3, PTL DEF TicketsSpec, TicketsAreNotReused

-----------------------------------------------------------------------------
(* Pings: the rows of the days                                             *)

LEMMA DayBounds ==
    /\ \A at \in Nat : DayOf(at) \in Nat /\ DayOf(at) * DAY_SECS <= at /\ at < DayOf(at) * DAY_SECS + DAY_SECS
    /\ \A at \in 0..MaxPingTime : DayOf(at) \in Days
<1>1. DAY_SECS \in Nat \ {0} /\ MaxPingTime \in Nat
  BY PingsAssumption
<1>2. \A at \in Nat : at \div DAY_SECS \in Nat /\ (at \div DAY_SECS) * DAY_SECS <= at /\ at < (at \div DAY_SECS) * DAY_SECS + DAY_SECS
  BY <1>1
<1>3. ASSUME NEW a \in Nat, NEW b \in Nat, a <= b PROVE a \div DAY_SECS <= b \div DAY_SECS
  <2>1. ASSUME NEW p \in Nat, NEW q \in Nat, p * DAY_SECS <= a, b < q * DAY_SECS + DAY_SECS PROVE p <= q
    <3> SUFFICES ASSUME q + 1 <= p PROVE FALSE
      OBVIOUS
    <3>1. (q + 1) * DAY_SECS <= p * DAY_SECS /\ (q + 1) * DAY_SECS = q * DAY_SECS + DAY_SECS
      BY <1>1
    <3>2. QED
      BY <1>1, <1>3, <2>1, <3>1
  <2>2. QED
    BY <1>2, <2>1
<1>4. QED
  BY <1>1, <1>2, <1>3 DEF DayOf, Days

LEMMA DaysAreFinite == IsFiniteSet(Days) /\ Days \subseteq Nat
<1>1. MaxPingTime \div DAY_SECS \in Nat
  BY PingsAssumption
<1>2. QED
  BY <1>1, FS_Interval DEF Days

LEMMA RowTyped == ASSUME PingsTypeOK, NEW d \in Days PROVE RowOf(d) \in DailyEntries /\ RowOf(d).is = "row" /\ RowOf(d).day = d
<1> DEFINE ids == {line.id : line \in Readable(log[d])}
<1>1. ids \subseteq Devices
  <2> SUFFICES ASSUME NEW line \in Readable(log[d]) PROVE line.id \in Devices
    OBVIOUS
  <2>1. log[d] \in Seq(LogEntries)
    BY DEF PingsTypeOK
  <2>2. PICK i \in DOMAIN log[d] : Whole(log[d], i) /\ line = log[d][i]
    BY DEF Readable
  <2>3. line \in LogEntries /\ line.is \in {"line", "row"}
    BY <2>1, <2>2 DEF Whole
  <2>4. QED
    BY <2>3 DEF LogEntries, NL, Torn
<1>2. RowOf(d) = Row(d, ids, {i \in ids : DayOf(index.devices[i].first_seen) = d /\ i \in KnownDevices(index.devices)})
  BY DEF RowOf
<1> HIDE DEF ids
<1>3. QED
  BY <1>1, <1>2 DEF Row, DailyEntries

(* The days of Rows: each pending day once.                                *)
LEMMA AscendingDays ==
    ASSUME NEW S \in SUBSET Days, NEW f \in Ascending(S)
    PROVE  /\ f \in Seq(S) /\ Len(f) \in Nat
           /\ \A i, j \in 1..Len(f) : f[i] = f[j] => i = j
           /\ \A d \in S : \E i \in 1..Len(f) : f[i] = d
<1> DEFINE n == Cardinality(S)
<1>1. IsFiniteSet(S) /\ n \in Nat /\ S \subseteq Nat
  BY DaysAreFinite, FS_Subset, FS_CardinalityType
<1>2. f \in [1..n -> S] /\ \A i, j \in 1..n : i < j => f[i] < f[j]
  BY DEF Ascending
<1>3. f \in Seq(S) /\ Len(f) = n
  BY <1>1, <1>2
<1>4. \A i, j \in 1..n : f[i] = f[j] => i = j
  <2> SUFFICES ASSUME NEW i \in 1..n, NEW j \in 1..n, f[i] = f[j], i # j PROVE FALSE
    OBVIOUS
  <2>1. f[i] \in Nat
    <3>1. f[i] \in S
      BY <1>2
    <3>2. QED
      BY <1>1, <3>1
  <2>2. i \in Int /\ j \in Int
    BY <1>1
  <2>3. i < j \/ j < i
    BY <2>2
  <2>4. ~(f[i] < f[i])
    BY <2>1
  <2>5. QED
    BY <1>2, <2>3, <2>4
<1>5. f \in Injection(1..n, S)
  BY <1>2, <1>4 DEF Injection, IsInjective
<1>6. Cardinality(1..n) = n
  BY <1>1, FS_Interval
<1>7. f \in Surjection(1..n, S)
  BY <1>1, <1>5, <1>6, FS_Injection
<1>8. QED
  BY <1>1, <1>3, <1>4, <1>7 DEF Surjection

LEMMA RowsAre ==
    ASSUME PingsTypeOK, NEW at, NEW new \in Rows(at)
    PROVE  /\ new \in Seq(DailyEntries)
           /\ \A k \in 1..Len(new) : new[k].is = "row" => new[k].day \in Pending(at)
           /\ \A k, l \in 1..Len(new) :
                new[k].is = "row" /\ new[l].is = "row" /\ new[k].day = new[l].day => k = l
           /\ Len(new) = 0 \/ new[Len(new)] = NL
           /\ \A d \in Pending(at) : \E k \in 1..Len(new) :
                /\ new[k].is = "row" /\ new[k].day = d
                /\ k = 1 \/ new[k - 1] = NL
                /\ k + 1 \in 1..Len(new) /\ new[k + 1] = NL
<1>1. PICK f \in Ascending(Pending(at)) : new = RowsOf(f)
  BY DEF Rows
<1>2. Pending(at) \in SUBSET Days
  BY DEF Pending
<1>3. /\ f \in Seq(Pending(at)) /\ Len(f) \in Nat
      /\ \A i, j \in 1..Len(f) : f[i] = f[j] => i = j
      /\ \A d \in Pending(at) : \E i \in 1..Len(f) : f[i] = d
  <2>1. PICK S \in SUBSET Days : S = Pending(at)
    BY <1>2
  <2>2. f \in Ascending(S)
    BY <2>1
  <2>3. /\ f \in Seq(S) /\ Len(f) \in Nat
        /\ \A i, j \in 1..Len(f) : f[i] = f[j] => i = j
        /\ \A d \in S : \E i \in 1..Len(f) : f[i] = d
    BY <2>2, AscendingDays
  <2>4. QED
    BY <2>1, <2>3
<1>4. new = [k \in 1..(2 * Len(f)) |-> IF k % 2 = 1 THEN RowOf(f[(k + 1) \div 2]) ELSE NL]
  BY <1>1 DEF RowsOf
<1>5. \A i \in 1..Len(f) : RowOf(f[i]) \in DailyEntries /\ RowOf(f[i]).is = "row" /\ RowOf(f[i]).day = f[i]
  BY <1>2, <1>3, RowTyped
<1>6. NL \in DailyEntries /\ NL.is = "end"
  BY DEF DailyEntries, NL
<1>7. \A k \in 1..(2 * Len(f)) : (k + 1) \div 2 \in 1..Len(f) /\ (k % 2 = 1 => k = 2 * ((k + 1) \div 2) - 1)
  <2> SUFFICES ASSUME NEW k \in 1..(2 * Len(f))
               PROVE  (k + 1) \div 2 \in 1..Len(f) /\ (k % 2 = 1 => k = 2 * ((k + 1) \div 2) - 1)
    OBVIOUS
  <2>1. PICK n \in Nat : n = Len(f)
    BY <1>3
  <2>2. k \in 1..(2 * n)
    BY <2>1
  <2>3. (k + 1) \div 2 \in 1..n /\ (k % 2 = 1 => k = 2 * ((k + 1) \div 2) - 1)
    BY <2>2
  <2>4. QED
    BY <2>1, <2>3
<1>8. \A k \in 1..(2 * Len(f)) : new[k] \in DailyEntries
  BY <1>4, <1>5, <1>6, <1>7
<1>9. new \in Seq(DailyEntries) /\ Len(new) = 2 * Len(f)
  BY <1>3, <1>4, <1>8
<1>10. \A k \in 1..Len(new) : new[k].is = "row" =>
          k % 2 = 1 /\ new[k].day = f[(k + 1) \div 2] /\ f[(k + 1) \div 2] \in Pending(at)
  BY <1>3, <1>4, <1>5, <1>6, <1>7, <1>9
<1>11. \A k, l \in 1..Len(new) :
          new[k].is = "row" /\ new[l].is = "row" /\ new[k].day = new[l].day => k = l
  <2> SUFFICES ASSUME NEW k \in 1..Len(new), NEW l \in 1..Len(new), new[k].is = "row",
                      new[l].is = "row", new[k].day = new[l].day
               PROVE  k = l
    OBVIOUS
  <2>1. k \in 1..(2 * Len(f)) /\ l \in 1..(2 * Len(f))
    BY <1>9
  <2>2. f[(k + 1) \div 2] = f[(l + 1) \div 2] /\ k % 2 = 1 /\ l % 2 = 1
    BY <1>10
  <2>3. PICK i \in 1..Len(f) : i = (k + 1) \div 2 /\ k = 2 * i - 1
    BY <1>7, <2>1, <2>2
  <2>4. PICK j \in 1..Len(f) : j = (l + 1) \div 2 /\ l = 2 * j - 1
    BY <1>7, <2>1, <2>2
  <2>5. i = j
    BY <1>3, <2>2, <2>3, <2>4
  <2>6. QED
    BY <2>3, <2>4, <2>5
<1>12. Len(new) = 0 \/ new[Len(new)] = NL
  <2> SUFFICES ASSUME Len(new) # 0 PROVE new[Len(new)] = NL
    OBVIOUS
  <2>1. Len(new) \in 1..(2 * Len(f)) /\ Len(new) % 2 = 0
    BY <1>3, <1>9
  <2>2. QED
    BY <1>4, <2>1
<1>13. ASSUME NEW d \in Pending(at)
       PROVE  \E k \in 1..Len(new) :
                /\ new[k].is = "row" /\ new[k].day = d
                /\ k = 1 \/ new[k - 1] = NL
                /\ k + 1 \in 1..Len(new) /\ new[k + 1] = NL
  <2>1. PICK i \in 1..Len(f) : f[i] = d
    BY <1>3
  <2>2. PICK k \in 1..(2 * Len(f)) : k = 2 * i - 1
    BY <1>3
  <2>3. /\ k % 2 = 1 /\ (k + 1) \div 2 = i /\ k + 1 \in 1..(2 * Len(f)) /\ (k + 1) % 2 = 0
        /\ k = 1 \/ (k - 1 \in 1..(2 * Len(f)) /\ (k - 1) % 2 = 0)
    BY <1>3, <2>2
  <2>4. new[k] = RowOf(f[i]) /\ new[k + 1] = NL /\ (k = 1 \/ new[k - 1] = NL)
    BY <1>4, <2>3
  <2>5. QED
    BY <1>5, <1>9, <2>1, <2>3, <2>4
<1>14. QED
  BY <1>9, <1>10, <1>11, <1>12, <1>13

(* Whatever a write to daily.jsonl left of its rows is appended, and is of *)
(* them or a torn line.                                                    *)
LEMMA HalvesAppend ==
    ASSUME PingsTypeOK, NEW new \in Seq(DailyEntries), NEW x \in Halves(daily, new) \cup {daily \o new}
    PROVE  \E q \in Seq(DailyEntries) :
              /\ x = daily \o q /\ Len(q) <= Len(new)
              /\ \A k \in 1..Len(q) : q[k] \in {new[k], Torn}
<1>1. daily \in Seq(DailyEntries) /\ Torn \in DailyEntries
  BY DEF PingsTypeOK, DailyEntries
<1>2. ASSUME NEW k \in 0..(Len(new) - 1)
      PROVE  /\ SubSeq(new, 1, k) \in Seq(DailyEntries) /\ Len(SubSeq(new, 1, k)) = k
             /\ \A i \in 1..k : SubSeq(new, 1, k)[i] = new[i]
  BY <1>2
<1>3. CASE x = daily \o new
  BY <1>3
<1>4. ASSUME NEW k \in 0..(Len(new) - 1), x = daily \o SubSeq(new, 1, k)
      PROVE  \E q \in Seq(DailyEntries) :
                /\ x = daily \o q /\ Len(q) <= Len(new)
                /\ \A i \in 1..Len(q) : q[i] \in {new[i], Torn}
  <2>1. PICK p \in Seq(DailyEntries) : p = SubSeq(new, 1, k) /\ Len(p) = k /\ \A i \in 1..k : p[i] = new[i]
    BY <1>2
  <2>2. k <= Len(new)
    OBVIOUS
  <2>3. QED
    BY <1>4, <2>1, <2>2
<1>5. ASSUME NEW k \in 0..(Len(new) - 1), x = daily \o Append(SubSeq(new, 1, k), Torn)
      PROVE  \E q \in Seq(DailyEntries) :
                /\ x = daily \o q /\ Len(q) <= Len(new)
                /\ \A i \in 1..Len(q) : q[i] \in {new[i], Torn}
  <2>1. PICK p \in Seq(DailyEntries) : p = SubSeq(new, 1, k) /\ Len(p) = k /\ \A i \in 1..k : p[i] = new[i]
    BY <1>2
  <2>2. Append(p, Torn) \in Seq(DailyEntries)
    BY <1>1
  <2>3. PICK q \in Seq(DailyEntries) : q = Append(p, Torn)
    BY <2>2
  <2>4. Len(q) = k + 1 /\ q[k + 1] = Torn /\ \A i \in 1..k : q[i] = p[i]
    BY <2>1, <2>3
  <2>5. x = daily \o q
    BY <1>5, <2>1, <2>3
  <2>6. Len(q) <= Len(new) /\ \A i \in 1..Len(q) : i \in 1..k \/ i = k + 1
    BY <2>4
  <2>7. QED
    BY <1>5, <2>1, <2>4, <2>5, <2>6
<1>6. QED
  BY <1>3, <1>4, <1>5 DEF Halves

OneRow(rows) ==
    \A i, j \in DOMAIN rows : Whole(rows, i) /\ Whole(rows, j) /\ rows[i].day = rows[j].day => i = j

(* A line that can be read could be read before something was appended to  *)
(* the file, or was appended.                                              *)
LEMMA AppendedIs ==
    ASSUME NEW f \in Seq(DailyEntries), NEW q \in Seq(DailyEntries), NEW g, g = f \o q
    PROVE  /\ g \in Seq(DailyEntries) /\ Len(g) = Len(f) + Len(q)
           /\ \A i \in 1..Len(f) : g[i] = f[i]
           /\ \A k \in 1..Len(q) : g[Len(f) + k] = q[k]
           /\ \A i \in DOMAIN g : \/ i \in DOMAIN f
                                  \/ i - Len(f) \in DOMAIN q /\ g[i] = q[i - Len(f)]
           /\ \A i \in DOMAIN f : Whole(g, i) => Whole(f, i)
<1>1. /\ g \in Seq(DailyEntries) /\ Len(g) = Len(f) + Len(q)
      /\ \A i \in 1..Len(f) : g[i] = f[i]
      /\ \A k \in 1..Len(q) : g[Len(f) + k] = q[k]
  OBVIOUS
<1>2. \A i \in DOMAIN g : i \in DOMAIN f \/ (i - Len(f) \in DOMAIN q /\ g[i] = q[i - Len(f)])
  BY <1>1
<1>3. ASSUME NEW i \in DOMAIN f, Whole(g, i) PROVE Whole(f, i)
  <2>1. i \in 1..Len(f) /\ g[i] = f[i] /\ (i = 1 \/ g[i - 1] = f[i - 1])
    BY <1>1
  <2>2. i = Len(f) \/ (g[i + 1] = f[i + 1] /\ i # Len(g))
    BY <1>1, <2>1
  <2>3. QED
    BY <1>3, <2>1, <2>2 DEF Whole
<1>4. QED
  BY <1>1, <1>2, <1>3

RowsInv == PingsTypeOK /\ OneRow(daily)

LEMMA RollupRows ==
    ASSUME RowsInv, NEW at, NEW new \in Rows(at), NEW x \in Halves(daily, new) \cup {daily \o new}
    PROVE  x \in Seq(DailyEntries) /\ OneRow(x)
<1>1. new \in Seq(DailyEntries)
  BY RowsAre DEF RowsInv
<1>2. PICK q \in Seq(DailyEntries) : /\ x = daily \o q /\ Len(q) <= Len(new)
                                     /\ \A k \in 1..Len(q) : q[k] \in {new[k], Torn}
  BY <1>1, HalvesAppend DEF RowsInv
<1>3. daily \in Seq(DailyEntries)
  BY DEF RowsInv, PingsTypeOK
<1>4. /\ x \in Seq(DailyEntries)
      /\ \A i \in DOMAIN x : \/ i \in DOMAIN daily
                             \/ i - Len(daily) \in DOMAIN q /\ x[i] = q[i - Len(daily)]
      /\ \A i \in DOMAIN daily : x[i] = daily[i] /\ (Whole(x, i) => Whole(daily, i))
  <2> DEFINE g == daily \o q
  <2>1. /\ g \in Seq(DailyEntries)
        /\ \A i \in DOMAIN g : \/ i \in DOMAIN daily
                               \/ i - Len(daily) \in DOMAIN q /\ g[i] = q[i - Len(daily)]
        /\ \A i \in 1..Len(daily) : g[i] = daily[i]
        /\ \A i \in DOMAIN daily : Whole(g, i) => Whole(daily, i)
    BY <1>3, AppendedIs
  <2>2. x = g /\ DOMAIN daily = 1..Len(daily)
    BY <1>2, <1>3
  <2>3. QED
    BY <2>1, <2>2
<1>5. \A y \in DailyEntries : y.is \in {"line", "row"} => y.is = "row" /\ y.day \in Days
  BY DEF DailyEntries, NL, Torn
<1>6. \A k \in DOMAIN q : q[k].is = "row" => k \in 1..Len(new) /\ q[k] = new[k] /\ new[k].day \in Pending(at)
  <2> SUFFICES ASSUME NEW k \in DOMAIN q, q[k].is = "row"
               PROVE  k \in 1..Len(new) /\ q[k] = new[k] /\ new[k].day \in Pending(at)
    OBVIOUS
  <2>1. k \in 1..Len(q) /\ k \in 1..Len(new)
    BY <1>1, <1>2
  <2>2. q[k] = new[k]
    BY <1>2, <2>1 DEF Torn
  <2>3. QED
    BY <2>1, <2>2, RowsAre DEF RowsInv
<1>7. ASSUME NEW i \in DOMAIN x, Whole(x, i), i \notin DOMAIN daily
      PROVE  /\ i - Len(daily) \in DOMAIN q /\ x[i] = q[i - Len(daily)]
             /\ q[i - Len(daily)].is = "row" /\ x[i].day \in Pending(at)
  <2>1. i - Len(daily) \in DOMAIN q /\ x[i] = q[i - Len(daily)]
    BY <1>4, <1>7
  <2>2. x[i] \in DailyEntries /\ x[i].is \in {"line", "row"}
    BY <1>4, <1>7 DEF Whole
  <2>3. QED
    BY <1>5, <1>6, <2>1, <2>2
<1>8. ASSUME NEW i \in DOMAIN daily, Whole(x, i) PROVE x[i].day \notin Pending(at)
  BY <1>4, <1>8 DEF Pending, written_dates, Readable
<1>9. ASSUME NEW i \in DOMAIN x, NEW j \in DOMAIN x, Whole(x, i), Whole(x, j), x[i].day = x[j].day
      PROVE  i = j
  <2>1. CASE i \in DOMAIN daily /\ j \in DOMAIN daily
    BY <1>4, <1>9, <2>1 DEF RowsInv, OneRow
  <2>2. CASE i \notin DOMAIN daily /\ j \notin DOMAIN daily
    <3>1. i - Len(daily) = j - Len(daily)
      <4>1. \A k, l \in 1..Len(new) :
              new[k].is = "row" /\ new[l].is = "row" /\ new[k].day = new[l].day => k = l
        BY RowsAre DEF RowsInv
      <4>2. QED
        BY <1>6, <1>7, <1>9, <2>2, <4>1
    <3>2. QED
      BY <1>3, <1>4, <3>1
  <2>3. QED
    BY <1>7, <1>8, <1>9, <2>1, <2>2
<1>10. QED
  BY <1>4, <1>9 DEF OneRow

DatesIn(rows) == {line.day : line \in Readable(rows)}
EndsWhole(rows) == Len(rows) = 0 \/ rows[Len(rows)] = NL

(* Appended to a file without a torn line, the rows of a roll-up can be    *)
(* read, and so can all that could before.                                 *)
LEMMA RollupDates ==
    ASSUME PingsTypeOK, EndsWhole(daily), NEW at, NEW new \in Rows(at), NEW x, x = daily \o new
    PROVE  EndsWhole(x) /\ DatesIn(daily) \cup Pending(at) \subseteq DatesIn(x)
<1>1. PICK n \in Nat : n = Len(daily) /\ DOMAIN daily = 1..n
  BY DEF PingsTypeOK
<1>2. daily \in Seq(DailyEntries) /\ new \in Seq(DailyEntries) /\ Len(new) \in Nat
  BY RowsAre DEF PingsTypeOK
<1>3. /\ x \in Seq(DailyEntries) /\ Len(x) = n + Len(new) /\ DOMAIN x = 1..(n + Len(new))
      /\ \A i \in 1..n : x[i] = daily[i]
      /\ \A k \in 1..Len(new) : x[n + k] = new[k]
  BY <1>1, <1>2
<1>4. NL.is = "end"
  BY DEF NL
<1>5. EndsWhole(x)
  <2>1. CASE Len(new) = 0
    BY <1>1, <1>3, <2>1 DEF EndsWhole
  <2>2. CASE Len(new) # 0
    <3>1. new[Len(new)] = NL
      BY <2>2, RowsAre
    <3>2. Len(new) \in 1..Len(new)
      BY <1>2, <2>2
    <3>3. QED
      BY <1>3, <3>1, <3>2 DEF EndsWhole
  <2>3. QED
    BY <2>1, <2>2
<1>6. ASSUME NEW i \in DOMAIN daily, Whole(daily, i) PROVE i \in DOMAIN x /\ Whole(x, i) /\ x[i] = daily[i]
  <2>1. i \in 1..n /\ x[i] = daily[i]
    BY <1>1, <1>3
  <2>2. i # n
    <3> SUFFICES ASSUME i = n PROVE FALSE
      OBVIOUS
    <3>1. daily[n] = NL
      BY <1>1, <2>1 DEF EndsWhole
    <3>2. QED
      BY <1>4, <1>6, <3>1 DEF Whole
  <2>3. i + 1 \in 1..n /\ (i = 1 \/ i - 1 \in 1..n)
    BY <1>1, <2>1, <2>2
  <2>4. daily[i + 1] = NL /\ (i = 1 \/ daily[i - 1] = NL) /\ daily[i].is \in {"line", "row"}
    BY <1>1, <1>6, <2>2 DEF Whole
  <2>5. x[i + 1] = NL /\ (i = 1 \/ x[i - 1] = NL)
    BY <1>3, <2>3, <2>4
  <2>6. i \in 1..(n + Len(new))
    BY <1>1, <1>2, <2>1
  <2>7. QED
    BY <1>3, <2>1, <2>4, <2>5, <2>6 DEF Whole
<1>7. DatesIn(daily) \subseteq DatesIn(x)
  BY <1>6 DEF DatesIn, Readable
<1>8. ASSUME NEW d \in Pending(at) PROVE d \in DatesIn(x)
  <2>1. PICK k \in 1..Len(new) :
           /\ new[k].is = "row" /\ new[k].day = d
           /\ k = 1 \/ new[k - 1] = NL
           /\ k + 1 \in 1..Len(new) /\ new[k + 1] = NL
    BY RowsAre
  <2>2. PICK i \in 1..(n + Len(new)) : i = n + k
    BY <1>1, <1>2
  <2>3. x[i] = new[k] /\ x[i + 1] = NL
    <3>1. PICK l \in 1..Len(new) : l = k + 1 /\ new[l] = NL
      BY <2>1
    <3>2. n + l = i + 1
      BY <1>1, <1>2, <2>2, <3>1
    <3>3. QED
      BY <1>3, <2>1, <2>2, <3>1, <3>2
  <2>4. i = 1 \/ x[i - 1] = NL
    <3>1. CASE k = 1
      BY <1>1, <1>3, <2>2, <3>1 DEF EndsWhole
    <3>2. CASE k # 1
      <4>1. PICK j \in 1..Len(new) : j = k - 1 /\ new[j] = NL
        <5>1. k - 1 \in 1..Len(new)
          BY <3>2
        <5>2. QED
          BY <2>1, <3>2, <5>1
      <4>2. n + j = i - 1
        BY <1>1, <1>2, <2>2, <4>1
      <4>3. QED
        BY <1>3, <4>1, <4>2
    <3>3. QED
      BY <3>1, <3>2
  <2>5. Whole(x, i) /\ i \in DOMAIN x
    BY <1>3, <2>1, <2>2, <2>3, <2>4 DEF Whole
  <2>6. x[i] \in Readable(x) /\ x[i].day = d
    BY <2>1, <2>3, <2>5 DEF Readable
  <2>7. QED
    BY <2>6 DEF DatesIn
<1>9. QED
  BY <1>5, <1>7, <1>8

-----------------------------------------------------------------------------
(* Pings: the invariant and the steps that keep it                         *)

(* Nobody works on an old request, since the clock waits (LAG); and as     *)
(* long as nothing fails, what a maintenance is about to throw away has    *)
(* its row.                                                                *)
Timely ==
    \A w \in PingWorkers : ping_worker[w].pc # "idle" =>
        ping_worker[w].at <= ping_now /\ ping_now - ping_worker[w].at <= LAG
Summed(at) == \A d \in Days : log[d] # <<>> /\ d * DAY_SECS < at - KEEP_DAYS * DAY_SECS => d \in DatesIn(daily)
Tidy ==
    /\ server = "up" /\ EndsWhole(daily)
    /\ \A w \in PingWorkers : ping_worker[w].pc = "prune" => Summed(ping_worker[w].at)

PingInv ==
    /\ PingsTypeOK /\ IsFiniteSet(sent)
    /\ OneRow(daily)
    /\ Timely
    /\ trouble = 0 => Tidy

LEMMA PingNumbers ==
    /\ DAY_SECS \in Nat \ {0} /\ LAG \in Nat /\ REPLAY_DAYS \in Nat /\ KEEP_DAYS \in Nat /\ MaxPings \in Nat /\ MaxPingTime \in Nat
    /\ MaxPingTrouble \in Nat /\ KEEP_DAYS * DAY_SECS \in Nat /\ DAY_SECS + LAG <= KEEP_DAYS * DAY_SECS
  BY PingsAssumption

(* What record makes of an index: one more ping of the device at most, and *)
(* of no other one more.                                                   *)
Indexes == [saved_at : Nat, devices : [Devices -> Figures], dirty : BOOLEAN]
Snapshots == [saved_at : Nat, devices : [Devices -> Figures]]

LEMMA UnknownIs == Unknown \in Figures /\ Unknown.pings = 0 /\ NoDevices \in [Devices -> Figures]
  BY DEF Unknown, Figures, NoDevices

LEMMA RecordIs ==
    ASSUME NEW ix \in Indexes, NEW id \in Devices, NEW at \in Nat
    PROVE  LET new == record(ix, id, at) IN
           /\ new \in Indexes /\ [new EXCEPT !.dirty = FALSE] \in Indexes
           /\ [saved_at |-> new.saved_at, devices |-> new.devices] \in Snapshots
           /\ new.saved_at >= ix.saved_at /\ new.saved_at >= at
           /\ new.devices[id].pings <= ix.devices[id].pings + 1
           /\ \A d \in Devices \ {id} : new.devices[d].pings <= ix.devices[d].pings
<1> DEFINE old == ix.devices[id]
           first == IF old.first_seen = 0 \/ at < old.first_seen THEN at ELSE old.first_seen
           fig == [first_seen |-> first, last_seen |-> MaxOf(old.last_seen, at), pings |-> old.pings + 1]
           entered == [ix.devices EXCEPT ![id] = fig]
           new == record(ix, id, at)
<1>1. ix.saved_at \in Nat /\ ix.devices \in [Devices -> Figures] /\ old \in Figures
  BY DEF Indexes
<1>2. \A a, b \in Nat : MaxOf(a, b) \in Nat /\ MaxOf(a, b) >= a /\ MaxOf(a, b) >= b
  BY DEF MaxOf
<1>3. old.first_seen \in Nat /\ old.last_seen \in Nat /\ old.pings \in Nat
  BY <1>1 DEF Figures
<1>4. fig \in Figures /\ fig.pings = old.pings + 1
  <2>1. first \in Nat /\ MaxOf(old.last_seen, at) \in Nat
    BY <1>2, <1>3
  <2> HIDE DEF first, old
  <2>2. QED
    BY <1>3, <2>1 DEF Figures
<1>5. new = [saved_at |-> MaxOf(ix.saved_at, at), dirty |-> TRUE, devices |-> evict(entered)]
  BY DEF record
<1> HIDE DEF fig, new
<1>6. /\ entered \in [Devices -> Figures] /\ entered[id] = fig
      /\ \A d \in Devices \ {id} : entered[d] = ix.devices[d]
  BY <1>1, <1>4
<1> HIDE DEF entered
<1>7. /\ evict(entered) \in [Devices -> Figures]
      /\ \A d \in Devices : evict(entered)[d] = entered[d] \/ evict(entered)[d] = Unknown
  BY <1>6, UnknownIs DEF evict
<1>8. \A d \in Devices : evict(entered)[d].pings <= entered[d].pings
  <2> SUFFICES ASSUME NEW d \in Devices PROVE evict(entered)[d].pings <= entered[d].pings
    OBVIOUS
  <2>1. entered[d].pings \in Nat
    BY <1>6 DEF Figures
  <2>2. QED
    BY <1>7, <2>1, UnknownIs
<1>9. new.devices = evict(entered) /\ new.saved_at = MaxOf(ix.saved_at, at) /\ new.dirty
  BY <1>5
<1>10. new \in Indexes
  BY <1>1, <1>2, <1>5, <1>7 DEF Indexes
<1>11. new.saved_at >= ix.saved_at /\ new.saved_at >= at
  BY <1>1, <1>2, <1>9
<1>12. new.devices[id].pings <= old.pings + 1 /\ \A d \in Devices \ {id} : new.devices[d].pings <= ix.devices[d].pings
  BY <1>4, <1>6, <1>8, <1>9
<1>13. [new EXCEPT !.dirty = FALSE] \in Indexes /\ [saved_at |-> new.saved_at, devices |-> new.devices] \in Snapshots
  BY <1>10 DEF Indexes, Snapshots
<1>14. QED
  BY <1>10, <1>11, <1>12, <1>13 DEF new

(* What saving it leaves.                                                  *)
LEMMA SavedTypes ==
    ASSUME PingsTypeOK, Saved
    PROVE  /\ index' \in Indexes /\ snapshot' \in Snapshots
           /\ index'.saved_at = index.saved_at /\ index'.devices = index.devices
           /\ \/ UNCHANGED snapshot
              \/ snapshot' = [saved_at |-> index.saved_at, devices |-> index.devices]
<1>1. index \in Indexes /\ snapshot \in Snapshots
  BY DEF PingsTypeOK, Indexes, Snapshots
<1>2. /\ [index EXCEPT !.dirty = FALSE] \in Indexes
      /\ [saved_at |-> index.saved_at, devices |-> index.devices] \in Snapshots
      /\ [index EXCEPT !.dirty = FALSE].saved_at = index.saved_at
      /\ [index EXCEPT !.dirty = FALSE].devices = index.devices
  BY <1>1 DEF Indexes, Snapshots
<1>3. QED
  BY <1>1, <1>2 DEF Saved

LEMMA PingsStart == PingsInit => PingInv
<1> SUFFICES ASSUME PingsInit PROVE PingInv
  OBVIOUS
<1>1. PingsTypeOK
  <2>1. snapshot \in [saved_at : Nat, devices : [Devices -> Figures]] /\ index \in Indexes
    BY UnknownIs DEF PingsInit, Indexes
  <2>2. reading \in [day : Nat, line : Nat \ {0}]
    BY DEF PingsInit, NotReading
  <2>3. QED
    BY <2>1, <2>2, PingNumbers, PingsAssumption DEF PingsInit, PingsTypeOK, Requests, NoOne, Indexes
<1>2. IsFiniteSet(sent)
  BY FS_EmptySet DEF PingsInit
<1>3. OneRow(daily) /\ Timely /\ Tidy
  BY DEF PingsInit, OneRow, Timely, Tidy, EndsWhole, NoRequest
<1>4. QED
  BY <1>1, <1>2, <1>3 DEF PingInv

(* What a worker is at, and that a turn to the next step of the same       *)
(* request leaves a request.                                               *)
LEMMA RequestIs ==
    ASSUME NEW r \in Requests
    PROVE  /\ r.pc \in {"idle", "line", "end", "record", "flush", "rollup", "prune"}
           /\ r.pc # "idle" => r.at \in 0..MaxPingTime
           /\ r.pc \in {"line", "end", "record"} =>
                r.n \in 1..MaxPings /\ r.id \in Devices
           /\ \A pc \in {"line", "end", "record"} : r.pc \in {"line", "end", "record"} =>
                [r EXCEPT !.pc = pc] \in Requests
           /\ \A pc \in {"flush", "rollup", "prune"} : r.pc \in {"flush", "rollup", "prune"} =>
                [r EXCEPT !.pc = pc] \in Requests
           /\ \A pc : [r EXCEPT !.pc = pc].pc = pc /\ [r EXCEPT !.pc = pc].at = r.at
  BY DEF Requests, NoRequest

LEMMA WorkerTurns ==
    ASSUME PingInv, NEW w \in PingWorkers, NEW r \in Requests,
           r.pc = "idle" \/ (r.at <= ping_now /\ ping_now - r.at <= LAG),
           ping_worker' = [ping_worker EXCEPT ![w] = r], ping_now' = ping_now
    PROVE  ping_worker' \in [PingWorkers -> Requests] /\ Timely'
<1>1. ping_worker \in [PingWorkers -> Requests]
  BY DEF PingInv, PingsTypeOK
<1>2. ping_worker' \in [PingWorkers -> Requests] /\ ping_worker'[w] = r
      /\ \A v \in PingWorkers : v # w => ping_worker'[v] = ping_worker[v]
  BY <1>1
<1>3. ASSUME NEW v \in PingWorkers, ping_worker'[v].pc # "idle"
      PROVE  ping_worker'[v].at <= ping_now' /\ ping_now' - ping_worker'[v].at <= LAG
  BY <1>2, <1>3 DEF PingInv, Timely
<1>4. QED
  BY <1>2, <1>3 DEF Timely

LEMMA PingKeeps == ASSUME PingInv, NEW w \in PingWorkers, NEW d \in Devices, Ping(w, d) PROVE PingInv'
<1>1. PICK n : n = Cardinality(sent) + 1
  OBVIOUS
<1>2. Cardinality(sent) \in Nat /\ Cardinality(sent) < MaxPings
  BY FS_CardinalityType DEF PingInv, Ping
<1>3. n \in 1..MaxPings
  BY <1>1, <1>2, PingNumbers
<1>4. PICK p : p = [n |-> n, id |-> d, at |-> ping_now]
  OBVIOUS
<1>5. PICK r : r = [pc |-> "line", n |-> n, id |-> d, at |-> ping_now]
  OBVIOUS
<1>6. sent' = sent \cup {p} /\ ping_worker' = [ping_worker EXCEPT ![w] = r]
  BY <1>1, <1>4, <1>5 DEF Ping
<1>7. ping_now \in 0..MaxPingTime
  BY DEF PingInv, PingsTypeOK
<1>8. r \in Requests /\ r.at <= ping_now /\ ping_now - r.at <= LAG
  BY <1>3, <1>5, <1>7, PingNumbers DEF Requests
<1>9. ping_worker' \in [PingWorkers -> Requests] /\ Timely'
  BY <1>6, <1>8, WorkerTurns DEF Ping
<1>10. sent' \subseteq [n : 1..MaxPings, id : Devices, at : 0..MaxPingTime] /\ IsFiniteSet(sent')
  <2>1. p \in [n : 1..MaxPings, id : Devices, at : 0..MaxPingTime]
    BY <1>3, <1>4, <1>7
  <2>2. IsFiniteSet(sent \cup {p})
    BY FS_AddElement DEF PingInv
  <2>3. QED
    BY <1>6, <2>1, <2>2 DEF PingInv, PingsTypeOK
<1>11. PingsTypeOK' /\ OneRow(daily)'
  BY <1>9, <1>10 DEF PingInv, PingsTypeOK, OneRow, Ping, ping_files
<1>12. (trouble = 0 => Tidy)'
  <2>1. ASSUME NEW v \in PingWorkers, ping_worker'[v].pc = "prune"
        PROVE  ping_worker'[v] = ping_worker[v]
    BY <1>5, <1>6, <2>1 DEF PingInv, PingsTypeOK
  <2>2. QED
    BY <2>1 DEF PingInv, Tidy, Summed, Ping, ping_files
<1>13. QED
  BY <1>9, <1>10, <1>11, <1>12 DEF PingInv

(* A write of a ping to the log of its day is not one to a log about to be *)
(* thrown away: neither the ping nor the maintenance takes that long.      *)
LEMMA LateForPruning ==
    ASSUME PingInv, NEW w \in PingWorkers, ping_worker[w].pc # "idle",
           NEW v \in PingWorkers, ping_worker[v].pc # "idle"
    PROVE  ~(DayOf(ping_worker[w].at) * DAY_SECS < ping_worker[v].at - KEEP_DAYS * DAY_SECS)
<1> ping_worker[w] \in Requests /\ ping_worker[v] \in Requests
  BY DEF PingInv, PingsTypeOK
<1>a. ASSUME NEW r \in Requests, r.pc # "idle" PROVE r.at \in Nat
  <2>1. r.at \in 0..MaxPingTime
    BY <1>a, RequestIs
  <2>2. QED
    BY <2>1, PingNumbers
<1>1. PICK a \in Nat : a = ping_worker[w].at
  BY <1>a
<1>2. PICK b \in Nat : b = ping_worker[v].at
  BY <1>a
<1>3. PICK m \in Nat : m = DayOf(a) * DAY_SECS /\ a < m + DAY_SECS
  BY DayBounds, PingNumbers
<1>4. ping_now \in Nat /\ b <= ping_now /\ ping_now - a <= LAG
  BY <1>1, <1>2, PingNumbers DEF PingInv, PingsTypeOK, Timely
<1>5. PICK keep \in Nat : keep = KEEP_DAYS * DAY_SECS /\ DAY_SECS + LAG <= keep
  BY PingNumbers
<1>6. ~(m < b - keep)
  BY <1>3, <1>4, <1>5, PingNumbers
<1>7. QED
  BY <1>1, <1>2, <1>3, <1>5, <1>6

LEMMA LogAppended ==
    ASSUME PingsTypeOK, NEW day \in Days, NEW e \in LogEntries, log' = [log EXCEPT ![day] = Append(@, e)]
    PROVE  /\ log' \in [Days -> Seq(LogEntries)] /\ log'[day] # <<>>
           /\ \A d \in Days : d # day => log'[d] = log[d]
<1>1. PICK f \in Seq(LogEntries) : f = log[day]
  BY DEF PingsTypeOK
<1>2. Append(f, e) \in Seq(LogEntries) /\ Append(f, e) # <<>>
  <2>1. Append(f, e) \in Seq(LogEntries) /\ Len(Append(f, e)) = Len(f) + 1 /\ Len(f) \in Nat
    OBVIOUS
  <2>2. Len(<<>>) = 0
    OBVIOUS
  <2>3. QED
    BY <2>1, <2>2
<1>3. log \in [Days -> Seq(LogEntries)] /\ log' = [log EXCEPT ![day] = Append(f, e)]
  BY <1>1 DEF PingsTypeOK
<1>4. QED
  BY <1>2, <1>3

(* What a write to a log leaves: its worker goes on to s.                  *)
LEMMA LogWritten ==
    ASSUME PingInv, NEW w \in PingWorkers, ping_worker[w].pc # "idle",
           NEW s \in Requests, s.pc \notin {"idle", "prune"}, s.at = ping_worker[w].at,
           NEW e \in LogEntries,
           log' = [log EXCEPT ![DayOf(ping_worker[w].at)] = Append(@, e)],
           ping_worker' = [ping_worker EXCEPT ![w] = s], UNCHANGED <<ping_now, daily, server, trouble>>
    PROVE  /\ log' \in [Days -> Seq(LogEntries)]
           /\ ping_worker' \in [PingWorkers -> Requests]
           /\ Timely'
           /\ (trouble = 0 => Tidy)'
<1> DEFINE day == DayOf(ping_worker[w].at)
<1>1. ping_worker \in [PingWorkers -> Requests]
  BY DEF PingInv, PingsTypeOK
<1>2. ping_worker[w].at \in 0..MaxPingTime
  BY <1>1, RequestIs
<1>3. day \in Days
  BY <1>2, DayBounds
<1>4. /\ log' \in [Days -> Seq(LogEntries)] /\ log'[day] # <<>>
      /\ \A d \in Days : d # day => log'[d] = log[d]
  BY <1>3, LogAppended DEF PingInv
<1>5. ping_worker' \in [PingWorkers -> Requests] /\ Timely'
  <2>1. s.at <= ping_now /\ ping_now - s.at <= LAG
    BY DEF PingInv, Timely
  <2>2. QED
    BY <2>1, WorkerTurns
<1>6. ASSUME trouble = 0 PROVE Tidy'
  <2>1. ASSUME NEW v \in PingWorkers, ping_worker'[v].pc = "prune"
        PROVE  ping_worker'[v] = ping_worker[v]
    BY <1>1, <2>1
  <2>2. ASSUME NEW v \in PingWorkers, ping_worker'[v].pc = "prune", NEW d \in Days,
               log'[d] # <<>>, d * DAY_SECS < ping_worker'[v].at - KEEP_DAYS * DAY_SECS
        PROVE  d \in DatesIn(daily)
    <3>1. ping_worker[v].pc = "prune" /\ d * DAY_SECS < ping_worker[v].at - KEEP_DAYS * DAY_SECS
      BY <2>1, <2>2
    <3>2. d # day
      BY <3>1, LateForPruning
    <3>3. QED
      BY <1>4, <1>6, <2>2, <3>1, <3>2 DEF PingInv, Tidy, Summed
  <2>3. QED
    BY <1>6, <2>2 DEF PingInv, Tidy, Summed
<1>7. QED
  BY <1>4, <1>5, <1>6

(* What a failure leaves of the invariant, to which Tidy says nothing.     *)
LEMMA TroubleIsCounted ==
    PingInv /\ PingTrouble => trouble' \in 0..MaxPingTrouble /\ (trouble = 0 => Tidy)'
<1> SUFFICES ASSUME PingInv, PingTrouble PROVE trouble' \in 0..MaxPingTrouble /\ trouble' # 0
  OBVIOUS
<1>1. QED
  BY PingNumbers DEF PingTrouble, PingInv, PingsTypeOK

LEMMA Drop == NoRequest \in Requests /\ NoRequest.pc = "idle"
  BY DEF Requests, NoRequest

LEMMA WriteLineKeeps == ASSUME PingInv, NEW w \in PingWorkers, WriteLine(w) PROVE PingInv'
<1> DEFINE r == ping_worker[w]
           day == DayOf(r.at)
           between == {v \in PingWorkers \ {w} : ping_worker[v].pc = "end" /\ DayOf(ping_worker[v].at) = day}
<1>1. ping_worker \in [PingWorkers -> Requests] /\ r \in Requests /\ r.pc = "line"
  BY DEF PingInv, PingsTypeOK, WriteLine
<1>2. r.at \in 0..MaxPingTime /\ r.n \in 1..MaxPings /\ r.id \in Devices
  BY <1>1, RequestIs
<1>3. CASE /\ log' = [log EXCEPT ![day] = Append(@, Line(r.n, r.id, r.at))]
           /\ ping_worker' = [ping_worker EXCEPT ![w].pc = "end"]
           /\ mixed' = IF between = {} THEN mixed ELSE mixed \cup {ping_worker[v].n : v \in between \cup {w}}
           /\ UNCHANGED <<torn, trouble>>
  <2>1. PICK e \in LogEntries : e = Line(r.n, r.id, r.at)
    BY <1>2 DEF Line, LogEntries
  <2>2. PICK s \in Requests : s = [r EXCEPT !.pc = "end"] /\ s.pc = "end" /\ s.at = r.at
    BY <1>1, RequestIs
  <2>3. ping_worker' = [ping_worker EXCEPT ![w] = s]
    BY <1>1, <1>3, <2>2
  <2>4. /\ log' \in [Days -> Seq(LogEntries)] /\ ping_worker' \in [PingWorkers -> Requests]
        /\ Timely' /\ (trouble = 0 => Tidy)'
    BY <1>1, <1>3, <2>1, <2>2, <2>3, LogWritten DEF WriteLine
  <2>5. mixed' \subseteq 1..MaxPings
    <3>1. \A v \in between \cup {w} : ping_worker[v].n \in 1..MaxPings
      BY <1>1, <1>2, RequestIs
    <3>2. QED
      BY <1>3, <3>1 DEF PingInv, PingsTypeOK
  <2>6. QED
    BY <1>3, <2>4, <2>5 DEF PingInv, PingsTypeOK, OneRow, WriteLine
<1>4. CASE /\ PingTrouble /\ ping_worker' = [ping_worker EXCEPT ![w] = NoRequest]
           /\ \/ UNCHANGED <<log, mixed, torn>>
              \/ /\ log' = [log EXCEPT ![day] = Append(@, Torn)] /\ torn' = torn + 1
                 /\ mixed' = mixed \cup {ping_worker[v].n : v \in between}
  <2>1. ping_worker' \in [PingWorkers -> Requests] /\ Timely'
    BY <1>4, Drop, WorkerTurns DEF WriteLine
  <2>2. trouble' \in 0..MaxPingTrouble /\ (trouble = 0 => Tidy)'
    BY <1>4, TroubleIsCounted
  <2>3. log' \in [Days -> Seq(LogEntries)]
    <3>1. Torn \in LogEntries /\ day \in Days
      BY <1>2, DayBounds DEF LogEntries
    <3>2. QED
      BY <1>4, <3>1, LogAppended DEF PingInv, PingsTypeOK
  <2>4. mixed' \subseteq 1..MaxPings
    <3>1. \A v \in between : ping_worker[v].n \in 1..MaxPings
      BY <1>1, RequestIs
    <3>2. PICK hurt : hurt = {ping_worker[v].n : v \in between}
      OBVIOUS
    <3>3. hurt \subseteq 1..MaxPings
      BY <3>1, <3>2
    <3>4. mixed' = mixed \/ mixed' = mixed \cup hurt
      BY <1>4, <3>2
    <3>5. QED
      BY <3>3, <3>4 DEF PingInv, PingsTypeOK
  <2>5. torn' \in Nat
    BY <1>4 DEF PingInv, PingsTypeOK
  <2>6. QED
    BY <2>1, <2>2, <2>3, <2>4, <2>5 DEF PingInv, PingsTypeOK, OneRow, WriteLine
<1>5. QED
  BY <1>1, <1>3, <1>4 DEF WriteLine

LEMMA WriteEndKeeps == ASSUME PingInv, NEW w \in PingWorkers, WriteEnd(w) PROVE PingInv'
<1> DEFINE r == ping_worker[w]
<1>1. ping_worker \in [PingWorkers -> Requests] /\ r \in Requests /\ r.pc = "end"
  BY DEF PingInv, PingsTypeOK, WriteEnd
<1>2. CASE /\ log' = [log EXCEPT ![DayOf(r.at)] = Append(@, NL)]
           /\ ping_worker' = [ping_worker EXCEPT ![w].pc = "record"]
           /\ UNCHANGED <<mixed, trouble>>
  <2>1. NL \in LogEntries
    BY DEF LogEntries
  <2>2. PICK s \in Requests : s = [r EXCEPT !.pc = "record"] /\ s.pc = "record" /\ s.at = r.at
    BY <1>1, RequestIs
  <2>3. ping_worker' = [ping_worker EXCEPT ![w] = s]
    BY <1>1, <1>2, <2>2
  <2>4. /\ log' \in [Days -> Seq(LogEntries)] /\ ping_worker' \in [PingWorkers -> Requests]
        /\ Timely' /\ (trouble = 0 => Tidy)'
    BY <1>1, <1>2, <2>1, <2>2, <2>3, LogWritten DEF WriteEnd
  <2>5. QED
    BY <1>2, <2>4 DEF PingInv, PingsTypeOK, OneRow, WriteEnd
<1>3. CASE /\ PingTrouble /\ ping_worker' = [ping_worker EXCEPT ![w] = NoRequest]
           /\ mixed' = mixed \cup {r.n} /\ UNCHANGED log
  <2>1. ping_worker' \in [PingWorkers -> Requests] /\ Timely'
    BY <1>3, Drop, WorkerTurns DEF WriteEnd
  <2>2. r.n \in 1..MaxPings
    BY <1>1, RequestIs
  <2>3. trouble' \in 0..MaxPingTrouble /\ (trouble = 0 => Tidy)'
    BY <1>3, TroubleIsCounted
  <2>4. QED
    BY <1>3, <2>1, <2>2, <2>3 DEF PingInv, PingsTypeOK, OneRow, WriteEnd
<1>4. QED
  BY <1>2, <1>3 DEF WriteEnd

(* A turn after which its worker is not about to prune.                    *)
LEMMA TidyStays ==
    ASSUME PingInv, NEW w \in PingWorkers, NEW s \in Requests, s.pc # "prune",
           ping_worker' = [ping_worker EXCEPT ![w] = s], UNCHANGED <<log, daily, server, trouble>>
    PROVE  (trouble = 0 => Tidy)'
<1>1. ASSUME NEW v \in PingWorkers, ping_worker'[v].pc = "prune"
      PROVE  ping_worker'[v] = ping_worker[v]
  BY <1>1 DEF PingInv, PingsTypeOK
<1>2. QED
  BY <1>1 DEF PingInv, Tidy, Summed

LEMMA RecordKeeps == ASSUME PingInv, NEW w \in PingWorkers, Record(w) PROVE PingInv'
<1>1. ping_worker[w] \in Requests /\ ping_worker[w].pc = "record"
  BY DEF PingInv, PingsTypeOK, Record
<1>2. ping_worker[w].n \in 1..MaxPings
  BY <1>1, RequestIs
<1>3. answered' = answered \cup {ping_worker[w].n} /\ ping_worker' = [ping_worker EXCEPT ![w] = NoRequest]
  BY DEF Record
<1>4. /\ ping_worker' \in [PingWorkers -> Requests] /\ Timely' /\ (trouble = 0 => Tidy)'
  BY <1>3, Drop, WorkerTurns, TidyStays DEF Record
<1>5. index' \in Indexes /\ snapshot' \in Snapshots
  <2>1. index \in Indexes /\ snapshot \in Snapshots /\ ping_worker[w].id \in Devices
    BY <1>1, RequestIs DEF PingInv, PingsTypeOK, Indexes, Snapshots
  <2>2. ping_worker[w].at \in 0..MaxPingTime
    BY <1>1, RequestIs
  <2>3. ping_worker[w].at \in Nat
    BY <2>2, PingNumbers
  <2>4. PICK new : new = record(index, ping_worker[w].id, ping_worker[w].at)
    OBVIOUS
  <2>5. new \in Indexes /\ [new EXCEPT !.dirty = FALSE] \in Indexes
        /\ [saved_at |-> new.saved_at, devices |-> new.devices] \in Snapshots
    BY <2>1, <2>3, <2>4, RecordIs
  <2>6. QED
    BY <2>1, <2>4, <2>5 DEF Record
<1>6. QED
  BY <1>2, <1>3, <1>4, <1>5 DEF PingInv, PingsTypeOK, OneRow, Record, Indexes, Snapshots

LEMMA MaintainBeginKeeps == ASSUME PingInv, NEW w \in PingWorkers, MaintainBegin(w) PROVE PingInv'
<1>1. ping_now \in 0..MaxPingTime
  BY DEF PingInv, PingsTypeOK
<1>2. PICK s \in Requests : s = [pc |-> "flush", n |-> 0, id |-> 0, at |-> ping_now]
  BY <1>1 DEF Requests
<1>3. ping_worker' = [ping_worker EXCEPT ![w] = s] /\ s.at <= ping_now /\ ping_now - s.at <= LAG
  BY <1>1, <1>2, PingNumbers DEF MaintainBegin
<1>4. /\ ping_worker' \in [PingWorkers -> Requests] /\ Timely' /\ (trouble = 0 => Tidy)'
  BY <1>2, <1>3, WorkerTurns, TidyStays DEF MaintainBegin, ping_files
<1>5. QED
  BY <1>4 DEF PingInv, PingsTypeOK, OneRow, MaintainBegin, ping_files

LEMMA MaintainFlushKeeps == ASSUME PingInv, NEW w \in PingWorkers, MaintainFlush(w) PROVE PingInv'
<1> DEFINE r == ping_worker[w]
<1>1. ping_worker \in [PingWorkers -> Requests] /\ r \in Requests /\ r.pc = "flush"
  BY DEF PingInv, PingsTypeOK, MaintainFlush
<1>2. PICK s \in Requests : s = [r EXCEPT !.pc = "rollup"] /\ s.pc = "rollup" /\ s.at = r.at
  BY <1>1, RequestIs
<1>3. ping_worker' = [ping_worker EXCEPT ![w] = s]
  BY <1>1, <1>2 DEF MaintainFlush
<1>4. s.at <= ping_now /\ ping_now - s.at <= LAG
  BY <1>1, <1>2 DEF PingInv, Timely
<1>5. ping_worker' \in [PingWorkers -> Requests] /\ Timely'
  BY <1>2, <1>3, <1>4, WorkerTurns DEF MaintainFlush
<1>6. trouble' \in 0..MaxPingTrouble /\ (trouble = 0 => Tidy)'
  <2>1. CASE UNCHANGED trouble
    BY <1>2, <1>3, <2>1, TidyStays DEF MaintainFlush, PingInv, PingsTypeOK
  <2>2. CASE PingTrouble
    BY <2>2, TroubleIsCounted
  <2>3. QED
    BY <2>1, <2>2 DEF MaintainFlush, Saved
<1>7. lock' \in PingWorkers \cup {NoOne}
  BY DEF MaintainFlush
<1>8. index' \in Indexes /\ snapshot' \in Snapshots
  BY SavedTypes DEF MaintainFlush, PingInv
<1>9. QED
  BY <1>5, <1>6, <1>7, <1>8 DEF PingInv, PingsTypeOK, OneRow, MaintainFlush, Indexes, Snapshots

(* What rollup leaves.                                                     *)
LEMMA RollupKeeps ==
    ASSUME PingInv, NEW at, rollup(at)
    PROVE  /\ daily' \in Seq(DailyEntries) /\ OneRow(daily)'
           /\ trouble' \in 0..MaxPingTrouble
           /\ trouble' = 0 => /\ trouble = 0
                              /\ EndsWhole(daily) => /\ EndsWhole(daily)'
                                                     /\ DatesIn(daily) \cup Pending(at) \subseteq DatesIn(daily')
<1>1. PICK new \in Rows(at) : \/ daily' = daily \o new /\ UNCHANGED trouble
                              \/ PingTrouble /\ daily' \in Halves(daily, new)
  BY DEF rollup
<1>2. RowsInv /\ daily' \in Halves(daily, new) \cup {daily \o new}
  BY <1>1 DEF PingInv, RowsInv
<1>3. daily' \in Seq(DailyEntries) /\ OneRow(daily)'
  <2>1. daily' \in Seq(DailyEntries) /\ OneRow(daily')
    BY <1>2, RollupRows
  <2>2. QED
    BY <2>1 DEF OneRow
<1>4. CASE daily' = daily \o new /\ UNCHANGED trouble
  <2>1. ASSUME EndsWhole(daily)
        PROVE  EndsWhole(daily') /\ DatesIn(daily) \cup Pending(at) \subseteq DatesIn(daily')
    BY <1>4, <2>1, RollupDates DEF PingInv
  <2>2. QED
    BY <1>3, <1>4, <2>1 DEF PingInv, PingsTypeOK, EndsWhole
<1>5. CASE PingTrouble
  <2>1. trouble' \in 0..MaxPingTrouble /\ trouble' # 0
    BY <1>5, PingNumbers DEF PingTrouble, PingInv, PingsTypeOK
  <2>2. QED
    BY <1>3, <2>1
<1>6. QED
  BY <1>1, <1>4, <1>5

LEMMA MaintainRollupKeeps == ASSUME PingInv, NEW w \in PingWorkers, MaintainRollup(w) PROVE PingInv'
<1> DEFINE r == ping_worker[w]
<1>1. ping_worker \in [PingWorkers -> Requests] /\ r \in Requests /\ r.pc = "rollup"
  BY DEF PingInv, PingsTypeOK, MaintainRollup
<1>2. PICK s \in Requests : s = [r EXCEPT !.pc = "prune"] /\ s.pc = "prune" /\ s.at = r.at
  BY <1>1, RequestIs
<1>3. ping_worker' = [ping_worker EXCEPT ![w] = s]
  BY <1>1, <1>2 DEF MaintainRollup
<1>4. s.at <= ping_now /\ ping_now - s.at <= LAG
  BY <1>1, <1>2 DEF PingInv, Timely
<1>5. ping_worker' \in [PingWorkers -> Requests] /\ Timely'
  BY <1>2, <1>3, <1>4, WorkerTurns DEF MaintainRollup
<1>6. rollup(r.at)
  BY DEF MaintainRollup
<1>7. ASSUME trouble' = 0 PROVE Tidy'
  <2>1. /\ trouble = 0 /\ server = "up" /\ EndsWhole(daily)'
        /\ DatesIn(daily) \cup Pending(r.at) \subseteq DatesIn(daily')
    BY <1>6, <1>7, RollupKeeps DEF PingInv, Tidy
  <2>2. ASSUME NEW v \in PingWorkers, ping_worker'[v].pc = "prune", NEW d \in Days,
               log[d] # <<>>, d * DAY_SECS < ping_worker'[v].at - KEEP_DAYS * DAY_SECS
        PROVE  d \in DatesIn(daily')
    <3>1. CASE v # w
      <4>1. ping_worker'[v] = ping_worker[v]
        BY <1>1, <1>3, <3>1
      <4>2. QED
        BY <2>1, <2>2, <4>1 DEF PingInv, Tidy, Summed
    <3>2. CASE v = w
      <4>1. PICK a \in Nat : a = r.at
        <5>1. r.at \in 0..MaxPingTime
          BY <1>1, RequestIs
        <5>2. QED
          BY <5>1, PingNumbers
      <4>2. d * DAY_SECS < a - KEEP_DAYS * DAY_SECS
        BY <1>1, <1>2, <1>3, <2>2, <3>2, <4>1
      <4>3. (d + 1) * DAY_SECS <= a
        <5>1. d \in Nat
          BY DaysAreFinite
        <5>2. PICK m \in Nat : m = d * DAY_SECS /\ (d + 1) * DAY_SECS = m + DAY_SECS
          BY <5>1, PingNumbers
        <5>3. PICK keep \in Nat : keep = KEEP_DAYS * DAY_SECS /\ DAY_SECS + LAG <= keep
          BY PingNumbers
        <5>4. m + DAY_SECS <= a
          BY <4>1, <4>2, <5>2, <5>3, PingNumbers
        <5>5. QED
          BY <5>2, <5>4
      <4>4. d \in Pending(r.at) \/ d \in DatesIn(daily)
        BY <2>2, <4>1, <4>3 DEF Pending, written_dates, DatesIn
      <4>5. QED
        BY <2>1, <4>4
    <3>3. QED
      BY <3>1, <3>2
  <2>3. QED
    BY <2>1, <2>2 DEF Tidy, Summed, MaintainRollup
<1>8. QED
  BY <1>5, <1>6, <1>7, RollupKeeps DEF PingInv, PingsTypeOK, MaintainRollup

LEMMA PrunedLogs ==
    ASSUME PingInv, NEW at, prune_old_pings(at)
    PROVE  /\ log' \in [Days -> Seq(LogEntries)]
           /\ \A d \in Days : log'[d] # <<>> => log'[d] = log[d]
           /\ \A d \in Days : log[d] # <<>> /\ log'[d] = <<>> => d * DAY_SECS < at - KEEP_DAYS * DAY_SECS
  BY DEF prune_old_pings, PingInv, PingsTypeOK

LEMMA MaintainPruneKeeps == ASSUME PingInv, NEW w \in PingWorkers, MaintainPrune(w) PROVE PingInv'
<1>1. ping_worker' = [ping_worker EXCEPT ![w] = NoRequest] /\ prune_old_pings(ping_worker[w].at)
  BY DEF MaintainPrune
<1>2. ping_worker' \in [PingWorkers -> Requests] /\ Timely'
  BY <1>1, Drop, WorkerTurns DEF MaintainPrune
<1>3. log' \in [Days -> Seq(LogEntries)] /\ \A d \in Days : log'[d] # <<>> => log'[d] = log[d]
  BY <1>1, PrunedLogs
<1>4. ASSUME trouble = 0 PROVE Tidy'
  <2>1. ASSUME NEW v \in PingWorkers, ping_worker'[v].pc = "prune" PROVE ping_worker'[v] = ping_worker[v]
    BY <1>1, <2>1, Drop DEF PingInv, PingsTypeOK
  <2>2. QED
    BY <1>3, <1>4, <2>1 DEF PingInv, Tidy, Summed, MaintainPrune
<1>5. lock' \in PingWorkers \cup {NoOne}
  BY DEF MaintainPrune
<1>6. QED
  BY <1>2, <1>3, <1>4, <1>5 DEF PingInv, PingsTypeOK, OneRow, MaintainPrune

(* Once something has failed no worker is at anything, or the start is     *)
(* under way.                                                              *)
LEMMA NobodyWorks ==
    ASSUME ping_worker' = [w \in PingWorkers |-> NoRequest]
    PROVE  ping_worker' \in [PingWorkers -> Requests] /\ Timely'
  BY Drop DEF Timely

LEMMA ServerCrashKeeps == PingInv /\ ServerCrash => PingInv'
<1> SUFFICES ASSUME PingInv, ServerCrash PROVE PingInv'
  OBVIOUS
<1>1. ping_worker \in [PingWorkers -> Requests]
  BY DEF PingInv, PingsTypeOK
<1>2. trouble' \in 0..MaxPingTrouble /\ (trouble = 0 => Tidy)'
  BY TroubleIsCounted DEF ServerCrash
<1>3. ASSUME NEW at, NEW new \in Rows(at), daily' \in Halves(daily, new)
      PROVE  daily' \in Seq(DailyEntries) /\ OneRow(daily')
  BY <1>3, RollupRows DEF PingInv, RowsInv
<1> DEFINE FilesHold == /\ log' \in [Days -> Seq(LogEntries)] /\ torn' \in Nat
                        /\ daily' \in Seq(DailyEntries) /\ OneRow(daily')
<1>4. FilesHold
  <2>1. CASE UNCHANGED <<log, daily, torn>>
    BY <2>1 DEF PingInv, PingsTypeOK, OneRow
  <2>2. ASSUME NEW w \in PingWorkers, ping_worker[w].pc = "line", UNCHANGED daily, torn' = torn + 1,
               log' = [log EXCEPT ![DayOf(ping_worker[w].at)] = Append(@, Torn)]
        PROVE  FilesHold
    <3>1. ping_worker[w].at \in 0..MaxPingTime
      BY <1>1, <2>2, RequestIs
    <3>2. Torn \in LogEntries /\ DayOf(ping_worker[w].at) \in Days
      BY <3>1, DayBounds DEF LogEntries
    <3>3. log' \in [Days -> Seq(LogEntries)]
      BY <2>2, <3>2, LogAppended DEF PingInv
    <3>4. QED
      BY <2>2, <3>3 DEF PingInv, PingsTypeOK, OneRow
  <2>3. ASSUME NEW at, NEW new \in Rows(at), daily' \in Halves(daily, new), UNCHANGED <<log, torn>>
        PROVE  FilesHold
    BY <1>3, <2>3 DEF PingInv, PingsTypeOK
  <2>4. QED
    BY <2>1, <2>2, <2>3 DEF ServerCrash
<1>5. mixed' \subseteq 1..MaxPings
  <2>1. \A w \in PingWorkers : ping_worker[w].pc = "end" => ping_worker[w].n \in 1..MaxPings
    BY <1>1, RequestIs
  <2>2. QED
    BY <2>1 DEF ServerCrash, PingInv, PingsTypeOK
<1>6. ping_worker' \in [PingWorkers -> Requests] /\ Timely'
  BY NobodyWorks DEF ServerCrash
<1>7. OneRow(daily)' /\ IsFiniteSet(sent')
  BY <1>4 DEF OneRow, PingInv, ServerCrash
<1>8. index' \in Indexes /\ reading' \in [day : Nat, line : Nat \ {0}]
  BY UnknownIs DEF Indexes, ServerCrash, NotReading
<1>9. QED
  BY <1>2, <1>4, <1>5, <1>6, <1>7, <1>8 DEF PingInv, PingsTypeOK, ServerCrash, Indexes

LEMMA LineRead ==
    ASSUME PingsTypeOK, ReplayLine
    PROVE  LET line == log[reading.day][reading.line] IN
           /\ reading.day \in Days /\ reading.line \in DOMAIN log[reading.day]
           /\ reading' = [day |-> reading.day, line |-> reading.line + 1]
           /\ \/ UNCHANGED index
              \/ /\ line.is = "line" /\ line \in LogEntries /\ line.id \in Devices /\ line.at \in Nat
                 /\ index' = record(index, line.id, line.at)
<1> DEFINE day == reading.day
           i == reading.line
           line == log[day][i]
<1>1. day \in Nat /\ i \in Nat \ {0} /\ reading = [day |-> day, line |-> i]
  BY DEF PingsTypeOK
<1>2. ping_now \in 0..MaxPingTime /\ DayOf(ping_now) \in Days
  BY DayBounds DEF PingsTypeOK
<1>3. day \in Days
  <2>1. PICK end \in Nat : end = MaxPingTime \div DAY_SECS
    BY PingNumbers
  <2>2. DayOf(ping_now) \in 0..end /\ day <= DayOf(ping_now)
    BY <1>2, <2>1 DEF Days, ReplayLine
  <2>3. QED
    BY <1>1, <2>1, <2>2 DEF Days
<1>4. log[day] \in Seq(LogEntries)
  BY <1>3 DEF PingsTypeOK
<1>5. i \in DOMAIN log[day] /\ line \in LogEntries
  BY <1>1, <1>4 DEF ReplayLine
<1>6. line.is \in {"line", "row"} => line.is = "line" /\ line.id \in Devices /\ line.at \in 0..MaxPingTime
  BY <1>5 DEF LogEntries, NL, Torn
<1>7. Whole(log[day], i) => line.is = "line" /\ line.id \in Devices /\ line.at \in Nat
  BY <1>6, PingNumbers DEF Whole
<1>8. UNCHANGED index \/ (Whole(log[day], i) /\ index' = record(index, line.id, line.at))
  BY DEF ReplayLine
<1>9. reading' = [day |-> day, line |-> i + 1]
  BY <1>1 DEF ReplayLine
<1>10. QED
  BY <1>3, <1>5, <1>7, <1>8, <1>9

LEMMA StartKeeps ==
    PingInv /\ (Start \/ Load \/ ReplayLine \/ ReplayDay \/ Replayed \/ StartRollup \/ StartFlush) => PingInv'
<1> SUFFICES ASSUME PingInv, Start \/ Load \/ ReplayLine \/ ReplayDay \/ Replayed \/ StartRollup \/ StartFlush
             PROVE PingInv'
  OBVIOUS
<1>1. trouble # 0 /\ ~ (server = "up")
  BY DEF Start, Load, ReplayLine, ReplayDay, Replayed, StartRollup, StartFlush, PingInv, Tidy
<1>2. trouble \in 0..MaxPingTrouble /\ MaxPingTrouble \in Nat
  BY PingNumbers DEF PingInv, PingsTypeOK
<1>3. CASE Start
  <2>1. log' \in [Days -> Seq(LogEntries)]
    BY <1>3, PrunedLogs DEF Start
  <2>2. QED
    BY <1>1, <1>3, <2>1 DEF Start, PingInv, PingsTypeOK, OneRow, Timely
<1>4. CASE Load
  <2>1. snapshot \in Snapshots
    BY DEF PingInv, PingsTypeOK, Snapshots
  <2>2. index' \in Indexes
    BY <1>4, <2>1 DEF Load, Snapshots, Indexes
  <2>3. reading' \in [day : Nat, line : Nat \ {0}]
    <3>1. ping_now \in Nat
      BY PingNumbers DEF PingInv, PingsTypeOK
    <3>2. PICK first \in Int : first = DayOf(ping_now) - REPLAY_DAYS + 1
      BY <3>1, DayBounds, PingNumbers
    <3>3. MaxOf(0, first) \in Nat
      BY DEF MaxOf
    <3>4. QED
      BY <1>4, <3>2, <3>3 DEF Load
  <2>4. QED
    BY <1>1, <1>4, <2>2, <2>3 DEF Load, PingInv, PingsTypeOK, OneRow, Timely, ping_files, Indexes
<1>5. CASE StartRollup
  <2>1. /\ daily' \in Seq(DailyEntries) /\ OneRow(daily)' /\ trouble' \in 0..MaxPingTrouble /\ trouble' # 0
    BY <1>1, <1>5, RollupKeeps DEF StartRollup
  <2>2. QED
    BY <1>5, <2>1 DEF StartRollup, PingInv, PingsTypeOK, Timely
<1>6. CASE StartFlush
  <2>1. trouble' \in 0..MaxPingTrouble /\ trouble' # 0
    BY <1>1, <1>2, <1>6 DEF StartFlush, Saved, PingTrouble
  <2>2. index' \in Indexes /\ snapshot' \in Snapshots
    BY <1>6, SavedTypes DEF StartFlush, PingInv
  <2>3. QED
    BY <1>6, <2>1, <2>2 DEF StartFlush, PingInv, PingsTypeOK, OneRow, Timely, Indexes, Snapshots
<1>7. CASE ReplayLine
  <2>1. index' \in Indexes
    <3>1. PICK line : line = log[reading.day][reading.line]
      OBVIOUS
    <3>2. \/ UNCHANGED index
          \/ line.id \in Devices /\ line.at \in Nat /\ index' = record(index, line.id, line.at)
      BY <1>7, <3>1, LineRead DEF PingInv
    <3>3. index \in Indexes
      BY DEF PingInv, PingsTypeOK, Indexes
    <3>4. QED
      BY <3>2, <3>3, RecordIs
  <2>2. reading.day \in Nat /\ reading.line \in Nat
    BY DEF PingInv, PingsTypeOK
  <2>3. reading' \in [day : Nat, line : Nat \ {0}]
    BY <1>7, <2>2, LineRead DEF PingInv
  <2>4. QED
    BY <1>1, <1>7, <2>1, <2>3 DEF ReplayLine, PingInv, PingsTypeOK, OneRow, Timely, ping_files, Indexes
<1>8. CASE ReplayDay \/ Replayed
  <2>1. reading.day \in Nat
    BY DEF PingInv, PingsTypeOK
  <2>2. reading' \in [day : Nat, line : Nat \ {0}]
    BY <1>8, <2>1 DEF ReplayDay, Replayed, NotReading
  <2>3. server' \in {"replay", "rollup"}
    BY <1>8 DEF ReplayDay, Replayed
  <2>4. UNCHANGED <<ping_now, ping_files, index, lock, ping_worker, sent, answered, mixed, torn, trouble>>
    BY <1>8 DEF ReplayDay, Replayed
  <2>5. QED
    BY <1>1, <2>2, <2>3, <2>4 DEF PingInv, PingsTypeOK, OneRow, Timely, ping_files
<1>9. QED
  BY <1>3, <1>4, <1>5, <1>6, <1>7, <1>8

LEMMA PingTickKeeps == PingInv /\ PingTick => PingInv'
<1> SUFFICES ASSUME PingInv, PingTick PROVE PingInv'
  OBVIOUS
<1>1. ping_now' \in 0..MaxPingTime /\ ping_now' = ping_now + 1 /\ ping_now \in Nat
  BY PingNumbers DEF PingTick, PingInv, PingsTypeOK
<1>2. ASSUME NEW w \in PingWorkers, ping_worker[w].pc # "idle"
      PROVE  ping_worker[w].at <= ping_now' /\ ping_now' - ping_worker[w].at <= LAG
  <2>1. ping_worker[w].at \in 0..MaxPingTime
    BY <1>2, RequestIs DEF PingInv, PingsTypeOK
  <2>2. PICK a \in Nat : a = ping_worker[w].at
    BY <2>1, PingNumbers
  <2>3. a <= ping_now /\ ping_now - a < LAG
    BY <1>2, <2>2 DEF PingInv, Timely, PingTick
  <2>4. QED
    BY <1>1, <2>2, <2>3, PingNumbers
<1>3. Timely'
  BY <1>2 DEF Timely, PingTick
<1>4. QED
  BY <1>1, <1>3 DEF PingTick, ping_files, PingInv, PingsTypeOK, OneRow, Tidy, Summed

LEMMA PingInvStep == PingInv /\ [PingsNext]_ping_vars => PingInv'
<1> SUFFICES ASSUME PingInv, [PingsNext]_ping_vars PROVE PingInv'
  OBVIOUS
<1>1. ASSUME NEW w \in PingWorkers, PingStep(w) PROVE PingInv'
  BY <1>1, WriteLineKeeps, WriteEndKeeps, RecordKeeps, MaintainBeginKeeps, MaintainFlushKeeps,
     MaintainRollupKeeps, MaintainPruneKeeps DEF PingStep
<1>2. CASE UNCHANGED ping_vars
  BY <1>2 DEF ping_vars, ping_files, PingInv, PingsTypeOK, OneRow, Timely, Tidy, Summed
<1>3. QED
  BY <1>1, <1>2, PingKeeps, ServerCrashKeeps, StartKeeps, PingTickKeeps DEF PingsNext

(* An ended day has at most one row that can be read in daily.jsonl.       *)
LEMMA OneRowADay == PingInv => OneRowPerDay
<1> SUFFICES ASSUME PingInv, NEW d \in Days
             PROVE  Cardinality({i \in DOMAIN daily : Whole(daily, i) /\ daily[i].day = d}) <= 1
  BY DEF OneRowPerDay
<1> DEFINE rows == {i \in DOMAIN daily : Whole(daily, i) /\ daily[i].day = d}
<1>1. CASE rows = {}
  BY <1>1, FS_EmptySet
<1>2. CASE rows # {}
  <2>1. PICK i : i \in rows
    BY <1>2
  <2>2. rows = {i}
    BY <2>1 DEF PingInv, OneRow
  <2>3. Cardinality({i}) = 1
    BY FS_Singleton
  <2>4. QED
    BY <2>2, <2>3
<1>3. QED
  BY <1>1, <1>2

(* As long as nothing fails a log is thrown away only once its day has its *)
(* row (maintain of main.rs).                                              *)
THEOREM LogsAreSummedFirst == PingsSpec => SummedBeforePruned
<1> DEFINE A == \A d \in Days : trouble = 0 /\ log[d] # <<>> /\ log'[d] = <<>> => d \in written_dates
<1>1. PingInv /\ [PingsNext]_ping_vars => [A]_ping_vars
  <2> SUFFICES ASSUME PingInv, PingsNext, NEW d \in Days, trouble = 0, log[d] # <<>>, log'[d] = <<>>
               PROVE  d \in written_dates
    OBVIOUS
  <2>1. ASSUME NEW w \in PingWorkers, MaintainPrune(w) PROVE d \in written_dates
    <3>1. d * DAY_SECS < ping_worker[w].at - KEEP_DAYS * DAY_SECS
      BY <2>1, PrunedLogs DEF MaintainPrune
    <3>2. d \in DatesIn(daily)
      BY <2>1, <3>1 DEF PingInv, Tidy, Summed, MaintainPrune
    <3>3. QED
      BY <3>2 DEF DatesIn, written_dates
  <2>2. ASSUME NEW w \in PingWorkers, NEW e \in LogEntries, ping_worker[w].pc # "idle",
               log' = [log EXCEPT ![DayOf(ping_worker[w].at)] = Append(@, e)]
        PROVE  FALSE
    <3>1. ping_worker[w].at \in 0..MaxPingTime
      BY <2>2, RequestIs DEF PingInv, PingsTypeOK
    <3>2. DayOf(ping_worker[w].at) \in Days
      BY <3>1, DayBounds
    <3>3. QED
      BY <2>2, <3>2, LogAppended DEF PingInv
  <2>3. ASSUME NEW w \in PingWorkers, WriteLine(w) PROVE FALSE
    <3>1. ping_worker[w] \in Requests /\ ping_worker[w].pc = "line"
      BY <2>3 DEF PingInv, PingsTypeOK, WriteLine
    <3>2. PICK e \in LogEntries : e = Line(ping_worker[w].n, ping_worker[w].id, ping_worker[w].at)
      BY <3>1, RequestIs DEF Line, LogEntries
    <3>3. Torn \in LogEntries
      BY DEF LogEntries
    <3>4. \/ UNCHANGED log
          \/ \E b \in {e, Torn} : log' = [log EXCEPT ![DayOf(ping_worker[w].at)] = Append(@, b)]
      BY <2>3, <3>2 DEF WriteLine
    <3>5. QED
      BY <2>2, <3>1, <3>3, <3>4
  <2>4. ASSUME NEW w \in PingWorkers, WriteEnd(w) PROVE FALSE
    <3>1. NL \in LogEntries
      BY DEF LogEntries
    <3>2. \/ UNCHANGED log
          \/ log' = [log EXCEPT ![DayOf(ping_worker[w].at)] = Append(@, NL)]
      BY <2>4 DEF WriteEnd
    <3>3. QED
      BY <2>2, <2>4, <3>1, <3>2 DEF WriteEnd
  <2>5. ASSUME ServerCrash PROVE FALSE
    <3>1. Torn \in LogEntries
      BY DEF LogEntries
    <3>2. QED
      BY <2>2, <2>5, <3>1 DEF ServerCrash
  <2>6. ~Start
    BY DEF Start, PingInv, Tidy
  <2>7. QED
    BY <2>1, <2>3, <2>4, <2>5, <2>6
       DEF PingsNext, PingStep, Ping, Record, MaintainBegin, MaintainFlush, MaintainRollup, Load,
           ReplayLine, ReplayDay, Replayed, StartRollup, StartFlush, PingTick, ping_files
<1>2. QED
  BY <1>1, PingsStart, PingInvStep, PTL DEF PingsSpec, SummedBeforePruned

-----------------------------------------------------------------------------
(* Pings: each ping counts once, and its line is found again               *)

(* A worker with a ping, its ping, and the pings that workers have.        *)
OnPing(w) == ping_worker[w].pc \in {"line", "end", "record"}
PingOf(w) == [n |-> ping_worker[w].n, id |-> ping_worker[w].id, at |-> ping_worker[w].at]
Pinging(n) == \E w \in PingWorkers : OnPing(w) /\ ping_worker[w].n = n

(* A number is one ping's, one worker's, and answered only once it is no   *)
(* worker's any more.                                                      *)
NumbersInv ==
    /\ \A p, q \in sent : p.n = q.n => p = q
    /\ \A p \in sent : p.n <= Cardinality(sent)
HandsInv ==
    /\ \A w \in PingWorkers : ping_worker[w].pc # "idle" => server = "up"
    /\ \A w \in PingWorkers : OnPing(w) => PingOf(w) \in sent /\ ping_worker[w].n \notin answered
    /\ \A v, w \in PingWorkers : OnPing(v) /\ OnPing(w) /\ ping_worker[v].n = ping_worker[w].n => v = w
    /\ \A n \in answered : \E p \in sent : p.n = n

(* A line is the one of a ping, in the log of its day, after its worker    *)
(* was about to write it.                                                  *)
IsLine(d, i) == i \in DOMAIN log[d] /\ log[d][i].is = "line"
LinesInv ==
    \A d \in Days, i \in Nat : IsLine(d, i) =>
        /\ \E p \in sent : log[d][i] = Line(p.n, p.id, p.at) /\ DayOf(p.at) = d
        /\ \A w \in PingWorkers : ping_worker[w].pc = "line" => ping_worker[w].n # log[d][i].n
        /\ \A j \in Nat : IsLine(d, j) /\ log[d][j].n = log[d][i].n => j = i

(* Unless it is mixed with another it has its end or still gets it.        *)
FollowedInv ==
    \A d \in Days, i \in Nat : IsLine(d, i) /\ log[d][i].n \notin mixed =>
        \/ i + 1 \in DOMAIN log[d] /\ log[d][i + 1] = NL
        \/ i = Len(log[d]) /\ \E w \in PingWorkers : ping_worker[w].pc = "end" /\ ping_worker[w].n = log[d][i].n

(* A ping past its line has it in its log, or the log is gone for good.    *)
Gone(d) == log[d] = <<>> /\ d * DAY_SECS < ping_now - KEEP_DAYS * DAY_SECS
Past(n) == n \in answered \/ \E w \in PingWorkers : ping_worker[w].pc \in {"end", "record"} /\ ping_worker[w].n = n
Found(p) == \E i \in DOMAIN log[DayOf(p.at)] : log[DayOf(p.at)][i] = Line(p.n, p.id, p.at)
KeptInv == \A p \in sent : Past(p.n) => Gone(DayOf(p.at)) \/ Found(p)

TornPlaces == {x \in Days \X Nat : x[2] \in DOMAIN log[x[1]] /\ log[x[1]][x[2]] = Torn}
TornInv == IsFiniteSet(TornPlaces) /\ Cardinality(TornPlaces) <= torn

LinesHold == NumbersInv /\ HandsInv /\ LinesInv /\ FollowedInv /\ KeptInv /\ TornInv

(* What a device's count stands for: pings that no worker has any more and *)
(* that are not newer than the index; of those newer than the snapshot,    *)
(* while the logs are read, the ones whose line has been passed.           *)
Counted(d, at) == {p \in sent : p.id = d /\ p.at <= at /\ ~Pinging(p.n)}
Passed(d, i) == d < reading.day \/ (d = reading.day /\ i < reading.line)
PassedBy(p) ==
    \E i \in Nat : IsLine(DayOf(p.at), i) /\ log[DayOf(p.at)][i].n = p.n /\ Passed(DayOf(p.at), i)
Accounted(d) ==
    {p \in Counted(d, index.saved_at) : server = "replay" => p.at <= snapshot.saved_at \/ PassedBy(p)}
CountInv ==
    /\ \A d \in Devices : snapshot.devices[d].pings <= Cardinality(Counted(d, snapshot.saved_at))
    /\ \A d \in Devices : index.devices[d].pings <= Cardinality(Accounted(d))
    /\ server \in {"down", "load"} => index.devices = NoDevices

(* A log that is written to.                                               *)
LEMMA Lengthened ==
    ASSUME PingsTypeOK, NEW day \in Days, NEW e \in LogEntries, log' = [log EXCEPT ![day] = Append(@, e)]
    PROVE  /\ Len(log[day]) \in Nat /\ Len(log'[day]) = Len(log[day]) + 1 /\ log'[day][Len(log[day]) + 1] = e
           /\ DOMAIN log[day] = 1..Len(log[day]) /\ DOMAIN log'[day] = 1..(Len(log[day]) + 1)
           /\ \A d \in Days : d # day => log'[d] = log[d]
           /\ \A d \in Days : \A i \in DOMAIN log[d] : i \in DOMAIN log'[d] /\ log'[d][i] = log[d][i]
           /\ \A d \in Days, i \in Nat : IsLine(d, i)' =>
                IsLine(d, i) \/ (d = day /\ i = Len(log[day]) + 1 /\ e.is = "line")
<1>1. PICK f \in Seq(LogEntries) : f = log[day]
  BY DEF PingsTypeOK
<1>2. PICK g : g = Append(f, e)
  OBVIOUS
<1>3. /\ Len(f) \in Nat /\ Len(g) = Len(f) + 1 /\ g[Len(f) + 1] = e
      /\ DOMAIN f = 1..Len(f) /\ DOMAIN g = 1..(Len(f) + 1)
      /\ \A i \in 1..Len(f) : g[i] = f[i]
  BY <1>2
<1>4. log'[day] = g /\ \A d \in Days : d # day => log'[d] = log[d]
  BY <1>1, <1>2 DEF PingsTypeOK
<1>5. ASSUME NEW d \in Days, NEW i \in DOMAIN log[d] PROVE i \in DOMAIN log'[d] /\ log'[d][i] = log[d][i]
  BY <1>1, <1>3, <1>4
<1>6. ASSUME NEW d \in Days, NEW i \in Nat, IsLine(d, i)'
      PROVE  IsLine(d, i) \/ (d = day /\ i = Len(log[day]) + 1 /\ e.is = "line")
  <2>1. i \in DOMAIN log'[d] /\ log'[d][i].is = "line"
    BY <1>6 DEF IsLine
  <2>2. CASE d # day
    BY <1>4, <2>1, <2>2 DEF IsLine
  <2>3. CASE d = day
    BY <1>1, <1>3, <1>4, <2>1, <2>3 DEF IsLine
  <2>4. QED
    BY <2>2, <2>3
<1>7. QED
  BY <1>1, <1>3, <1>4, <1>5, <1>6

(* The log of a ping that is being taken is not gone.                      *)
LEMMA StillNeeded ==
    ASSUME PingInv, NEW w \in PingWorkers, ping_worker[w].pc # "idle"
    PROVE  DayOf(ping_worker[w].at) \in Days /\ ~Gone(DayOf(ping_worker[w].at))
<1>1. ping_worker[w] \in Requests
  BY DEF PingInv, PingsTypeOK
<1>2. ping_worker[w].at \in 0..MaxPingTime
  BY <1>1, RequestIs
<1>3. PICK a \in Nat : a = ping_worker[w].at
  BY <1>2, PingNumbers
<1>4. PICK m \in Nat : m = DayOf(a) * DAY_SECS /\ a < m + DAY_SECS
  BY DayBounds, PingNumbers
<1>5. ping_now \in Nat /\ ping_now - a <= LAG
  BY <1>3, PingNumbers DEF PingInv, PingsTypeOK, Timely
<1>6. PICK keep \in Nat : keep = KEEP_DAYS * DAY_SECS /\ DAY_SECS + LAG <= keep
  BY PingNumbers
<1>7. ~(m < ping_now - keep)
  BY <1>4, <1>5, <1>6, PingNumbers
<1>8. QED
  BY <1>2, <1>3, <1>4, <1>6, <1>7, DayBounds DEF Gone

LEMMA HandsAre ==
    ASSUME PingInv, NEW w \in PingWorkers
    PROVE  /\ OnPing(w) => ping_worker[w].pc # "idle"
           /\ ping_worker[w].pc \in {"line", "end", "record"} => OnPing(w)
  BY DEF OnPing

(* A step that leaves no beginning of a line in a log.                     *)
LEMMA TornStays ==
    ASSUME TornInv, TornPlaces' \subseteq TornPlaces, torn \in Nat, torn' \in Nat, torn' >= torn PROVE TornInv'
<1>1. IsFiniteSet(TornPlaces') /\ Cardinality(TornPlaces') <= Cardinality(TornPlaces)
  BY FS_Subset DEF TornInv
<1>2. Cardinality(TornPlaces) \in Nat /\ Cardinality(TornPlaces') \in Nat
  BY <1>1, FS_CardinalityType DEF TornInv
<1>3. QED
  BY <1>1, <1>2 DEF TornInv

(* Steps that write no line: workers stay at their pings or drop them, and *)
(* logs stay or are pruned.                                                *)
LEMMA NoLineKeeps ==
    ASSUME LinesHold, PingInv, PingInv',
           UNCHANGED <<sent, answered>>, mixed \subseteq mixed', torn' = torn, ping_now' >= ping_now,
           \A w \in PingWorkers : ping_worker'[w].pc # "idle" => server' = "up",
           \A w \in PingWorkers : OnPing(w)' => ping_worker'[w] = ping_worker[w],
           \A w \in PingWorkers : ping_worker[w].pc = "end" =>
                ping_worker'[w] = ping_worker[w] \/ ping_worker[w].n \in mixed',
           \A d \in Days : \/ log'[d] = log[d]
                           \/ log'[d] = <<>> /\ d * DAY_SECS < ping_now - KEEP_DAYS * DAY_SECS
    PROVE  LinesHold'
<1> USE DEF LinesHold
<1>1. NumbersInv'
  BY DEF NumbersInv
<1>2. HandsInv'
  <2>1. \A w \in PingWorkers : OnPing(w)' => OnPing(w) /\ PingOf(w)' = PingOf(w)
    BY DEF OnPing, PingOf
  <2>2. QED
    BY <2>1 DEF HandsInv
<1>3. \A d \in Days, i \in Nat : IsLine(d, i)' => IsLine(d, i) /\ log'[d] = log[d]
  BY DEF IsLine
<1>4. LinesInv'
  <2>1. \A w \in PingWorkers : ping_worker'[w].pc = "line" => ping_worker'[w] = ping_worker[w]
    BY DEF OnPing
  <2>2. QED
    BY <1>3, <2>1 DEF LinesInv
<1>5. FollowedInv'
  <2> SUFFICES ASSUME NEW d \in Days, NEW i \in Nat, IsLine(d, i)', log'[d][i].n \notin mixed'
               PROVE  \/ i + 1 \in DOMAIN log'[d] /\ log'[d][i + 1] = NL
                      \/ i = Len(log'[d]) /\ \E w \in PingWorkers : ping_worker'[w].pc = "end" /\ ping_worker'[w].n = log'[d][i].n
    BY DEF FollowedInv
  <2>1. IsLine(d, i) /\ log'[d] = log[d] /\ log[d][i].n \notin mixed
    BY <1>3
  <2>2. QED
    BY <2>1 DEF FollowedInv
<1>6. KeptInv'
  <2> SUFFICES ASSUME NEW p \in sent, Past(p.n)' PROVE Gone(DayOf(p.at))' \/ Found(p)'
    BY DEF KeptInv
  <2>1. Past(p.n)
    BY DEF Past, OnPing
  <2>2. DayOf(p.at) \in Days
    BY DayBounds DEF PingInv, PingsTypeOK
  <2>3. PICK d \in Days : d = DayOf(p.at)
    BY <2>2
  <2>4. PICK m \in Int : m = d * DAY_SECS
    BY DaysAreFinite, PingNumbers
  <2>5. PICK keep \in Nat : keep = KEEP_DAYS * DAY_SECS
    BY PingNumbers
  <2>6. ping_now \in Nat /\ ping_now' \in Nat
    BY PingNumbers DEF PingInv, PingsTypeOK
  <2>7. m < ping_now - keep => m < ping_now' - keep
    BY <2>4, <2>5, <2>6
  <2>8. CASE log'[d] = log[d]
    <3>1. Found(p) => Found(p)'
      BY <2>3, <2>8 DEF Found
    <3>2. Gone(d) => Gone(d)'
      BY <2>4, <2>5, <2>7, <2>8 DEF Gone
    <3>3. QED
      BY <2>1, <2>3, <3>1, <3>2 DEF KeptInv
  <2>9. CASE log'[d] = <<>> /\ m < ping_now - keep
    BY <2>3, <2>4, <2>5, <2>7, <2>9 DEF Gone
  <2>10. QED
    BY <2>4, <2>5, <2>8, <2>9
<1>7. TornInv'
  <2>1. TornPlaces' \subseteq TornPlaces
    BY DEF TornPlaces
  <2>2. torn \in Nat
    BY DEF PingInv, PingsTypeOK
  <2>3. QED
    BY <2>1, <2>2, TornStays
<1>8. QED
  BY <1>1, <1>2, <1>4, <1>5, <1>6, <1>7

LEMMA PingLines == ASSUME LinesHold, PingInv, PingInv', NEW w \in PingWorkers, NEW d \in Devices, Ping(w, d) PROVE LinesHold'
<1> USE DEF LinesHold
<1>1. PICK c \in Nat : c = Cardinality(sent)
  BY FS_CardinalityType DEF PingInv
<1>2. PICK p : p = [n |-> c + 1, id |-> d, at |-> ping_now]
  OBVIOUS
<1>3. PICK r : r = [pc |-> "line", n |-> c + 1, id |-> d, at |-> ping_now]
  OBVIOUS
<1>4. sent' = sent \cup {p} /\ ping_worker' = [ping_worker EXCEPT ![w] = r] /\ server = "up" /\ ping_worker[w].pc = "idle"
  BY <1>1, <1>2, <1>3 DEF Ping
<1>5. /\ ping_worker'[w] = r
      /\ \A v \in PingWorkers : v # w => ping_worker'[v] = ping_worker[v]
  BY <1>4 DEF PingInv, PingsTypeOK
<1>6. UNCHANGED <<log, server, answered, mixed, torn, ping_now>>
  BY DEF Ping, ping_files
<1>7. \A q \in sent : q.n \in Nat /\ q.n <= c
  BY <1>1, PingNumbers DEF PingInv, PingsTypeOK, NumbersInv
<1>8. \A q \in sent : q.n # p.n
  BY <1>1, <1>2, <1>7
<1>9. p \notin sent /\ Cardinality(sent') = c + 1
  <2>1. p \notin sent
    BY <1>8
  <2>2. QED
    BY <1>1, <1>4, <2>1, FS_AddElement DEF PingInv
<1>10. NumbersInv'
  BY <1>1, <1>2, <1>4, <1>7, <1>8, <1>9 DEF NumbersInv
<1>11. HandsInv'
  <2>1. ~OnPing(w) /\ r.n = p.n /\ PingOf(w)' = p
    BY <1>2, <1>3, <1>4, <1>5 DEF OnPing, PingOf
  <2>2. r.n \notin answered
    BY <1>8, <2>1 DEF HandsInv
  <2>3. ASSUME NEW v \in PingWorkers, v # w
        PROVE  /\ OnPing(v)' = OnPing(v) /\ PingOf(v)' = PingOf(v)
               /\ OnPing(v) => ping_worker[v].n # r.n
    <3>1. OnPing(v)' = OnPing(v) /\ PingOf(v)' = PingOf(v)
      BY <1>5, <2>3 DEF OnPing, PingOf
    <3>2. OnPing(v) => PingOf(v) \in sent /\ PingOf(v).n = ping_worker[v].n
      BY DEF HandsInv, PingOf
    <3>3. QED
      BY <1>8, <2>1, <3>1, <3>2
  <2>4. \A v \in PingWorkers : ping_worker'[v].pc # "idle" => server' = "up"
    BY <1>4, <1>6
  <2>5. \A v \in PingWorkers : OnPing(v)' => PingOf(v)' \in sent' /\ ping_worker'[v].n \notin answered'
    BY <1>4, <1>5, <1>6, <2>1, <2>2, <2>3 DEF HandsInv
  <2>6. \A v, u \in PingWorkers : OnPing(v)' /\ OnPing(u)' /\ ping_worker'[v].n = ping_worker'[u].n => v = u
    BY <1>5, <2>3 DEF HandsInv
  <2>7. \A n \in answered' : \E q \in sent' : q.n = n
    BY <1>4, <1>6 DEF HandsInv
  <2>8. QED
    BY <2>4, <2>5, <2>6, <2>7 DEF HandsInv
<1>12. LinesInv'
  <2> SUFFICES ASSUME NEW e \in Days, NEW i \in Nat, IsLine(e, i)'
               PROVE  /\ \E q \in sent' : log'[e][i] = Line(q.n, q.id, q.at) /\ DayOf(q.at) = e
                      /\ \A v \in PingWorkers : ping_worker'[v].pc = "line" => ping_worker'[v].n # log'[e][i].n
                      /\ \A j \in Nat : IsLine(e, j)' /\ log'[e][j].n = log'[e][i].n => j = i
    BY DEF LinesInv
  <2>1. IsLine(e, i) /\ \A j \in Nat : IsLine(e, j)' <=> IsLine(e, j)
    BY <1>6 DEF IsLine
  <2>2. PICK q \in sent : log[e][i] = Line(q.n, q.id, q.at) /\ DayOf(q.at) = e
    BY <2>1 DEF LinesInv
  <2>3. log[e][i].n # p.n
    BY <1>8, <2>2 DEF Line
  <2>4. QED
    BY <1>2, <1>3, <1>4, <1>5, <1>6, <2>1, <2>2, <2>3 DEF LinesInv
<1>13. FollowedInv'
  <2>1. \A v \in PingWorkers : ping_worker[v].pc = "end" => ping_worker'[v] = ping_worker[v]
    BY <1>4, <1>5
  <2>2. QED
    BY <1>6, <2>1 DEF FollowedInv, IsLine
<1>14. KeptInv'
  <2> SUFFICES ASSUME NEW q \in sent', Past(q.n)' PROVE Gone(DayOf(q.at))' \/ Found(q)'
    BY DEF KeptInv
  <2>1. Past(q.n)
    BY <1>3, <1>5, <1>6 DEF Past
  <2>2. q # p
    BY <1>2, <1>8, <2>1 DEF Past, HandsInv, PingOf, OnPing
  <2>3. Gone(DayOf(q.at)) \/ Found(q)
    BY <1>4, <2>1, <2>2 DEF KeptInv
  <2>4. QED
    BY <1>6, <2>3 DEF Gone, Found
<1>15. TornInv'
  BY <1>6 DEF TornInv, TornPlaces
<1>16. QED
  BY <1>10, <1>11, <1>12, <1>13, <1>14, <1>15

(* What a write to the log of a worker's ping does not disturb.            *)
LEMMA WrittenKeeps ==
    ASSUME LinesHold, PingInv, NEW w \in PingWorkers, ping_worker[w].pc # "idle", NEW e \in LogEntries,
           log' = [log EXCEPT ![DayOf(ping_worker[w].at)] = Append(@, e)], UNCHANGED <<ping_now, sent>>
    PROVE  /\ \A p \in sent : Gone(DayOf(p.at)) \/ Found(p) => Gone(DayOf(p.at))' \/ Found(p)'
           /\ e # Torn => TornPlaces' \subseteq TornPlaces
<1> DEFINE day == DayOf(ping_worker[w].at)
<1>1. PingsTypeOK /\ day \in Days /\ ~Gone(day)
  BY StillNeeded DEF PingInv
<1> HIDE DEF day
<1>2. log' = [log EXCEPT ![day] = Append(@, e)]
  BY DEF day
<1>3. ASSUME NEW p \in sent, Gone(DayOf(p.at)) \/ Found(p) PROVE Gone(DayOf(p.at))' \/ Found(p)'
  <2>1. PICK d \in Days : d = DayOf(p.at)
    BY DayBounds DEF PingInv, PingsTypeOK
  <2>2. CASE Gone(d)
    <3>1. d # day
      BY <1>1, <2>2
    <3>2. log'[d] = log[d]
      BY <1>1, <1>2, <3>1, Lengthened
    <3>3. QED
      BY <2>1, <2>2, <3>2 DEF Gone
  <2>3. CASE Found(p)
    <3>1. PICK i \in DOMAIN log[d] : log[d][i] = Line(p.n, p.id, p.at)
      BY <2>1, <2>3 DEF Found
    <3>2. i \in DOMAIN log'[d] /\ log'[d][i] = log[d][i]
      BY <1>1, <1>2, <3>1, Lengthened
    <3>3. QED
      BY <2>1, <3>1, <3>2 DEF Found
  <2>4. QED
    BY <1>3, <2>1, <2>2, <2>3
<1>4. ASSUME e # Torn PROVE TornPlaces' \subseteq TornPlaces
  <2> SUFFICES ASSUME NEW x \in TornPlaces' PROVE x \in TornPlaces
    OBVIOUS
  <2>1. x \in Days \X Nat /\ x[2] \in DOMAIN log'[x[1]] /\ log'[x[1]][x[2]] = Torn
    BY DEF TornPlaces
  <2>2. PICK d \in Days, i \in Nat : d = x[1] /\ i = x[2]
    BY <2>1
  <2>3. CASE d # day
    <3>1. log'[d] = log[d]
      BY <1>1, <1>2, <2>3, Lengthened
    <3>2. QED
      BY <2>1, <2>2, <3>1 DEF TornPlaces
  <2>4. CASE d = day
    <3>a. PICK k : k = Len(log[day])
      OBVIOUS
    <3>b. /\ k \in Nat /\ log'[day][k + 1] = e /\ DOMAIN log[day] = 1..k /\ DOMAIN log'[day] = 1..(k + 1)
          /\ \A j \in DOMAIN log[day] : log'[day][j] = log[day][j]
      BY <1>1, <1>2, <3>a, Lengthened
    <3>c. i \in DOMAIN log'[day] /\ log'[day][i] = Torn
      BY <2>1, <2>2, <2>4
    <3>1. i # k + 1
      BY <1>4, <3>b, <3>c
    <3>2. i \in DOMAIN log[day] /\ log'[day][i] = log[day][i]
      BY <3>1, <3>b, <3>c
    <3>3. QED
      BY <2>1, <2>2, <2>4, <3>2 DEF TornPlaces
  <2>5. QED
    BY <2>3, <2>4
<1>5. QED
  BY <1>3, <1>4

(* The worker of a line in the log of d has a ping of that day.            *)
LEMMA LineOfWorker ==
    ASSUME LinesHold, NEW d \in Days, NEW i \in Nat, IsLine(d, i),
           NEW v \in PingWorkers, OnPing(v), ping_worker[v].n = log[d][i].n
    PROVE  DayOf(ping_worker[v].at) = d /\ log[d][i] = Line(ping_worker[v].n, ping_worker[v].id, ping_worker[v].at)
<1>1. PICK p \in sent : log[d][i] = Line(p.n, p.id, p.at) /\ DayOf(p.at) = d
  BY DEF LinesHold, LinesInv
<1>2. PingOf(v) \in sent /\ PingOf(v).n = p.n
  BY <1>1 DEF LinesHold, HandsInv, PingOf, Line
<1>3. PingOf(v) = p
  BY <1>2 DEF LinesHold, NumbersInv
<1>4. QED
  BY <1>1, <1>3 DEF PingOf

(* A worker that goes on with its ping.                                    *)
LEMMA HandsStay ==
    ASSUME LinesHold, PingInv, NEW w \in PingWorkers, OnPing(w), NEW pc \in {"line", "end", "record"},
           ping_worker' = [ping_worker EXCEPT ![w].pc = pc], UNCHANGED <<sent, answered, server>>
    PROVE  /\ NumbersInv' /\ HandsInv'
           /\ ping_worker'[w].pc = pc
           /\ \A v \in PingWorkers : /\ OnPing(v)' = OnPing(v) /\ ping_worker'[v].n = ping_worker[v].n
                                     /\ v # w => ping_worker'[v] = ping_worker[v]
<1>1. ping_worker \in [PingWorkers -> Requests] /\ ping_worker[w] \in Requests /\ ping_worker[w].pc \in {"line", "end", "record"}
  BY DEF PingInv, PingsTypeOK, OnPing
<1>2. PICK s : s = [ping_worker[w] EXCEPT !.pc = pc]
  OBVIOUS
<1>3. ping_worker[w] \in [pc : {"line", "end", "record"}, n : 1..MaxPings, id : Devices, at : 0..MaxPingTime]
  BY <1>1 DEF Requests, NoRequest
<1>4. s.pc = pc /\ s.n = ping_worker[w].n /\ s.id = ping_worker[w].id /\ s.at = ping_worker[w].at
  BY <1>2, <1>3
<1>5. ping_worker'[w] = s /\ \A v \in PingWorkers : v # w => ping_worker'[v] = ping_worker[v]
  BY <1>1, <1>2
<1>6. \A v \in PingWorkers : /\ OnPing(v)' = OnPing(v) /\ PingOf(v)' = PingOf(v)
                             /\ ping_worker'[v].n = ping_worker[v].n
  <2> SUFFICES ASSUME NEW v \in PingWorkers
               PROVE  OnPing(v)' = OnPing(v) /\ PingOf(v)' = PingOf(v) /\ ping_worker'[v].n = ping_worker[v].n
    OBVIOUS
  <2>1. CASE v = w
    BY <1>4, <1>5, <2>1 DEF OnPing, PingOf
  <2>2. CASE v # w
    BY <1>5, <2>2 DEF OnPing, PingOf
  <2>3. QED
    BY <2>1, <2>2
<1>7. \A v \in PingWorkers : ping_worker'[v].pc # "idle" => server' = "up"
  BY <1>5, HandsAre DEF LinesHold, HandsInv
<1>8. HandsInv'
  BY <1>6, <1>7 DEF LinesHold, HandsInv
<1>9. NumbersInv'
  BY DEF LinesHold, NumbersInv
<1>10. QED
  BY <1>4, <1>5, <1>6, <1>8, <1>9

(* A write, or the process, that ends in the middle of a line.             *)
LEMMA TornLeft ==
    ASSUME LinesHold, PingInv, PingInv', NEW w \in PingWorkers, ping_worker[w].pc = "line",
           log' = [log EXCEPT ![DayOf(ping_worker[w].at)] = Append(@, Torn)], torn' = torn + 1,
           UNCHANGED <<ping_now, sent, answered>>, mixed \subseteq mixed',
           \A v \in PingWorkers : ping_worker'[v].pc # "idle" => server' = "up",
           \A v \in PingWorkers : OnPing(v)' => ping_worker'[v] = ping_worker[v],
           \A v \in PingWorkers : ping_worker[v].pc = "end" =>
                \/ ping_worker[v].n \in mixed'
                \/ DayOf(ping_worker[v].at) # DayOf(ping_worker[w].at) /\ ping_worker'[v] = ping_worker[v]
    PROVE  LinesHold'
<1>1. Torn \in LogEntries /\ Torn.is # "line" /\ PingsTypeOK /\ ping_worker[w].pc # "idle"
  BY DEF LogEntries, Torn, PingInv
<1>2. PICK D \in Days : D = DayOf(ping_worker[w].at)
  BY <1>1, StillNeeded
<1>a. D \in Days /\ Torn \in LogEntries /\ PingsTypeOK /\ log' = [log EXCEPT ![D] = Append(@, Torn)]
  BY <1>1, <1>2
<1>4. \A p \in sent : Gone(DayOf(p.at)) \/ Found(p) => Gone(DayOf(p.at))' \/ Found(p)'
  BY <1>1, WrittenKeeps
<1>5. ASSUME NEW d \in Days, NEW i \in Nat, IsLine(d, i)'
      PROVE  IsLine(d, i) /\ log'[d][i] = log[d][i]
  <2>1. IsLine(d, i)
    BY <1>1, <1>a, <1>5, Lengthened
  <2>2. QED
    BY <1>a, <2>1, Lengthened DEF IsLine
<1>6. NumbersInv' /\ HandsInv'
  <2>1. \A v \in PingWorkers : OnPing(v)' => OnPing(v) /\ PingOf(v)' = PingOf(v)
    BY DEF OnPing, PingOf
  <2>2. QED
    BY <2>1 DEF LinesHold, NumbersInv, HandsInv
<1>7. LinesInv'
  <2> SUFFICES ASSUME NEW d \in Days, NEW i \in Nat, IsLine(d, i)'
               PROVE  /\ \E q \in sent' : log'[d][i] = Line(q.n, q.id, q.at) /\ DayOf(q.at) = d
                      /\ \A v \in PingWorkers : ping_worker'[v].pc = "line" => ping_worker'[v].n # log'[d][i].n
                      /\ \A j \in Nat : IsLine(d, j)' /\ log'[d][j].n = log'[d][i].n => j = i
    BY DEF LinesInv
  <2>1. \A v \in PingWorkers : ping_worker'[v].pc = "line" => ping_worker[v].pc = "line" /\ ping_worker'[v].n = ping_worker[v].n
    BY DEF OnPing
  <2>2. IsLine(d, i) /\ log'[d][i] = log[d][i]
    BY <1>5
  <2>c. /\ \E q \in sent : log[d][i] = Line(q.n, q.id, q.at) /\ DayOf(q.at) = d
        /\ \A v \in PingWorkers : ping_worker[v].pc = "line" => ping_worker[v].n # log[d][i].n
    BY <2>2, Zenon DEF LinesHold, LinesInv
  <2>3. \E q \in sent' : log'[d][i] = Line(q.n, q.id, q.at) /\ DayOf(q.at) = d
    BY <2>2, <2>c
  <2>4. \A v \in PingWorkers : ping_worker'[v].pc = "line" => ping_worker'[v].n # log'[d][i].n
    BY <2>1, <2>2, <2>c
  <2>5. ASSUME NEW j \in Nat, IsLine(d, j)', log'[d][j].n = log'[d][i].n PROVE j = i
    <3>1. IsLine(d, j) /\ log[d][j].n = log[d][i].n
      BY <1>5, <2>2, <2>5
    <3>2. QED
      BY <2>2, <3>1 DEF LinesHold, LinesInv
  <2>6. QED
    BY <2>3, <2>4, <2>5
<1>8. FollowedInv'
  <2> SUFFICES ASSUME NEW d \in Days, NEW i \in Nat, IsLine(d, i)', log'[d][i].n \notin mixed'
               PROVE  \/ i + 1 \in DOMAIN log'[d] /\ log'[d][i + 1] = NL
                      \/ i = Len(log'[d]) /\ \E v \in PingWorkers : ping_worker'[v].pc = "end" /\ ping_worker'[v].n = log'[d][i].n
    BY DEF FollowedInv
  <2>1. IsLine(d, i) /\ log'[d][i] = log[d][i] /\ log[d][i].n \notin mixed /\ log[d][i].n \notin mixed'
    BY <1>5
  <2>2. CASE i + 1 \in DOMAIN log[d] /\ log[d][i + 1] = NL
    BY <1>a, <2>2, Lengthened
  <2>3. ASSUME i = Len(log[d]), NEW v \in PingWorkers, ping_worker[v].pc = "end", ping_worker[v].n = log[d][i].n
        PROVE  i = Len(log'[d]) /\ ping_worker'[v].pc = "end" /\ ping_worker'[v].n = log'[d][i].n
    <3>1. ping_worker'[v] = ping_worker[v] /\ DayOf(ping_worker[v].at) # D
      BY <1>2, <2>1, <2>3
    <3>2. DayOf(ping_worker[v].at) = d
      BY <2>1, <2>3, LineOfWorker DEF OnPing
    <3>3. log'[d] = log[d]
      BY <1>a, <3>1, <3>2, Lengthened
    <3>4. QED
      BY <2>3, <3>1, <3>3
  <2>4. QED
    BY <2>1, <2>2, <2>3 DEF LinesHold, FollowedInv
<1>9. KeptInv'
  <2>1. \A n : Past(n)' => Past(n)
    BY DEF Past, OnPing
  <2>2. QED
    BY <1>4, <2>1 DEF LinesHold, KeptInv
<1>b. torn \in Nat
  BY DEF PingInv, PingsTypeOK
<1>10. TornInv'
  <2>1. PICK k : k = Len(log[D])
    OBVIOUS
  <2>2. TornPlaces' \subseteq TornPlaces \cup {<<D, k + 1>>}
    <3> SUFFICES ASSUME NEW x \in TornPlaces', x # <<D, k + 1>> PROVE x \in TornPlaces
      OBVIOUS
    <3>1. x \in Days \X Nat /\ x[2] \in DOMAIN log'[x[1]] /\ log'[x[1]][x[2]] = Torn
      BY DEF TornPlaces
    <3>2. PICK d \in Days, i \in Nat : d = x[1] /\ i = x[2] /\ x = <<d, i>>
      BY <3>1
    <3>3. CASE d # D
      <4>1. log'[d] = log[d]
        BY <1>a, <3>3, Lengthened
      <4>2. QED
        BY <3>1, <3>2, <4>1 DEF TornPlaces
    <3>4. CASE d = D
      <4>1. /\ k \in Nat /\ DOMAIN log[D] = 1..k /\ DOMAIN log'[D] = 1..(k + 1)
            /\ \A j \in DOMAIN log[D] : log'[D][j] = log[D][j]
        <5>1. /\ Len(log[D]) \in Nat /\ DOMAIN log[D] = 1..Len(log[D]) /\ DOMAIN log'[D] = 1..(Len(log[D]) + 1)
              /\ \A j \in DOMAIN log[D] : log'[D][j] = log[D][j]
          BY <1>a, Lengthened
        <5>2. QED
          BY <2>1, <5>1
      <4>2. i \in DOMAIN log'[D] /\ log'[D][i] = Torn /\ i # k + 1
        BY <3>1, <3>2, <3>4
      <4>3. i \in DOMAIN log[D] /\ log[D][i] = Torn
        BY <4>1, <4>2
      <4>4. QED
        BY <3>1, <3>2, <3>4, <4>3 DEF TornPlaces
    <3>5. QED
      BY <3>3, <3>4
  <2>3. /\ IsFiniteSet(TornPlaces \cup {<<D, k + 1>>})
        /\ Cardinality(TornPlaces \cup {<<D, k + 1>>}) <= Cardinality(TornPlaces) + 1
    <3>1. Cardinality(TornPlaces) \in Nat
      BY FS_CardinalityType DEF LinesHold, TornInv
    <3>2. IsFiniteSet(TornPlaces)
      BY DEF LinesHold, TornInv
    <3>3. PICK x : x = <<D, k + 1>>
      OBVIOUS
    <3>4. IsFiniteSet(TornPlaces \cup {x}) /\ Cardinality(TornPlaces \cup {x}) <= Cardinality(TornPlaces) + 1
      <4>1. PICK T : T = TornPlaces
        OBVIOUS
      <4>2. /\ IsFiniteSet(T \cup {x})
            /\ Cardinality(T \cup {x}) = IF x \in T THEN Cardinality(T) ELSE Cardinality(T) + 1
        BY <3>2, <4>1, FS_AddElement
      <4>3. QED
        BY <3>1, <4>1, <4>2
    <3>5. QED
      BY <3>3, <3>4
  <2>4. /\ IsFiniteSet(TornPlaces')
        /\ Cardinality(TornPlaces') <= Cardinality(TornPlaces \cup {<<D, k + 1>>})
    BY <2>2, <2>3, FS_Subset
  <2>5. Cardinality(TornPlaces) \in Nat /\ Cardinality(TornPlaces') \in Nat /\ Cardinality(TornPlaces \cup {<<D, k + 1>>}) \in Nat
    BY <2>3, <2>4, FS_CardinalityType DEF LinesHold, TornInv
  <2>6. QED
    BY <1>b, <2>3, <2>4, <2>5 DEF LinesHold, TornInv
<1>11. QED
  BY <1>6, <1>7, <1>8, <1>9, <1>10 DEF LinesHold

LEMMA WriteLineLines ==
    ASSUME LinesHold, PingInv, PingInv', NEW w \in PingWorkers, WriteLine(w) PROVE LinesHold'
<1> DEFINE me == ping_worker[w]
           day == DayOf(me.at)
           between == {v \in PingWorkers \ {w} : ping_worker[v].pc = "end" /\ DayOf(ping_worker[v].at) = day}
<1>1. ping_worker[w].pc = "line" /\ OnPing(w) /\ UNCHANGED <<ping_now, server, sent, answered>>
  BY DEF WriteLine, OnPing
<1>2. CASE /\ ping_worker' = [ping_worker EXCEPT ![w] = NoRequest]
           /\ \/ UNCHANGED <<log, mixed, torn>>
              \/ /\ log' = [log EXCEPT ![day] = Append(@, Torn)] /\ torn' = torn + 1
                 /\ mixed' = mixed \cup {ping_worker[v].n : v \in between}
  <2>1. ping_worker'[w] = NoRequest /\ \A v \in PingWorkers : v # w => ping_worker'[v] = ping_worker[v]
    BY <1>2 DEF PingInv, PingsTypeOK
  <2>2. \A v \in PingWorkers : ping_worker'[v].pc # "idle" => server' = "up"
    BY <1>1, <2>1, Drop DEF LinesHold, HandsInv
  <2>3. \A v \in PingWorkers : OnPing(v)' => ping_worker'[v] = ping_worker[v]
    BY <2>1, Drop DEF OnPing
  <2>4. ping_now' >= ping_now
    BY <1>1, PingNumbers DEF PingInv, PingsTypeOK
  <2>5. CASE UNCHANGED <<log, mixed, torn>>
    BY <1>1, <2>1, <2>2, <2>3, <2>4, <2>5, NoLineKeeps
  <2>6. CASE /\ log' = [log EXCEPT ![day] = Append(@, Torn)] /\ torn' = torn + 1
             /\ mixed' = mixed \cup {ping_worker[v].n : v \in between}
    <3>1. \A v \in PingWorkers : ping_worker[v].pc = "end" =>
             \/ ping_worker[v].n \in mixed'
             \/ DayOf(ping_worker[v].at) # DayOf(ping_worker[w].at) /\ ping_worker'[v] = ping_worker[v]
      BY <1>1, <2>1, <2>6
    <3>2. QED
      BY <1>1, <2>2, <2>3, <2>6, <3>1, TornLeft
  <2>7. QED
    BY <1>2, <2>5, <2>6
<1>3. CASE /\ log' = [log EXCEPT ![day] = Append(@, Line(me.n, me.id, me.at))]
           /\ ping_worker' = [ping_worker EXCEPT ![w].pc = "end"]
           /\ mixed' = IF between = {} THEN mixed ELSE mixed \cup {ping_worker[v].n : v \in between \cup {w}}
           /\ UNCHANGED torn
  <2>1. day \in Days /\ PingsTypeOK
    BY <1>1, StillNeeded DEF PingInv
  <2>b. PICK D \in Days : D = day
    BY <2>1
  <2>2. PICK k \in Nat : k = Len(log[D])
    BY <2>1 DEF PingsTypeOK
  <2>3. PICK e \in LogEntries : e = Line(me.n, me.id, me.at)
    <3>1. me \in Requests
      BY DEF PingInv, PingsTypeOK
    <3>2. me.at \in 0..MaxPingTime /\ me.n \in 1..MaxPings /\ me.id \in Devices
      BY <1>1, <3>1, RequestIs
    <3>3. QED
      BY <3>2 DEF Line, LogEntries
  <2>4. e.is = "line" /\ e.n = me.n /\ e # Torn
    BY <2>3 DEF Line, Torn
  <2>5. /\ NumbersInv' /\ HandsInv' /\ ping_worker'[w].pc = "end"
        /\ \A v \in PingWorkers : /\ OnPing(v)' = OnPing(v) /\ ping_worker'[v].n = ping_worker[v].n
                                  /\ v # w => ping_worker'[v] = ping_worker[v]
    BY <1>1, <1>3, HandsStay
  <2>6. log' = [log EXCEPT ![D] = Append(@, e)]
    BY <1>3, <2>3, <2>b
  <2>c. D \in Days /\ e \in LogEntries /\ PingsTypeOK /\ log' = [log EXCEPT ![D] = Append(@, e)]
    BY <2>1, <2>b, <2>3, <2>6
  <2>a. mixed \subseteq mixed' /\ \A v \in between : ping_worker[v].n \in mixed'
    BY <1>3
  <2>7. PingOf(w) \in sent /\ DayOf(PingOf(w).at) = D /\ e = Line(PingOf(w).n, PingOf(w).id, PingOf(w).at) /\ PingOf(w).n = me.n
    BY <1>1, <2>3, <2>b DEF LinesHold, HandsInv, PingOf
  <2>8. /\ IsLine(D, k + 1)' /\ log'[D][k + 1] = e /\ k + 1 = Len(log'[D])
        /\ \A d \in Days, i \in Nat : IsLine(d, i)' =>
             (IsLine(d, i) /\ log'[d][i] = log[d][i]) \/ (d = D /\ i = k + 1)
        /\ \A d \in Days : d # D => log'[d] = log[d]
    <3>9. /\ Len(log[D]) \in Nat /\ Len(log'[D]) = Len(log[D]) + 1 /\ log'[D][Len(log[D]) + 1] = e
          /\ DOMAIN log'[D] = 1..(Len(log[D]) + 1)
      BY <2>c, Lengthened
    <3>8. ASSUME NEW d \in Days, NEW i \in Nat, IsLine(d, i)'
          PROVE  IsLine(d, i) \/ (d = D /\ i = k + 1)
      <4>1. IsLine(d, i) \/ (d = D /\ i = Len(log[D]) + 1 /\ e.is = "line")
        BY <2>c, <3>8, Lengthened
      <4>2. QED
        BY <2>2, <4>1
    <3>0. DOMAIN log'[D] = 1..(k + 1) /\ log'[D][k + 1] = e /\ k + 1 = Len(log'[D])
      BY <2>2, <3>9
    <3>1. k + 1 \in DOMAIN log'[D] /\ log'[D][k + 1] = e /\ k + 1 = Len(log'[D])
      BY <2>2, <3>0
    <3>2. \A d \in Days, i \in Nat : IsLine(d, i)' => IsLine(d, i) \/ (d = D /\ i = k + 1)
      BY <3>8
    <3>3. \A d \in Days, i \in Nat : IsLine(d, i) => log'[d][i] = log[d][i]
      BY <2>c, Lengthened DEF IsLine
    <3>4. \A d \in Days : d # D => log'[d] = log[d]
      BY <2>c, Lengthened
    <3>5. IsLine(D, k + 1)'
      BY <2>4, <3>1 DEF IsLine
    <3>6. QED
      BY <3>1, <3>2, <3>3, <3>4, <3>5
  <2> HIDE DEF day, between
  <2>9. \A d \in Days, i \in Nat : IsLine(d, i) => log[d][i].n # me.n
    BY <1>1 DEF LinesHold, LinesInv
  <2>10. LinesInv'
    <3> SUFFICES ASSUME NEW d \in Days, NEW i \in Nat, IsLine(d, i)'
                 PROVE  /\ \E q \in sent' : log'[d][i] = Line(q.n, q.id, q.at) /\ DayOf(q.at) = d
                        /\ \A v \in PingWorkers : ping_worker'[v].pc = "line" => ping_worker'[v].n # log'[d][i].n
                        /\ \A j \in Nat : IsLine(d, j)' /\ log'[d][j].n = log'[d][i].n => j = i
      BY DEF LinesInv
    <3>1. \A v \in PingWorkers : ping_worker'[v].pc = "line" => v # w /\ ping_worker[v].pc = "line" /\ ping_worker[v].n # me.n
      <4> SUFFICES ASSUME NEW v \in PingWorkers, ping_worker'[v].pc = "line"
                   PROVE  v # w /\ ping_worker[v].pc = "line" /\ ping_worker[v].n # me.n
        OBVIOUS
      <4>1. v # w
        BY <2>5
      <4>2. ping_worker[v].pc = "line" /\ OnPing(v)
        BY <2>5, <4>1 DEF OnPing
      <4>3. QED
        BY <1>1, <4>1, <4>2 DEF LinesHold, HandsInv
    <3>2. CASE IsLine(d, i) /\ log'[d][i] = log[d][i]
      <4>1. \E q \in sent' : log'[d][i] = Line(q.n, q.id, q.at) /\ DayOf(q.at) = d
        BY <1>1, <3>2 DEF LinesHold, LinesInv
      <4>2. \A v \in PingWorkers : ping_worker'[v].pc = "line" => ping_worker'[v].n # log'[d][i].n
        BY <2>5, <3>1, <3>2 DEF LinesHold, LinesInv
      <4>3. ASSUME NEW j \in Nat, IsLine(d, j)', log'[d][j].n = log'[d][i].n PROVE j = i
        <5>1. log[d][i].n # me.n
          BY <2>9, <3>2
        <5>2. ~(d = D /\ j = k + 1)
          BY <2>4, <2>8, <3>2, <4>3, <5>1
        <5>3. IsLine(d, j) /\ log'[d][j] = log[d][j]
          BY <2>8, <4>3, <5>2
        <5>4. QED
          BY <3>2, <4>3, <5>3 DEF LinesHold, LinesInv
      <4>4. QED
        BY <4>1, <4>2, <4>3
    <3>3. CASE d = D /\ i = k + 1
      <4>1. \E q \in sent' : log'[d][i] = Line(q.n, q.id, q.at) /\ DayOf(q.at) = d
        BY <1>1, <2>7, <2>8, <3>3
      <4>2. \A v \in PingWorkers : ping_worker'[v].pc = "line" => ping_worker'[v].n # log'[d][i].n
        BY <2>4, <2>5, <2>8, <3>1, <3>3
      <4>3. \A j \in Nat : IsLine(d, j)' /\ log'[d][j].n = log'[d][i].n => j = i
        BY <2>4, <2>8, <2>9, <3>3
      <4>4. QED
        BY <4>1, <4>2, <4>3
    <3>4. QED
      BY <2>8, <3>2, <3>3
  <2>11. FollowedInv'
    <3> SUFFICES ASSUME NEW d \in Days, NEW i \in Nat, IsLine(d, i)', log'[d][i].n \notin mixed'
                 PROVE  \/ i + 1 \in DOMAIN log'[d] /\ log'[d][i + 1] = NL
                        \/ i = Len(log'[d]) /\ \E v \in PingWorkers : ping_worker'[v].pc = "end" /\ ping_worker'[v].n = log'[d][i].n
      BY DEF FollowedInv
    <3>1. CASE d = D /\ i = k + 1
      BY <2>4, <2>5, <2>8, <3>1
    <3>2. CASE IsLine(d, i) /\ log'[d][i] = log[d][i]
      <4>1. log[d][i].n \notin mixed
        BY <2>a, <3>2
      <4>2. CASE i + 1 \in DOMAIN log[d] /\ log[d][i + 1] = NL
        BY <2>1, <2>6, <4>2, Lengthened
      <4>3. ASSUME i = Len(log[d]), NEW v \in PingWorkers, ping_worker[v].pc = "end", ping_worker[v].n = log[d][i].n
            PROVE  i = Len(log'[d]) /\ ping_worker'[v].pc = "end" /\ ping_worker'[v].n = log'[d][i].n
        <5>1. v # w /\ OnPing(v)
          BY <1>1, <4>3 DEF OnPing
        <5>2. DayOf(ping_worker[v].at) = d
          BY <3>2, <4>3, <5>1, LineOfWorker
        <5>3. d # D
          <6> SUFFICES ASSUME d = D PROVE FALSE
            OBVIOUS
          <6>1. v \in between
            BY <4>3, <5>1, <5>2, <2>b DEF between
          <6>2. ping_worker[v].n \in mixed'
            BY <2>a, <6>1
          <6>3. QED
            BY <3>2, <4>3, <6>2
        <5>4. QED
          BY <2>5, <2>8, <3>2, <4>3, <5>1, <5>3
      <4>4. QED
        BY <3>2, <4>1, <4>2, <4>3 DEF LinesHold, FollowedInv
    <3>3. QED
      BY <2>8, <3>1, <3>2
  <2>12. /\ \A p \in sent : Gone(DayOf(p.at)) \/ Found(p) => Gone(DayOf(p.at))' \/ Found(p)'
         /\ TornPlaces' \subseteq TornPlaces
    BY <1>1, <2>3, <2>4, <2>6, <2>b, WrittenKeeps DEF day
  <2>13. KeptInv'
    <3> SUFFICES ASSUME NEW p \in sent', Past(p.n)' PROVE Gone(DayOf(p.at))' \/ Found(p)'
      BY DEF KeptInv
    <3>1. p \in sent
      BY <1>1
    <3>2. CASE p.n = me.n
      <4>1. p = PingOf(w)
        BY <2>7, <3>1, <3>2 DEF LinesHold, NumbersInv
      <4>2. k + 1 \in DOMAIN log'[D] /\ log'[D][k + 1] = Line(p.n, p.id, p.at) /\ DayOf(p.at) = D
        BY <2>7, <2>8, <4>1 DEF IsLine
      <4>3. QED
        BY <4>2 DEF Found
    <3>3. CASE p.n # me.n
      <4>1. Past(p.n)
        BY <1>1, <2>5, <3>3 DEF Past
      <4>2. QED
        BY <2>12, <3>1, <4>1 DEF LinesHold, KeptInv
    <3>4. QED
      BY <3>2, <3>3
  <2>14. TornInv'
    BY <1>3, <2>12, TornStays DEF LinesHold, PingInv, PingsTypeOK
  <2>15. QED
    BY <2>5, <2>10, <2>11, <2>13, <2>14 DEF LinesHold
<1>4. QED
  BY <1>1, <1>2, <1>3 DEF WriteLine

(* The end of a line, when its write succeeds.                             *)
EndWritten(w) ==
    /\ log' = [log EXCEPT ![DayOf(ping_worker[w].at)] = Append(@, NL)]
    /\ ping_worker' = [ping_worker EXCEPT ![w].pc = "record"]
    /\ UNCHANGED mixed

LEMMA EndedLines ==
    ASSUME LinesHold, PingInv, PingInv', NEW w \in PingWorkers, WriteEnd(w), EndWritten(w) PROVE LinesHold'
<1>1. ping_worker[w].pc = "end" /\ OnPing(w) /\ UNCHANGED <<ping_now, server, sent, answered, mixed, torn>>
  BY DEF WriteEnd, EndWritten, OnPing
<1>2. PICK D \in Days : D = DayOf(ping_worker[w].at)
  BY <1>1, StillNeeded
<1>3. NL \in LogEntries /\ NL # Torn /\ NL.is # "line" /\ PingsTypeOK
  BY DEF LogEntries, NL, Torn, PingInv
<1>4. log' = [log EXCEPT ![D] = Append(@, NL)]
  BY <1>2 DEF EndWritten
<1>a. D \in Days /\ NL \in LogEntries /\ PingsTypeOK /\ log' = [log EXCEPT ![D] = Append(@, NL)]
  BY <1>2, <1>3, <1>4
<1>b. NL.is # "line"
  BY <1>3
<1>5. PICK k \in Nat : k = Len(log[D])
  BY <1>2 DEF PingInv, PingsTypeOK
<1>6. /\ NumbersInv' /\ HandsInv' /\ ping_worker'[w].pc = "record"
      /\ \A v \in PingWorkers : /\ OnPing(v)' = OnPing(v) /\ ping_worker'[v].n = ping_worker[v].n
                                /\ v # w => ping_worker'[v] = ping_worker[v]
  BY <1>1, HandsStay DEF EndWritten
<1>7. /\ DOMAIN log[D] = 1..Len(log[D]) /\ DOMAIN log'[D] = 1..(Len(log[D]) + 1)
      /\ log'[D][Len(log[D]) + 1] = NL
  BY <1>a, Lengthened
<1>8. ASSUME NEW d \in Days, NEW i \in Nat, IsLine(d, i)'
      PROVE  IsLine(d, i) /\ log'[d][i] = log[d][i]
  <2>1. IsLine(d, i)
    BY <1>a, <1>b, <1>8, Lengthened
  <2>2. QED
    BY <1>a, <2>1, Lengthened DEF IsLine
<1>9. LinesInv'
  <2> SUFFICES ASSUME NEW d \in Days, NEW i \in Nat, IsLine(d, i)'
               PROVE  /\ \E q \in sent' : log'[d][i] = Line(q.n, q.id, q.at) /\ DayOf(q.at) = d
                      /\ \A v \in PingWorkers : ping_worker'[v].pc = "line" => ping_worker'[v].n # log'[d][i].n
                      /\ \A j \in Nat : IsLine(d, j)' /\ log'[d][j].n = log'[d][i].n => j = i
    BY DEF LinesInv
  <2>1. IsLine(d, i) /\ log'[d][i] = log[d][i]
    BY <1>8
  <2>2. \A v \in PingWorkers : ping_worker'[v].pc = "line" => ping_worker[v].pc = "line" /\ ping_worker'[v].n = ping_worker[v].n
    BY <1>6
  <2>3. QED
    BY <1>1, <1>8, <2>1, <2>2 DEF LinesHold, LinesInv
<1>10. FollowedInv'
  <2> SUFFICES ASSUME NEW d \in Days, NEW i \in Nat, IsLine(d, i)', log'[d][i].n \notin mixed'
               PROVE  \/ i + 1 \in DOMAIN log'[d] /\ log'[d][i + 1] = NL
                      \/ i = Len(log'[d]) /\ \E v \in PingWorkers : ping_worker'[v].pc = "end" /\ ping_worker'[v].n = log'[d][i].n
    BY DEF FollowedInv
  <2>1. IsLine(d, i) /\ log'[d][i] = log[d][i] /\ log[d][i].n \notin mixed
    BY <1>1, <1>8
  <2>2. CASE i + 1 \in DOMAIN log[d] /\ log[d][i + 1] = NL
    BY <1>a, <2>2, Lengthened
  <2>3. ASSUME i = Len(log[d]), NEW v \in PingWorkers, ping_worker[v].pc = "end", ping_worker[v].n = log[d][i].n
        PROVE  \/ i + 1 \in DOMAIN log'[d] /\ log'[d][i + 1] = NL
               \/ i = Len(log'[d]) /\ ping_worker'[v].pc = "end" /\ ping_worker'[v].n = log'[d][i].n
    <3>1. CASE d = D
      BY <1>5, <1>7, <2>3, <3>1
    <3>2. CASE d # D
      <4>1. log'[d] = log[d]
        BY <1>a, <3>2, Lengthened
      <4>2. OnPing(v)
        BY <2>3 DEF OnPing
      <4>3. DayOf(ping_worker[v].at) = d
        BY <2>1, <2>3, <4>2, LineOfWorker
      <4>4. v # w
        BY <1>2, <3>2, <4>3
      <4>5. QED
        BY <1>6, <2>3, <4>1, <4>4
    <3>3. QED
      BY <3>1, <3>2
  <2>4. QED
    BY <2>1, <2>2, <2>3 DEF LinesHold, FollowedInv
<1>11. /\ \A p \in sent : Gone(DayOf(p.at)) \/ Found(p) => Gone(DayOf(p.at))' \/ Found(p)'
       /\ TornPlaces' \subseteq TornPlaces
  <2>1. ping_worker[w].pc # "idle" /\ log' = [log EXCEPT ![DayOf(ping_worker[w].at)] = Append(@, NL)]
    BY <1>1 DEF EndWritten
  <2>2. QED
    BY <1>1, <1>3, <2>1, WrittenKeeps
<1>12. KeptInv'
  <2> SUFFICES ASSUME NEW p \in sent', Past(p.n)' PROVE Gone(DayOf(p.at))' \/ Found(p)'
    BY DEF KeptInv
  <2>1. Past(p.n)
    BY <1>1, <1>6 DEF Past
  <2>2. QED
    BY <1>1, <1>11, <2>1 DEF LinesHold, KeptInv
<1>13. TornInv'
  BY <1>1, <1>11, TornStays DEF LinesHold, PingInv, PingsTypeOK
<1>14. QED
  BY <1>6, <1>9, <1>10, <1>12, <1>13 DEF LinesHold

LEMMA WriteEndLines ==
    ASSUME LinesHold, PingInv, PingInv', NEW w \in PingWorkers, WriteEnd(w) PROVE LinesHold'
<1>1. ping_worker[w].pc = "end" /\ UNCHANGED <<ping_now, server, sent, answered, torn>>
  BY DEF WriteEnd
<1>2. CASE ping_worker' = [ping_worker EXCEPT ![w] = NoRequest] /\ mixed' = mixed \cup {ping_worker[w].n} /\ UNCHANGED log
  <2>1. ping_worker'[w] = NoRequest /\ \A v \in PingWorkers : v # w => ping_worker'[v] = ping_worker[v]
    BY <1>2 DEF PingInv, PingsTypeOK
  <2>2. \A v \in PingWorkers : ping_worker'[v].pc # "idle" => server' = "up"
    BY <1>1, <2>1, Drop DEF LinesHold, HandsInv
  <2>3. \A v \in PingWorkers : OnPing(v)' => ping_worker'[v] = ping_worker[v]
    BY <2>1, Drop DEF OnPing
  <2>4. ping_now' >= ping_now
    BY <1>1, PingNumbers DEF PingInv, PingsTypeOK
  <2>5. QED
    BY <1>1, <1>2, <2>1, <2>2, <2>3, <2>4, NoLineKeeps
<1>3. QED
  BY <1>2, EndedLines DEF WriteEnd, EndWritten

LEMMA RecordLines ==
    ASSUME LinesHold, PingInv, PingInv', NEW w \in PingWorkers, Record(w) PROVE LinesHold'
<1> USE DEF LinesHold
<1>1. /\ ping_worker[w].pc = "record" /\ OnPing(w) /\ UNCHANGED <<ping_now, log, server, sent, mixed, torn>>
      /\ answered' = answered \cup {ping_worker[w].n}
  BY DEF Record, OnPing
<1>2. ping_worker'[w] = NoRequest /\ \A v \in PingWorkers : v # w => ping_worker'[v] = ping_worker[v]
  BY DEF Record, PingInv, PingsTypeOK
<1>3. ~OnPing(w)' /\ \A v \in PingWorkers : OnPing(v)' => v # w /\ OnPing(v) /\ ping_worker'[v] = ping_worker[v] /\ PingOf(v)' = PingOf(v)
  BY <1>2, Drop DEF OnPing, PingOf
<1>4. HandsInv'
  <2>1. \A v \in PingWorkers : ping_worker'[v].pc # "idle" => server' = "up"
    BY <1>1, <1>2, Drop DEF HandsInv
  <2>2. \A v \in PingWorkers : OnPing(v)' => PingOf(v)' \in sent' /\ ping_worker'[v].n \notin answered'
    BY <1>1, <1>3 DEF HandsInv
  <2>3. \A n \in answered' : \E p \in sent' : p.n = n
    BY <1>1 DEF HandsInv, PingOf
  <2>4. QED
    BY <1>3, <2>1, <2>2, <2>3 DEF HandsInv
<1>5. NumbersInv' /\ TornInv'
  BY <1>1 DEF NumbersInv, TornInv, TornPlaces
<1>6. LinesInv'
  <2>1. \A v \in PingWorkers : ping_worker'[v].pc = "line" => ping_worker'[v] = ping_worker[v]
    BY <1>3 DEF OnPing
  <2>2. \A d, i : IsLine(d, i)' <=> IsLine(d, i)
    BY <1>1 DEF IsLine
  <2>3. QED
    BY <1>1, <2>1, <2>2 DEF LinesInv
<1>7. FollowedInv'
  <2>1. \A v \in PingWorkers : ping_worker[v].pc = "end" => ping_worker'[v] = ping_worker[v]
    BY <1>1, <1>2
  <2>2. \A d, i : IsLine(d, i)' <=> IsLine(d, i)
    BY <1>1 DEF IsLine
  <2>3. QED
    BY <1>1, <2>1, <2>2 DEF FollowedInv
<1>8. KeptInv'
  <2> SUFFICES ASSUME NEW p \in sent', Past(p.n)' PROVE Gone(DayOf(p.at))' \/ Found(p)'
    BY DEF KeptInv
  <2>1. Past(p.n)
    BY <1>1, <1>3 DEF Past, OnPing
  <2>2. QED
    BY <1>1, <2>1 DEF KeptInv, Gone, Found
<1>9. QED
  BY <1>4, <1>5, <1>6, <1>7, <1>8

LEMMA CrashLines == ASSUME LinesHold, PingInv, PingInv', ServerCrash PROVE LinesHold'
<1>1. /\ \A v \in PingWorkers : ping_worker'[v].pc = "idle" /\ ~OnPing(v)'
      /\ UNCHANGED <<ping_now, sent, answered>>
      /\ mixed \subseteq mixed'
      /\ \A v \in PingWorkers : ping_worker[v].pc = "end" => ping_worker[v].n \in mixed'
  BY Drop DEF ServerCrash, OnPing
<1>2. torn \in Nat /\ ping_now' >= ping_now
  BY <1>1, PingNumbers DEF PingInv, PingsTypeOK
<1>3. CASE UNCHANGED <<log, torn>>
  BY <1>1, <1>2, <1>3, NoLineKeeps
<1>4. ASSUME NEW w \in PingWorkers, ping_worker[w].pc = "line", torn' = torn + 1,
             log' = [log EXCEPT ![DayOf(ping_worker[w].at)] = Append(@, Torn)]
      PROVE  LinesHold'
  BY <1>1, <1>4, TornLeft
<1>5. QED
  BY <1>3, <1>4 DEF ServerCrash

LEMMA LinesStep == LinesHold /\ PingInv /\ PingInv' /\ [PingsNext]_ping_vars => LinesHold'
<1> SUFFICES ASSUME LinesHold, PingInv, PingInv', [PingsNext]_ping_vars PROVE LinesHold'
  OBVIOUS
<1>1. ping_worker \in [PingWorkers -> Requests] /\ torn \in Nat /\ ping_now \in Nat
  BY PingNumbers DEF PingInv, PingsTypeOK
<1>2. ASSUME NEW w \in PingWorkers, MaintainBegin(w) \/ MaintainFlush(w) \/ MaintainRollup(w) \/ MaintainPrune(w)
      PROVE  LinesHold'
  <2>1. /\ UNCHANGED <<ping_now, server, sent, answered, mixed, torn>> /\ server = "up" /\ ~OnPing(w) /\ ~OnPing(w)'
        /\ \A v \in PingWorkers : v # w => ping_worker'[v] = ping_worker[v]
        /\ ping_worker[w].pc # "end"
    <3>1. server = "up"
      BY <1>2 DEF MaintainBegin, MaintainFlush, MaintainRollup, MaintainPrune, LinesHold, HandsInv
    <3>2. CASE MaintainBegin(w)
      BY <1>1, <3>1, <3>2 DEF MaintainBegin, OnPing
    <3>3. CASE MaintainFlush(w) \/ MaintainRollup(w)
      <4>1. ping_worker[w].pc \in {"flush", "rollup"} /\ UNCHANGED <<ping_now, server, sent, answered, mixed, torn>>
        BY <3>3 DEF MaintainFlush, MaintainRollup
      <4>2. \E pc \in {"rollup", "prune"} : ping_worker' = [ping_worker EXCEPT ![w].pc = pc]
        BY <3>3 DEF MaintainFlush, MaintainRollup
      <4>3. ping_worker'[w].pc \in {"rollup", "prune"} /\ \A v \in PingWorkers : v # w => ping_worker'[v] = ping_worker[v]
        <5>1. ping_worker[w] \in Requests
          BY <1>1
        <5>2. \A pc \in {"rollup", "prune"} : [ping_worker[w] EXCEPT !.pc = pc].pc = pc
          BY <5>1, RequestIs
        <5>3. QED
          BY <1>1, <4>2, <5>2
      <4>4. QED
        BY <3>1, <4>1, <4>3 DEF OnPing
    <3>4. CASE MaintainPrune(w)
      BY <1>1, <3>1, <3>4, Drop DEF MaintainPrune, OnPing
    <3>5. QED
      BY <1>2, <3>2, <3>3, <3>4
  <2>2. \A d \in Days : log'[d] = log[d] \/ (log'[d] = <<>> /\ d * DAY_SECS < ping_now - KEEP_DAYS * DAY_SECS)
    <3>1. CASE MaintainPrune(w)
      <4> SUFFICES ASSUME NEW d \in Days, log'[d] # log[d]
                   PROVE  log'[d] = <<>> /\ d * DAY_SECS < ping_now - KEEP_DAYS * DAY_SECS
        OBVIOUS
      <4>1. ping_worker[w].pc = "prune" /\ ping_worker[w] \in Requests
        BY <1>1, <3>1 DEF MaintainPrune
      <4>2. ping_worker[w].at \in 0..MaxPingTime /\ ping_worker[w].at <= ping_now
        BY <4>1, RequestIs DEF PingInv, Timely
      <4>3. PICK a \in Nat : a = ping_worker[w].at
        BY <4>2, PingNumbers
      <4>4. log'[d] = <<>> /\ d * DAY_SECS < a - KEEP_DAYS * DAY_SECS
        BY <3>1, <4>3 DEF MaintainPrune, prune_old_pings
      <4>5. PICK m \in Int : m = d * DAY_SECS
        BY DaysAreFinite, PingNumbers
      <4>6. PICK keep \in Nat : keep = KEEP_DAYS * DAY_SECS
        BY PingNumbers
      <4>7. m < ping_now - keep
        BY <1>1, <4>2, <4>3, <4>4, <4>5, <4>6
      <4>8. QED
        BY <4>4, <4>5, <4>6, <4>7
    <3>2. CASE UNCHANGED log
      BY <3>2
    <3>3. QED
      BY <1>2, <3>1, <3>2 DEF MaintainBegin, MaintainFlush, MaintainRollup, ping_files
  <2>3. \A v \in PingWorkers : OnPing(v)' => ping_worker'[v] = ping_worker[v]
    BY <2>1
  <2>4. \A v \in PingWorkers : ping_worker'[v].pc # "idle" => server' = "up"
    BY <2>1
  <2>5. ping_now' >= ping_now
    BY <1>1, <2>1
  <2>6. QED
    BY <2>1, <2>2, <2>3, <2>4, <2>5, NoLineKeeps
<1>3. ASSUME Start \/ Load \/ ReplayLine \/ ReplayDay \/ Replayed \/ StartRollup \/ StartFlush \/ PingTick \/ UNCHANGED ping_vars
      PROVE  LinesHold'
  <2>1. UNCHANGED <<ping_worker, sent, answered, mixed, torn>>
    BY <1>3 DEF Start, Load, ReplayLine, ReplayDay, Replayed, StartRollup, StartFlush, PingTick, ping_vars, ping_files
  <2>2. server = "up" => server' = "up"
    BY <1>3 DEF Start, Load, ReplayLine, ReplayDay, Replayed, StartRollup, StartFlush, PingTick, ping_vars, ping_files
  <2>3. ping_now' >= ping_now
    BY <1>1, <1>3 DEF Start, Load, ReplayLine, ReplayDay, Replayed, StartRollup, StartFlush, PingTick, ping_vars, ping_files
  <2>4. \A d \in Days : log'[d] = log[d] \/ (log'[d] = <<>> /\ d * DAY_SECS < ping_now - KEEP_DAYS * DAY_SECS)
    BY <1>3 DEF Start, Load, ReplayLine, ReplayDay, Replayed, StartRollup, StartFlush, PingTick, ping_vars, ping_files,
       prune_old_pings
  <2>5. \A v \in PingWorkers : ping_worker'[v].pc # "idle" => server' = "up"
    BY <2>1, <2>2 DEF LinesHold, HandsInv
  <2>6. QED
    BY <2>1, <2>3, <2>4, <2>5, NoLineKeeps
<1>4. QED
  BY <1>2, <1>3, PingLines, WriteLineLines, WriteEndLines, RecordLines, CrashLines DEF PingsNext, PingStep

LEMMA LinesStart == PingsInit => LinesHold
<1> SUFFICES ASSUME PingsInit PROVE LinesHold
  OBVIOUS
<1>1. \A d \in Days : DOMAIN log[d] = {}
  BY DEF PingsInit
<1>2. \A w \in PingWorkers : ping_worker[w].pc = "idle"
  BY DEF PingsInit, NoRequest
<1>3. sent = {} /\ answered = {} /\ torn = 0
  BY DEF PingsInit
<1>4. NumbersInv /\ HandsInv /\ KeptInv
  BY <1>2, <1>3 DEF NumbersInv, HandsInv, KeptInv, OnPing
<1>5. LinesInv /\ FollowedInv
  BY <1>1 DEF LinesInv, FollowedInv, IsLine
<1>6. TornInv
  <2>1. TornPlaces = {}
    BY <1>1 DEF TornPlaces
  <2>2. QED
    BY <1>3, <2>1, FS_EmptySet DEF TornInv
<1>7. QED
  BY <1>4, <1>5, <1>6 DEF LinesHold

-----------------------------------------------------------------------------
(* What is counted does not get less: a ping that no worker has is taken   *)
(* by none, and a newer index counts more.                                 *)
Settling ==
    /\ sent \subseteq sent' /\ IsFiniteSet(sent')
    /\ \A p \in sent : Pinging(p.n)' => Pinging(p.n)

LEMMA CountedIs ==
    ASSUME IsFiniteSet(sent), NEW d, NEW at
    PROVE  IsFiniteSet(Counted(d, at)) /\ Cardinality(Counted(d, at)) \in Nat
<1>1. Counted(d, at) \subseteq sent
  BY DEF Counted
<1>2. QED
  BY <1>1, FS_Subset, FS_CardinalityType

LEMMA AccountedIs ==
    ASSUME IsFiniteSet(sent), NEW d
    PROVE  IsFiniteSet(Accounted(d)) /\ Cardinality(Accounted(d)) \in Nat
<1>1. Accounted(d) \subseteq sent
  BY DEF Accounted, Counted
<1>2. QED
  BY <1>1, FS_Subset, FS_CardinalityType

LEMMA LargerCounts ==
    ASSUME NEW A, NEW B, IsFiniteSet(B), A \subseteq B, NEW k \in Nat, k <= Cardinality(A)
    PROVE  k <= Cardinality(B)
<1>1. IsFiniteSet(A) /\ Cardinality(A) <= Cardinality(B)
  BY FS_Subset
<1>2. Cardinality(A) \in Nat /\ Cardinality(B) \in Nat
  BY <1>1, FS_CardinalityType
<1>3. QED
  BY <1>1, <1>2

LEMMA OneMoreCounts ==
    ASSUME NEW A, NEW B, NEW x \in B, IsFiniteSet(B), A \subseteq B, x \notin A, NEW k \in Nat, k <= Cardinality(A)
    PROVE  k + 1 <= Cardinality(B)
<1>1. A \cup {x} \subseteq B /\ IsFiniteSet(A)
  BY FS_Subset
<1>2. Cardinality(A \cup {x}) = Cardinality(A) + 1 /\ Cardinality(A) \in Nat
  BY <1>1, FS_AddElement, FS_CardinalityType
<1>3. k + 1 <= Cardinality(A \cup {x}) /\ k + 1 \in Nat
  BY <1>2
<1>4. QED
  BY <1>1, <1>3, LargerCounts

LEMMA CountsAreNumbers ==
    ASSUME PingsTypeOK
    PROVE  /\ snapshot.saved_at \in Nat /\ index.saved_at \in Nat /\ index \in Indexes
           /\ \A d \in Devices : snapshot.devices[d].pings \in Nat /\ index.devices[d].pings \in Nat
           /\ \A p \in sent : p.at \in Nat /\ DayOf(p.at) \in Days
<1>1. \A p \in sent : p.at \in 0..MaxPingTime
  BY DEF PingsTypeOK
<1>2. \A p \in sent : p.at \in Nat /\ DayOf(p.at) \in Days
  BY <1>1, DayBounds, PingNumbers
<1>3. index \in Indexes /\ snapshot \in Snapshots
  BY DEF PingsTypeOK, Indexes, Snapshots
<1>4. \A f \in Figures : f.pings \in Nat
  BY DEF Figures
<1>5. QED
  BY <1>2, <1>3, <1>4 DEF Indexes, Snapshots

(* What the snapshot counts.                                               *)
LEMMA SnapshotStays ==
    ASSUME CountInv, PingsTypeOK, Settling, UNCHANGED snapshot, NEW d \in Devices
    PROVE  snapshot'.devices[d].pings <= Cardinality(Counted(d, snapshot.saved_at)')
<1>1. PICK k \in Nat : k = snapshot.devices[d].pings
  BY CountsAreNumbers
<1>2. k <= Cardinality(Counted(d, snapshot.saved_at))
  BY <1>1 DEF CountInv
<1>3. Counted(d, snapshot.saved_at) \subseteq Counted(d, snapshot.saved_at)'
  BY DEF Counted, Settling
<1>4. IsFiniteSet(Counted(d, snapshot.saved_at)')
  <2>1. Counted(d, snapshot.saved_at)' \subseteq sent'
    BY DEF Counted
  <2>2. QED
    BY <2>1, FS_Subset DEF Settling
<1>5. k <= Cardinality(Counted(d, snapshot.saved_at)')
  BY <1>2, <1>3, <1>4, LargerCounts
<1>6. QED
  BY <1>1, <1>5

(* Steps that count nothing: the index stays, or is saved, or is entirely  *)
(* the one before.                                                         *)
LEMMA NoCountKeeps ==
    ASSUME CountInv, PingsTypeOK, PingsTypeOK', Settling,
           server # "replay", server' # "replay", server' \in {"down", "load"} => server \in {"down", "load"},
           index'.saved_at = index.saved_at, index'.devices = index.devices,
           \/ UNCHANGED snapshot
           \/ snapshot' = [saved_at |-> index.saved_at, devices |-> index.devices]
    PROVE  CountInv'
<1>1. \A d \in Devices : Accounted(d) = Counted(d, index.saved_at) /\ Accounted(d)' = Counted(d, index.saved_at)'
  BY DEF Accounted
<1>2. ASSUME NEW d \in Devices PROVE index.devices[d].pings <= Cardinality(Counted(d, index.saved_at)')
  <2>1. PICK k \in Nat : k = index.devices[d].pings
    BY CountsAreNumbers
  <2>2. k <= Cardinality(Counted(d, index.saved_at))
    BY <1>1, <2>1 DEF CountInv
  <2>3. Counted(d, index.saved_at) \subseteq Counted(d, index.saved_at)'
    BY DEF Counted, Settling
  <2>4. IsFiniteSet(Counted(d, index.saved_at)')
    <3>1. Counted(d, index.saved_at)' \subseteq sent'
      BY DEF Counted
    <3>2. QED
      BY <3>1, FS_Subset DEF Settling
  <2>5. k <= Cardinality(Counted(d, index.saved_at)')
    BY <2>2, <2>3, <2>4, LargerCounts
  <2>6. QED
    BY <2>1, <2>5
<1>3. ASSUME NEW d \in Devices PROVE index'.devices[d].pings <= Cardinality(Accounted(d)')
  BY <1>1, <1>2
<1>4. ASSUME NEW d \in Devices PROVE snapshot'.devices[d].pings <= Cardinality(Counted(d, snapshot.saved_at)')
  <2>1. CASE UNCHANGED snapshot
    BY <2>1, SnapshotStays
  <2>2. CASE snapshot' = [saved_at |-> index.saved_at, devices |-> index.devices]
    <3>1. snapshot'.saved_at = index'.saved_at /\ snapshot'.devices = index.devices
      BY <2>2
    <3>2. Counted(d, snapshot.saved_at)' = Counted(d, index.saved_at)'
      BY <3>1 DEF Counted
    <3>3. QED
      BY <1>2, <3>1, <3>2
  <2>3. QED
    BY <2>1, <2>2
<1>5. (server \in {"down", "load"} => index.devices = NoDevices)'
  BY DEF CountInv
<1>6. QED
  BY <1>3, <1>4, <1>5 DEF CountInv

(* A ping that is recorded counts from then on, and did not before.        *)
LEMMA RecordCounts ==
    ASSUME CountInv, LinesHold, PingInv, PingsTypeOK', NEW w \in PingWorkers, Record(w) PROVE CountInv'
<1>1. /\ ping_worker[w].pc = "record" /\ OnPing(w) /\ server = "up" /\ UNCHANGED <<server, sent>>
      /\ ping_worker[w] \in Requests
  BY DEF Record, OnPing, LinesHold, HandsInv, PingInv, PingsTypeOK
<1>2. PICK p \in sent : p = PingOf(w)
  BY <1>1 DEF LinesHold, HandsInv
<1>3. p.n = ping_worker[w].n /\ p.id = ping_worker[w].id /\ p.at = ping_worker[w].at
  BY <1>2 DEF PingOf
<1>4. p.id \in Devices /\ p.at \in Nat
  BY <1>1, <1>3, RequestIs, CountsAreNumbers DEF PingInv
<1>5. PICK new : new = record(index, p.id, p.at)
  OBVIOUS
<1>6. /\ new \in Indexes /\ new.saved_at \in Nat
      /\ new.saved_at >= index.saved_at /\ new.saved_at >= p.at
      /\ new.devices[p.id].pings <= index.devices[p.id].pings + 1
      /\ \A d \in Devices \ {p.id} : new.devices[d].pings <= index.devices[d].pings
  <2>1. index \in Indexes
    BY CountsAreNumbers DEF PingInv
  <2>2. /\ new \in Indexes
        /\ new.saved_at >= index.saved_at /\ new.saved_at >= p.at
        /\ new.devices[p.id].pings <= index.devices[p.id].pings + 1
        /\ \A d \in Devices \ {p.id} : new.devices[d].pings <= index.devices[d].pings
    BY <1>4, <1>5, <2>1, RecordIs
  <2>3. QED
    BY <2>2 DEF Indexes
<1>7. /\ index'.devices = new.devices /\ index'.saved_at = new.saved_at
      /\ \/ UNCHANGED snapshot
         \/ snapshot' = [saved_at |-> new.saved_at, devices |-> new.devices]
  <2>1. [new EXCEPT !.dirty = FALSE].devices = new.devices /\ [new EXCEPT !.dirty = FALSE].saved_at = new.saved_at
    BY <1>6 DEF Indexes
  <2>2. QED
    BY <1>3, <1>5, <2>1 DEF Record
<1>8. /\ \A v \in PingWorkers : OnPing(v)' => v # w /\ OnPing(v) /\ ping_worker'[v] = ping_worker[v]
      /\ Pinging(p.n) /\ ~Pinging(p.n)'
      /\ \A q \in sent : Pinging(q.n)' => Pinging(q.n)
  <2>1. ping_worker'[w] = NoRequest /\ \A v \in PingWorkers : v # w => ping_worker'[v] = ping_worker[v]
    BY DEF Record, PingInv, PingsTypeOK
  <2>2. \A v \in PingWorkers : OnPing(v)' => v # w /\ OnPing(v) /\ ping_worker'[v] = ping_worker[v]
    BY <2>1, Drop DEF OnPing
  <2>3. ~Pinging(p.n)'
    BY <1>1, <1>3, <2>2 DEF Pinging, LinesHold, HandsInv
  <2>4. QED
    BY <1>1, <1>3, <2>2, <2>3 DEF Pinging
<1>9. Settling
  BY <1>1, <1>8 DEF Settling, PingInv
<1>10. ASSUME NEW d \in Devices PROVE new.devices[d].pings <= Cardinality(Accounted(d)')
  <2>1. PICK k \in Nat : k = index.devices[d].pings
    BY CountsAreNumbers DEF PingInv
  <2>2. k <= Cardinality(Accounted(d))
    BY <2>1 DEF CountInv
  <2>3. Accounted(d) \subseteq Accounted(d)'
    <3> SUFFICES ASSUME NEW q \in Accounted(d) PROVE q \in Accounted(d)'
      OBVIOUS
    <3>1. q \in sent /\ q.id = d /\ q.at <= index.saved_at /\ ~Pinging(q.n)
      BY DEF Accounted, Counted
    <3>2. q.at \in Nat /\ index.saved_at \in Nat
      BY <3>1, CountsAreNumbers DEF PingInv
    <3>3. q.at <= index'.saved_at
      BY <1>6, <1>7, <3>1, <3>2
    <3>4. QED
      BY <1>1, <1>8, <3>1, <3>3 DEF Accounted, Counted
  <2>4. IsFiniteSet(Accounted(d)') /\ Cardinality(Accounted(d)') \in Nat
    <3>1. Accounted(d)' \subseteq sent
      BY <1>1 DEF Accounted, Counted
    <3>2. QED
      BY <3>1, FS_Subset, FS_CardinalityType DEF PingInv
  <2>5. PICK j \in Nat : j = new.devices[d].pings
    BY <1>6 DEF Indexes, Figures
  <2>6. CASE d = p.id
    <3>1. p \in Accounted(d)' /\ p \notin Accounted(d)
      BY <1>1, <1>6, <1>7, <1>8, <2>6 DEF Accounted, Counted
    <3>2. k + 1 <= Cardinality(Accounted(d)')
      BY <2>2, <2>3, <2>4, <3>1, OneMoreCounts
    <3>3. j <= k + 1
      BY <1>6, <2>1, <2>5, <2>6
    <3>4. QED
      BY <2>4, <2>5, <3>2, <3>3
  <2>7. CASE d # p.id
    <3>1. k <= Cardinality(Accounted(d)')
      BY <2>2, <2>3, <2>4, LargerCounts
    <3>2. j <= k
      BY <1>6, <2>1, <2>5, <2>7
    <3>3. QED
      BY <2>4, <2>5, <3>1, <3>2
  <2>8. QED
    BY <2>6, <2>7
<1>11. ASSUME NEW d \in Devices PROVE snapshot'.devices[d].pings <= Cardinality(Counted(d, snapshot.saved_at)')
  <2>1. CASE UNCHANGED snapshot
    BY <1>9, <2>1, SnapshotStays DEF PingInv
  <2>2. CASE snapshot' = [saved_at |-> new.saved_at, devices |-> new.devices]
    <3>1. snapshot'.saved_at = index'.saved_at /\ snapshot'.devices = new.devices
      BY <1>7, <2>2
    <3>2. Counted(d, snapshot.saved_at)' = Accounted(d)'
      BY <1>1, <3>1 DEF Counted, Accounted
    <3>3. QED
      BY <1>10, <3>1, <3>2
  <2>3. QED
    BY <1>7, <2>1, <2>2
<1>12. (server \in {"down", "load"} => index.devices = NoDevices)'
  BY <1>1
<1>13. \A d \in Devices : index'.devices[d].pings <= Cardinality(Accounted(d)')
  BY <1>7, <1>10
<1>14. QED
  BY <1>11, <1>12, <1>13 DEF CountInv

(* The replay counts a line only if it is newer than the snapshot, and     *)
(* passes it then.                                                         *)
LEMMA ReplayCounts ==
    ASSUME CountInv, LinesHold, PingInv, PingInv', ReplayLine PROVE CountInv'
<1> DEFINE line == log[reading.day][reading.line]
<1>1. UNCHANGED <<log, server, sent, ping_worker, snapshot>> /\ server = "replay"
  BY DEF ReplayLine, ping_files
<1>2. \A n : Pinging(n)' <=> Pinging(n)
  BY <1>1 DEF Pinging, OnPing
<1>3. Settling
  BY <1>1, <1>2 DEF Settling, PingInv
<1>4. PICK D \in Days, L \in Nat : D = reading.day /\ L = reading.line /\ L \in DOMAIN log[D]
  BY LineRead DEF PingInv, PingsTypeOK
<1>5. reading' = [day |-> D, line |-> L + 1]
  BY <1>4, LineRead DEF PingInv
<1>6. \A d \in Days, i \in Nat : /\ Passed(d, i) => Passed(d, i)'
                                 /\ Passed(D, L)' /\ ~Passed(D, L)
                                 /\ IsLine(d, i)' <=> IsLine(d, i)
  <2>1. D \in Nat
    BY DaysAreFinite
  <2>2. QED
    BY <1>1, <1>4, <1>5, <2>1 DEF Passed, IsLine
<1>7. ASSUME NEW p \in sent, PassedBy(p) PROVE PassedBy(p)'
  <2>1. DayOf(p.at) \in Days
    BY CountsAreNumbers DEF PingInv
  <2>2. QED
    BY <1>1, <1>6, <1>7, <2>1 DEF PassedBy
<1>8. PICK e : e = log[D][L]
  OBVIOUS
<1>9. \/ UNCHANGED index
      \/ /\ e.is = "line" /\ e.id \in Devices /\ e.at \in Nat
         /\ index' = record(index, e.id, e.at)
  BY <1>4, <1>8, LineRead DEF PingInv
<1>10. UNCHANGED index \/ e.at > snapshot.saved_at
  BY <1>4, <1>8 DEF ReplayLine, Late
<1>11. ASSUME NEW d \in Devices, index'.saved_at >= index.saved_at PROVE Accounted(d) \subseteq Accounted(d)'
  <2> SUFFICES ASSUME NEW q \in Accounted(d) PROVE q \in Accounted(d)'
    OBVIOUS
  <2>1. q \in sent /\ q.id = d /\ q.at <= index.saved_at /\ ~Pinging(q.n) /\ (q.at <= snapshot.saved_at \/ PassedBy(q))
    BY <1>1 DEF Accounted, Counted
  <2>2. q.at \in Nat /\ index.saved_at \in Nat /\ index'.saved_at \in Nat
    BY <2>1, CountsAreNumbers DEF PingInv, PingsTypeOK
  <2>3. q.at <= index'.saved_at
    BY <1>11, <2>1, <2>2
  <2>4. q.at <= snapshot'.saved_at \/ PassedBy(q)'
    BY <1>1, <1>7, <2>1
  <2>5. q \in Counted(d, index.saved_at)'
    BY <1>1, <1>2, <2>1, <2>3 DEF Counted
  <2>6. QED
    BY <2>4, <2>5 DEF Accounted
<1>12. \A d : IsFiniteSet(Accounted(d)') /\ Cardinality(Accounted(d)') \in Nat
  <2>1. \A d : Accounted(d)' \subseteq sent
    BY <1>1 DEF Accounted, Counted
  <2>2. QED
    BY <2>1, FS_Subset, FS_CardinalityType DEF PingInv
<1>13. ASSUME NEW d \in Devices PROVE index'.devices[d].pings <= Cardinality(Accounted(d)')
  <2>1. PICK k \in Nat : k = index.devices[d].pings
    BY CountsAreNumbers DEF PingInv
  <2>2. k <= Cardinality(Accounted(d))
    BY <2>1 DEF CountInv
  <2>3. CASE UNCHANGED index
    <3>1. index'.saved_at >= index.saved_at
      BY <2>3, CountsAreNumbers DEF PingInv
    <3>2. Accounted(d) \subseteq Accounted(d)'
      BY <1>11, <3>1
    <3>3. k <= Cardinality(Accounted(d)')
      BY <1>12, <2>2, <3>2, LargerCounts
    <3>4. QED
      BY <2>1, <2>3, <3>3
  <2>4. CASE ~ UNCHANGED index
    <3>1. e.is = "line" /\ e.id \in Devices /\ e.at \in Nat /\ index' = record(index, e.id, e.at) /\ e.at > snapshot.saved_at
      BY <1>9, <1>10, <2>4
    <3>2. index \in Indexes /\ index.saved_at \in Nat /\ index'.saved_at \in Nat
      BY CountsAreNumbers DEF PingInv, PingsTypeOK
    <3>3. PICK new : new = record(index, e.id, e.at)
      OBVIOUS
    <3>4. /\ new \in Indexes
          /\ new.saved_at >= index.saved_at /\ new.saved_at >= e.at
          /\ new.devices[e.id].pings <= index.devices[e.id].pings + 1
          /\ \A c \in Devices \ {e.id} : new.devices[c].pings <= index.devices[c].pings
      BY <3>1, <3>2, <3>3, RecordIs
    <3>5. Accounted(d) \subseteq Accounted(d)'
      BY <1>11, <3>1, <3>3, <3>4
    <3>6. PICK j \in Nat : j = new.devices[d].pings
      BY <3>4 DEF Indexes, Figures
    <3>7. CASE d = e.id
      <4>1. IsLine(D, L)
        BY <1>4, <1>8, <3>1 DEF IsLine
      <4>2. PICK p \in sent : e = Line(p.n, p.id, p.at) /\ DayOf(p.at) = D
        BY <1>8, <4>1 DEF LinesHold, LinesInv
      <4>3. p.n = e.n /\ p.id = e.id /\ p.at = e.at
        BY <4>2 DEF Line
      <4>4. ~PassedBy(p)
        <5> SUFFICES ASSUME NEW i \in Nat, IsLine(D, i), log[D][i].n = e.n, Passed(D, i) PROVE FALSE
          BY <4>2, <4>3 DEF PassedBy
        <5>1. i = L
          BY <1>8, <4>1 DEF LinesHold, LinesInv
        <5>2. QED
          BY <1>6, <5>1
      <4>5. PassedBy(p)'
        BY <1>1, <1>6, <1>8, <4>1, <4>2, <4>3 DEF PassedBy
      <4>6. ~Pinging(p.n)'
        BY <1>1, <1>2, HandsAre DEF Pinging, LinesHold, HandsInv
      <4>7. p.at <= index'.saved_at
        BY <3>1, <3>2, <3>3, <3>4, <4>3
      <4>8. p \in Accounted(d)'
        BY <1>1, <3>7, <4>3, <4>5, <4>6, <4>7 DEF Accounted, Counted
      <4>9. p \notin Accounted(d)
        <5>1. ~(p.at <= snapshot.saved_at)
          BY <3>1, <4>3, CountsAreNumbers DEF PingInv
        <5>2. QED
          BY <1>1, <4>4, <5>1 DEF Accounted
      <4>10. k + 1 <= Cardinality(Accounted(d)')
        BY <1>12, <2>2, <3>5, <4>8, <4>9, OneMoreCounts
      <4>11. j <= k + 1
        BY <2>1, <3>4, <3>6, <3>7
      <4>12. QED
        BY <1>12, <3>1, <3>3, <3>6, <4>10, <4>11
    <3>8. CASE d # e.id
      <4>1. k <= Cardinality(Accounted(d)')
        BY <1>12, <2>2, <3>5, LargerCounts
      <4>2. j <= k
        BY <2>1, <3>4, <3>6, <3>8
      <4>3. QED
        BY <1>12, <3>1, <3>3, <3>6, <4>1, <4>2
    <3>9. QED
      BY <3>7, <3>8
  <2>5. QED
    BY <2>3, <2>4
<1>14. \A d \in Devices : snapshot'.devices[d].pings <= Cardinality(Counted(d, snapshot.saved_at)')
  BY <1>1, <1>3, SnapshotStays DEF PingInv
<1>15. QED
  BY <1>1, <1>13, <1>14 DEF CountInv

LEMMA LoadCounts ==
    ASSUME CountInv, PingInv, PingInv', Load \/ ReplayDay \/ Replayed \/ ServerCrash, Settling
    PROVE  CountInv'
<1>1. UNCHANGED <<snapshot, sent>>
  BY DEF Load, ReplayDay, Replayed, ServerCrash, ping_files
<1>2. \A d \in Devices : snapshot'.devices[d].pings <= Cardinality(Counted(d, snapshot.saved_at)')
  BY <1>1, SnapshotStays DEF PingInv
<1>3. \A d : IsFiniteSet(Accounted(d)') /\ Cardinality(Accounted(d)') \in Nat
  <2>1. \A d : Accounted(d)' \subseteq sent
    BY <1>1 DEF Accounted, Counted
  <2>2. QED
    BY <2>1, FS_Subset, FS_CardinalityType DEF PingInv
<1>4. CASE ServerCrash
  <2>1. index'.devices = NoDevices /\ server' = "down"
    BY <1>4 DEF ServerCrash
  <2>2. \A d \in Devices : index'.devices[d].pings = 0
    BY <2>1, UnknownIs DEF NoDevices
  <2>3. \A d \in Devices : index'.devices[d].pings <= Cardinality(Accounted(d)')
    BY <1>3, <2>2
  <2>4. QED
    BY <1>2, <2>1, <2>3 DEF CountInv
<1>5. CASE Load
  <2>1. index'.devices = snapshot.devices /\ index'.saved_at = snapshot.saved_at /\ server' = "replay"
    BY <1>5 DEF Load
  <2>2. \A d : Accounted(d)' = Counted(d, snapshot.saved_at)'
    BY <1>1, <2>1 DEF Accounted, Counted
  <2>3. QED
    BY <1>1, <1>2, <2>1, <2>2 DEF CountInv
<1>6. CASE ReplayDay \/ Replayed
  <2>1. /\ UNCHANGED <<index, log, ping_worker>> /\ server = "replay" /\ server' \in {"replay", "rollup"}
    BY <1>6 DEF ReplayDay, Replayed, ping_files
  <2>2. ASSUME NEW d \in Devices PROVE Accounted(d) \subseteq Accounted(d)'
    <3> SUFFICES ASSUME NEW q \in Accounted(d) PROVE q \in Accounted(d)'
      OBVIOUS
    <3>1. q \in sent /\ q.id = d /\ q.at <= index.saved_at /\ ~Pinging(q.n) /\ (q.at <= snapshot.saved_at \/ PassedBy(q))
      BY <2>1 DEF Accounted, Counted
    <3>2. q \in Counted(d, index.saved_at)'
      BY <1>1, <2>1, <3>1 DEF Counted, Settling
    <3>3. CASE server' = "replay"
      <4>1. reading' = [day |-> reading.day + 1, line |-> 1]
        BY <1>6, <2>1, <3>3 DEF ReplayDay, Replayed
      <4>2. reading.day \in Nat /\ DayOf(q.at) \in Nat
        BY <3>1, CountsAreNumbers, DaysAreFinite DEF PingInv, PingsTypeOK
      <4>3. \A i \in Nat : Passed(DayOf(q.at), i) => Passed(DayOf(q.at), i)'
        <5>1. \A D, i \in Nat : Passed(D, i) => Passed(D, i)'
          BY <4>1, <4>2 DEF Passed
        <5>2. PICK D \in Nat : D = DayOf(q.at)
          BY <4>2
        <5>3. \A i \in Nat : Passed(D, i) => Passed(D, i)'
          BY <5>1
        <5>4. QED
          BY <5>2, <5>3
      <4>4. PassedBy(q) => PassedBy(q)'
        BY <2>1, <4>3 DEF PassedBy, IsLine
      <4>5. QED
        BY <1>1, <3>1, <3>2, <4>4 DEF Accounted
    <3>4. CASE server' = "rollup"
      BY <3>2, <3>4 DEF Accounted
    <3>5. QED
      BY <2>1, <3>3, <3>4
  <2>3. ASSUME NEW d \in Devices PROVE index'.devices[d].pings <= Cardinality(Accounted(d)')
    <3>1. PICK k \in Nat : k = index.devices[d].pings
      BY CountsAreNumbers DEF PingInv
    <3>2. k <= Cardinality(Accounted(d))
      BY <3>1 DEF CountInv
    <3>3. k <= Cardinality(Accounted(d)')
      BY <1>3, <2>2, <3>2, LargerCounts
    <3>4. QED
      BY <2>1, <3>1, <3>3
  <2>4. QED
    BY <1>2, <2>1, <2>3 DEF CountInv
<1>7. QED
  BY <1>4, <1>5, <1>6

(* A ping is its worker's until it is recorded or dropped, and comes to    *)
(* one only as a new one.                                                  *)
LEMMA PingsSettle == ASSUME LinesHold, PingInv, PingInv', [PingsNext]_ping_vars PROVE Settling
<1>1. ping_worker \in [PingWorkers -> Requests] /\ IsFiniteSet(sent')
  BY DEF PingInv, PingsTypeOK
<1>2. ASSUME UNCHANGED sent, \A w \in PingWorkers : OnPing(w)' => OnPing(w) /\ ping_worker'[w].n = ping_worker[w].n
      PROVE  Settling
  BY <1>1, <1>2 DEF Settling, Pinging
<1>3. ASSUME NEW w \in PingWorkers, NEW d \in Devices, Ping(w, d) PROVE Settling
  <2>1. PICK c \in Nat : c = Cardinality(sent)
    BY FS_CardinalityType DEF PingInv
  <2>2. PICK r : r = [pc |-> "line", n |-> c + 1, id |-> d, at |-> ping_now]
    OBVIOUS
  <2>3. sent \subseteq sent' /\ ping_worker' = [ping_worker EXCEPT ![w] = r]
    BY <1>3, <2>1, <2>2 DEF Ping
  <2>4. ping_worker'[w] = r /\ \A v \in PingWorkers : v # w => ping_worker'[v] = ping_worker[v]
    BY <1>1, <2>3
  <2>5. \A p \in sent : p.n \in Nat /\ p.n <= c
    BY <2>1, PingNumbers DEF PingInv, PingsTypeOK, LinesHold, NumbersInv
  <2>6. \A p \in sent : p.n # r.n
    BY <2>2, <2>5
  <2>7. QED
    BY <1>1, <2>3, <2>4, <2>6 DEF Settling, Pinging, OnPing
<1>4. ASSUME NEW w \in PingWorkers, WriteLine(w) \/ WriteEnd(w) PROVE Settling
  <2>1. OnPing(w) /\ UNCHANGED <<sent, answered, server>>
    BY <1>4 DEF WriteLine, WriteEnd, OnPing
  <2>2. \/ ping_worker' = [ping_worker EXCEPT ![w] = NoRequest]
        \/ \E pc \in {"line", "end", "record"} : ping_worker' = [ping_worker EXCEPT ![w].pc = pc]
    BY <1>4 DEF WriteLine, WriteEnd
  <2>3. CASE ping_worker' = [ping_worker EXCEPT ![w] = NoRequest]
    BY <1>1, <1>2, <2>1, <2>3, Drop DEF OnPing
  <2>4. ASSUME NEW pc \in {"line", "end", "record"}, ping_worker' = [ping_worker EXCEPT ![w].pc = pc] PROVE Settling
    BY <1>2, <2>1, <2>4, HandsStay
  <2>5. QED
    BY <2>2, <2>3, <2>4
<1>5. ASSUME NEW w \in PingWorkers, Record(w) \/ MaintainPrune(w) PROVE Settling
  BY <1>1, <1>2, <1>5, Drop DEF Record, MaintainPrune, OnPing
<1>6. ASSUME NEW w \in PingWorkers, MaintainBegin(w) PROVE Settling
  BY <1>1, <1>2, <1>6 DEF MaintainBegin, OnPing
<1>7. ASSUME NEW w \in PingWorkers, MaintainFlush(w) \/ MaintainRollup(w) PROVE Settling
  <2>1. ping_worker[w].pc \in {"flush", "rollup"} /\ UNCHANGED sent /\ ping_worker[w] \in Requests
    BY <1>1, <1>7 DEF MaintainFlush, MaintainRollup
  <2>2. \E pc \in {"rollup", "prune"} : ping_worker' = [ping_worker EXCEPT ![w].pc = pc]
    BY <1>7 DEF MaintainFlush, MaintainRollup
  <2>3. \A pc \in {"rollup", "prune"} : [ping_worker[w] EXCEPT !.pc = pc].pc = pc
    BY <2>1, RequestIs
  <2>4. ~OnPing(w)' /\ \A v \in PingWorkers : v # w => ping_worker'[v] = ping_worker[v]
    BY <1>1, <2>2, <2>3 DEF OnPing
  <2>5. QED
    BY <1>2, <2>1, <2>4 DEF OnPing
<1>8. CASE ServerCrash
  BY <1>2, <1>8, Drop DEF ServerCrash, OnPing
<1>9. CASE Start \/ Load \/ ReplayLine \/ ReplayDay \/ Replayed \/ StartRollup \/ StartFlush \/ PingTick \/ UNCHANGED ping_vars
  <2>1. UNCHANGED <<sent, ping_worker>>
    BY <1>9 DEF Start, Load, ReplayLine, ReplayDay, Replayed, StartRollup, StartFlush, PingTick, ping_vars
  <2>2. QED
    BY <1>2, <2>1 DEF OnPing
<1>10. QED
  BY <1>3, <1>4, <1>5, <1>6, <1>7, <1>8, <1>9 DEF PingsNext, PingStep

LEMMA CountStep == CountInv /\ LinesHold /\ PingInv /\ PingInv' /\ [PingsNext]_ping_vars => CountInv'
<1> SUFFICES ASSUME CountInv, LinesHold, PingInv, PingInv', [PingsNext]_ping_vars PROVE CountInv'
  OBVIOUS
<1>1. Settling
  BY PingsSettle
<1>2. PingsTypeOK /\ PingsTypeOK'
  BY DEF PingInv
<1>3. ASSUME UNCHANGED <<index, snapshot, server>>, server # "replay" PROVE CountInv'
  BY <1>1, <1>2, <1>3, NoCountKeeps
<1>4. ASSUME NEW w \in PingWorkers, NEW d \in Devices, Ping(w, d) PROVE CountInv'
  BY <1>3, <1>4 DEF Ping, ping_files
<1>5. ASSUME NEW w \in PingWorkers,
             WriteLine(w) \/ WriteEnd(w) \/ MaintainBegin(w) \/ MaintainRollup(w) \/ MaintainPrune(w)
      PROVE  CountInv'
  <2>1. UNCHANGED <<index, snapshot, server>>
    BY <1>5 DEF WriteLine, WriteEnd, MaintainBegin, MaintainRollup, MaintainPrune, ping_files
  <2>2. server = "up"
    BY <1>5 DEF WriteLine, WriteEnd, MaintainBegin, MaintainRollup, MaintainPrune, LinesHold, HandsInv
  <2>3. QED
    BY <1>3, <2>1, <2>2
<1>6. ASSUME NEW w \in PingWorkers, MaintainFlush(w) PROVE CountInv'
  <2>1. Saved /\ UNCHANGED server /\ server = "up"
    BY <1>6 DEF MaintainFlush, LinesHold, HandsInv
  <2>2. QED
    BY <1>1, <1>2, <2>1, SavedTypes, NoCountKeeps
<1>7. CASE StartFlush
  <2>1. Saved /\ server = "flush" /\ server' = "up"
    BY <1>7 DEF StartFlush
  <2>2. QED
    BY <1>1, <1>2, <2>1, SavedTypes, NoCountKeeps
<1>8. CASE Start \/ StartRollup \/ PingTick
  <2>1. UNCHANGED <<index, snapshot>> /\ server # "replay" /\ server' # "replay"
        /\ (server' \in {"down", "load"} => server \in {"down", "load"})
    BY <1>8 DEF Start, StartRollup, PingTick, ping_files
  <2>2. QED
    BY <1>1, <1>2, <2>1, NoCountKeeps
<1>9. CASE UNCHANGED ping_vars
  BY <1>9 DEF ping_vars, ping_files, CountInv, Counted, Accounted, Pinging, OnPing, PassedBy, IsLine, Passed
<1>10. QED
  BY <1>1, <1>4, <1>5, <1>6, <1>7, <1>8, <1>9, RecordCounts, ReplayCounts, LoadCounts DEF PingsNext, PingStep, PingInv

LEMMA CountsStart == PingsInit => CountInv
<1> SUFFICES ASSUME PingsInit PROVE CountInv
  OBVIOUS
<1>1. IsFiniteSet(sent)
  BY FS_EmptySet DEF PingsInit
<1>2. snapshot.devices = NoDevices /\ index.devices = NoDevices /\ \A d \in Devices : NoDevices[d].pings = 0
  BY UnknownIs DEF PingsInit, NoDevices
<1>3. \A d : Cardinality(Counted(d, snapshot.saved_at)) \in Nat /\ Cardinality(Accounted(d)) \in Nat
  BY <1>1, CountedIs, AccountedIs
<1>4. QED
  BY <1>2, <1>3 DEF CountInv

LEMMA PingsInvariant == PingsSpec => [](PingInv /\ LinesHold /\ CountInv)
<1>1. PingInv /\ LinesHold /\ CountInv /\ [PingsNext]_ping_vars => (PingInv /\ LinesHold /\ CountInv)'
  BY PingInvStep, LinesStep, CountStep
<1>2. QED
  BY <1>1, PingsStart, LinesStart, CountsStart, PTL DEF PingsSpec

(* No ping counts twice: what a device's count stands for are its pings.   *)
LEMMA NoneTwice == PingInv /\ CountInv => NeverCountedTwice
<1> SUFFICES ASSUME PingInv, CountInv, NEW d \in Devices
             PROVE  index.devices[d].pings <= Cardinality({p \in sent : p.id = d})
  BY DEF NeverCountedTwice
<1>1. PICK k \in Nat : k = index.devices[d].pings
  BY CountsAreNumbers DEF PingInv
<1>2. PICK all : all = {p \in sent : p.id = d}
  OBVIOUS
<1>3. Accounted(d) \subseteq all /\ all \subseteq sent
  BY <1>2 DEF Accounted, Counted
<1>4. IsFiniteSet(all)
  BY <1>3, FS_Subset DEF PingInv
<1>5. k <= Cardinality(all)
  BY <1>1, <1>3, <1>4, LargerCounts DEF CountInv
<1>6. QED
  BY <1>1, <1>2, <1>5

(* The pings whose line cannot be read although nothing mixed it up: what  *)
(* stands before it is a line cut short, or one that was mixed.            *)
Lost ==
    {p \in sent : /\ p.n \in answered \ mixed /\ log[DayOf(p.at)] # <<>>
                  /\ Line(p.n, p.id, p.at) \notin Readable(log[DayOf(p.at)])}

LEMMA BeforeLost ==
    ASSUME PingInv, LinesHold, NEW p \in Lost, NEW D \in Days, D = DayOf(p.at)
    PROVE  \E i \in Nat : /\ IsLine(D, i + 1) /\ log[D][i + 1] = Line(p.n, p.id, p.at)
                          /\ i \in DOMAIN log[D]
                          /\ log[D][i] = Torn \/ (IsLine(D, i) /\ log[D][i].n \in mixed)
<1>1. p \in sent /\ p.n \in answered /\ p.n \notin mixed /\ log[D] # <<>> /\ Line(p.n, p.id, p.at) \notin Readable(log[D])
  BY DEF Lost
<1>2. PICK j \in DOMAIN log[D] : log[D][j] = Line(p.n, p.id, p.at)
  BY <1>1 DEF LinesHold, KeptInv, Past, Gone, Found
<1>3. PICK text \in Seq(LogEntries) : text = log[D]
  BY DEF PingInv, PingsTypeOK
<1>4. PICK k \in Nat : k = Len(text) /\ DOMAIN text = 1..k /\ \A i \in 1..k : text[i] \in LogEntries
  BY <1>3
<1>5. j \in 1..k /\ j \in Nat /\ text[j] = Line(p.n, p.id, p.at) /\ text[j].is = "line" /\ text[j].n = p.n
  BY <1>2, <1>3, <1>4 DEF Line
<1>6. IsLine(D, j)
  BY <1>3, <1>4, <1>5 DEF IsLine
<1>7. j = Len(text) \/ text[j + 1] = NL
  BY <1>1, <1>3, <1>5, <1>6 DEF LinesHold, FollowedInv
<1>8. ~Whole(text, j)
  BY <1>1, <1>2, <1>3 DEF Readable
<1>9. j # 1 /\ text[j - 1] # NL
  BY <1>5, <1>7, <1>8 DEF Whole
<1>10. PICK i \in Nat : j = i + 1 /\ i \in 1..k
  BY <1>4, <1>5, <1>9
<1>11. text[i] \in LogEntries /\ text[i] # NL
  BY <1>4, <1>9, <1>10
<1>12. CASE text[i] = Torn
  BY <1>3, <1>4, <1>5, <1>6, <1>10, <1>12
<1>13. CASE text[i].is = "line"
  <2>1. IsLine(D, i)
    BY <1>3, <1>4, <1>10, <1>13 DEF IsLine
  <2>2. text[i + 1] # NL
    BY <1>5, <1>10 DEF NL
  <2>3. i # k
    BY <1>4, <1>5, <1>10
  <2>4. log[D][i].n \in mixed
    BY <1>3, <1>4, <2>1, <2>2, <2>3 DEF LinesHold, FollowedInv
  <2>5. QED
    BY <1>3, <1>4, <1>5, <1>6, <1>10, <2>1, <2>4
<1>14. QED
  BY <1>11, <1>12, <1>13 DEF LogEntries

LEMMA AtMostAsMany ==
    ASSUME NEW S, NEW T, IsFiniteSet(T), NEW f \in [S -> T], \A x, y \in S : f[x] = f[y] => x = y
    PROVE  IsFiniteSet(S) /\ Cardinality(S) <= Cardinality(T)
<1>1. f \in Injection(S, T)
  BY DEF Injection, IsInjective
<1>2. QED
  BY <1>1, FS_Injection

(* A line that was torn, or one that was mixed, hides one ping's at most.  *)
LEMMA EachHidesOne == ASSUME PingInv, LinesHold PROVE OnlyMixedLinesAreLost
<1> DEFINE Place(p) == CHOOSE i \in Nat :
               /\ IsLine(DayOf(p.at), i + 1) /\ log[DayOf(p.at)][i + 1] = Line(p.n, p.id, p.at)
               /\ i \in DOMAIN log[DayOf(p.at)]
               /\ log[DayOf(p.at)][i] = Torn \/ (IsLine(DayOf(p.at), i) /\ log[DayOf(p.at)][i].n \in mixed)
           Glued == {p \in Lost : log[DayOf(p.at)][Place(p)] = Torn}
           Broken == Lost \ Glued
           f == [p \in Glued |-> <<DayOf(p.at), Place(p)>>]
           g == [p \in Broken |-> log[DayOf(p.at)][Place(p)].n]
<1>1. ASSUME NEW p \in Lost
      PROVE  /\ p \in sent /\ DayOf(p.at) \in Days /\ Place(p) \in Nat /\ Place(p) \in DOMAIN log[DayOf(p.at)]
             /\ log[DayOf(p.at)][Place(p) + 1] = Line(p.n, p.id, p.at)
             /\ \/ log[DayOf(p.at)][Place(p)] = Torn
                \/ IsLine(DayOf(p.at), Place(p)) /\ log[DayOf(p.at)][Place(p)].n \in mixed
  <2>1. p \in sent
    BY DEF Lost
  <2>2. DayOf(p.at) \in Days
    BY <2>1, CountsAreNumbers DEF PingInv
  <2>3. \E i \in Nat : /\ IsLine(DayOf(p.at), i + 1) /\ log[DayOf(p.at)][i + 1] = Line(p.n, p.id, p.at)
                       /\ i \in DOMAIN log[DayOf(p.at)]
                       /\ log[DayOf(p.at)][i] = Torn \/ (IsLine(DayOf(p.at), i) /\ log[DayOf(p.at)][i].n \in mixed)
    BY <2>2, BeforeLost
  <2>4. QED
    BY <2>1, <2>2, <2>3
<1> HIDE DEF Place
<1>2. \A p, q \in Lost : DayOf(p.at) = DayOf(q.at) /\ Place(p) = Place(q) => p = q
  <2> SUFFICES ASSUME NEW p \in Lost, NEW q \in Lost, DayOf(p.at) = DayOf(q.at), Place(p) = Place(q) PROVE p = q
    OBVIOUS
  <2>1. Line(p.n, p.id, p.at) = Line(q.n, q.id, q.at)
    BY <1>1
  <2>2. p.n = q.n
    BY <2>1 DEF Line
  <2>3. QED
    BY <1>1, <2>2 DEF LinesHold, NumbersInv
<1>3. IsFiniteSet(Glued) /\ Cardinality(Glued) <= torn
  <2>1. f \in [Glued -> TornPlaces]
    <3> SUFFICES ASSUME NEW p \in Glued PROVE <<DayOf(p.at), Place(p)>> \in TornPlaces
      OBVIOUS
    <3>1. QED
      BY <1>1 DEF TornPlaces
  <2>2. \A p, q \in Glued : f[p] = f[q] => p = q
    <3> SUFFICES ASSUME NEW p \in Glued, NEW q \in Glued, f[p] = f[q] PROVE p = q
      OBVIOUS
    <3>1. DayOf(p.at) = DayOf(q.at) /\ Place(p) = Place(q)
      OBVIOUS
    <3>2. QED
      BY <1>2, <3>1
  <2> HIDE DEF f, Glued
  <2>3. IsFiniteSet(Glued) /\ Cardinality(Glued) <= Cardinality(TornPlaces)
    BY <2>1, <2>2, AtMostAsMany DEF LinesHold, TornInv
  <2>4. Cardinality(Glued) \in Nat /\ Cardinality(TornPlaces) \in Nat /\ torn \in Nat
    BY <2>3, FS_CardinalityType DEF LinesHold, TornInv, PingInv, PingsTypeOK
  <2>5. QED
    BY <2>3, <2>4 DEF LinesHold, TornInv
<1>4. IsFiniteSet(mixed) /\ Cardinality(mixed) \in Nat
  <2>1. mixed \subseteq 1..MaxPings /\ IsFiniteSet(1..MaxPings)
    <3>1. IsFiniteSet(1..MaxPings)
      BY PingNumbers, FS_Interval
    <3>2. QED
      BY <3>1 DEF PingInv, PingsTypeOK
  <2>2. QED
    BY <2>1, FS_Subset, FS_CardinalityType
<1>5. IsFiniteSet(Broken) /\ Cardinality(Broken) <= Cardinality(mixed)
  <2>1. \A p \in Broken : IsLine(DayOf(p.at), Place(p)) /\ log[DayOf(p.at)][Place(p)].n \in mixed
    BY <1>1
  <2>2. g \in [Broken -> mixed]
    BY <2>1
  <2>3. \A p, q \in Broken : g[p] = g[q] => p = q
    <3> SUFFICES ASSUME NEW p \in Broken, NEW q \in Broken, g[p] = g[q] PROVE p = q
      OBVIOUS
    <3>1. log[DayOf(p.at)][Place(p)].n = log[DayOf(q.at)][Place(q)].n
      OBVIOUS
    <3>2. PICK c \in Days, d \in Days, i \in Nat, j \in Nat :
              c = DayOf(p.at) /\ d = DayOf(q.at) /\ i = Place(p) /\ j = Place(q)
      BY <1>1
    <3>3. IsLine(c, i) /\ IsLine(d, j) /\ log[c][i].n = log[d][j].n
      BY <2>1, <3>1, <3>2
    <3>4. PICK a \in sent : log[c][i] = Line(a.n, a.id, a.at) /\ DayOf(a.at) = c
      BY <3>3 DEF LinesHold, LinesInv
    <3>5. PICK b \in sent : log[d][j] = Line(b.n, b.id, b.at) /\ DayOf(b.at) = d
      BY <3>3 DEF LinesHold, LinesInv
    <3>6. a = b
      <4>1. a.n = b.n
        BY <3>3, <3>4, <3>5 DEF Line
      <4>2. QED
        BY <4>1 DEF LinesHold, NumbersInv
    <3>7. c = d
      BY <3>4, <3>5, <3>6
    <3>8. i = j
      BY <3>3, <3>7 DEF LinesHold, LinesInv
    <3>9. QED
      BY <1>2, <3>2, <3>7, <3>8
  <2> HIDE DEF g, Broken
  <2>4. QED
    BY <1>4, <2>2, <2>3, AtMostAsMany
<1>6. Cardinality(Lost) <= torn + Cardinality(mixed)
  <2> HIDE DEF Glued, Broken
  <2>1. Lost = Glued \cup Broken
    BY DEF Glued, Broken
  <2>2. Cardinality(Glued \cup Broken) = Cardinality(Glued) + Cardinality(Broken) - Cardinality(Glued \cap Broken)
    BY <1>3, <1>5, FS_Union
  <2>3. IsFiniteSet(Glued \cap Broken)
    BY <1>3, FS_Subset
  <2>4. /\ Cardinality(Glued) \in Nat /\ Cardinality(Broken) \in Nat /\ Cardinality(Glued \cap Broken) \in Nat
        /\ torn \in Nat
    BY <1>3, <1>5, <2>3, FS_CardinalityType DEF PingInv, PingsTypeOK
  <2>5. QED
    BY <1>3, <1>4, <1>5, <2>1, <2>2, <2>4
<1>7. QED
  BY <1>6 DEF OnlyMixedLinesAreLost, Lost

(* What is counted and summed up is so once: an ended day has at most one  *)
(* row that can be read, whatever a crash cut short (rollup and            *)
(* written_dates of daily.rs); no ping counts twice for its device, in     *)
(* whatever order threads enter theirs and whatever a restart replays      *)
(* (record and replay of index.rs); and one that was answered can be read  *)
(* in its log, unless another line got between its two writes or one that  *)
(* a crash cut short stands before it (store_ping).                        *)
THEOREM PingsCountOnce == PingsSpec => []CountedOnce
<1>1. PingInv /\ LinesHold /\ CountInv => CountedOnce
  BY OneRowADay, NoneTwice, EachHidesOne DEF CountedOnce, PingInv
<1>2. QED
  BY <1>1, PingsInvariant, PTL
=============================================================================
