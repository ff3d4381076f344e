--------------------------- MODULE Desktop_proofs ---------------------------
(***************************************************************************)
(* Proofs about the files the desktop side shares: feedback on its way,    *)
(* for any number of editors, messages, faults and lost replies, and any   *)
(* limits (module Outbox); what the plugin remembers of the pending        *)
(* directory, for any number of versions, however the updater writes and   *)
(* the plugin reads (module PendingView); and the settings file, for any   *)
(* number of instances, clocks, intervals, crashes and clicks (UiFile);    *)
(* and what the About tab says of checks and reports, for any patience and *)
(* any number of clicks (About).                                           *)
(***************************************************************************)
EXTENDS Outbox, PendingView, UiFile, About, FiniteSetTheorems, TLAPS

-----------------------------------------------------------------------------
(* Feedback on its way                                                     *)

(* An editor that is about to save has a message nobody has seen.          *)
NewWhileSaving ==
    /\ \A e \in Editors : Busy(e) => editor[e].msg \in Msgs \ accepted
    /\ \A d, e \in Editors : d # e /\ Busy(d) /\ Busy(e) => editor[d].msg # editor[e].msg
    /\ \A m \in Msgs \ accepted : outbox[m] = NoFile /\ posts[m] = 0 /\ tickets[m] = 0

UnderWay(m) == sender.pc \in {"save", "remove"} /\ sender.msg = m

(* What the sender has in hand is still in the outbox, with the count it   *)
(* was read with, and goes where the answer says.                          *)
SenderRight ==
    /\ sender.todo \subseteq Queued
    /\ sender.pc \in {"post", "save", "remove"} =>
          /\ sender.msg \in Queued /\ sender.msg \notin sender.todo
          /\ sender.attempts = outbox[sender.msg] + 1
    /\ sender.pc \in {"save", "remove"} =>
          LET m == sender.msg IN
          /\ sender.attempts <= posts[m] /\ posts[m] <= sender.attempts + faults
          /\ sender.dest = "sent" => Stored(m) /\ tickets[m] <= 1 + lost + faults
          /\ sender.dest = "failed" => GivenUp(m)
          /\ sender.dest = "outbox" => sender.attempts < MAX_ATTEMPTS /\ sender.pc = "save"
          /\ sender.dest # "sent" => tickets[m] <= lost + faults

(* The count in a file lags behind the posts by the faults, and a message  *)
(* that waits has no ticket but by a lost reply or a fault.                *)
WaitingCounted ==
    \A m \in Queued : ~UnderWay(m) =>
        outbox[m] <= posts[m] /\ posts[m] <= outbox[m] + faults /\ tickets[m] <= lost + faults

OutInv == TypeOK /\ NewWhileSaving /\ SenderRight /\ WaitingCounted
          /\ NothingLost /\ VerdictsAreTrue /\ RepeatsBounded

LEMMA OutInit == Init => OutInv
BY OutboxAssumption
   DEF Init, OutInv, TypeOK, NewWhileSaving, SenderRight, WaitingCounted, NothingLost, VerdictsAreTrue,
       RepeatsBounded, Off, Busy, Queued, UnderWay, NoFile, Stored, GivenUp

-----------------------------------------------------------------------------
(* The editor.                                                             *)

LEMMA QueueKeeps == ASSUME OutInv, NEW e \in Editors, NEW m \in Msgs, queue_feedback(e, m) PROVE OutInv'
<1> USE OutboxAssumption DEF OutInv, queue_feedback, dirs, world_vars
<1>1. TypeOK'
  BY DEF TypeOK
<1>2. NewWhileSaving'
  BY DEF NewWhileSaving, TypeOK, Busy, Fresh
<1>3. SenderRight' /\ WaitingCounted' /\ NothingLost' /\ VerdictsAreTrue' /\ RepeatsBounded'
  BY DEF SenderRight, WaitingCounted, NothingLost, VerdictsAreTrue, RepeatsBounded, Queued, UnderWay, Stored, GivenUp
<1>4. QED
  BY <1>1, <1>2, <1>3

LEMMA SaveItemKeeps == ASSUME OutInv, NEW e \in Editors, save_item(e) PROVE OutInv'
<1> USE OutboxAssumption DEF OutInv, save_item, world_vars
<1> DEFINE m == editor[e].msg
<1>1. m \in Msgs /\ m \notin accepted /\ outbox[m] = NoFile /\ posts[m] = 0 /\ tickets[m] = 0
  BY DEF NewWhileSaving
<1>2. TypeOK'
  BY <1>1 DEF TypeOK
<1>3. NewWhileSaving'
  BY <1>1 DEF NewWhileSaving, TypeOK, Busy
<1>4. \A n \in Msgs : n # m => outbox'[n] = outbox[n]
  BY DEF TypeOK
<1>5. SenderRight'
  BY <1>1, <1>4 DEF SenderRight, Queued, Stored, GivenUp, TypeOK, NoFile
<1>6. WaitingCounted'
  BY <1>1, <1>4 DEF WaitingCounted, Queued, UnderWay, TypeOK, NoFile
<1>7. NothingLost' /\ VerdictsAreTrue' /\ RepeatsBounded'
  BY <1>1, <1>4 DEF NothingLost, VerdictsAreTrue, RepeatsBounded, Queued, Stored, GivenUp, TypeOK, NoFile
<1>8. QED
  BY <1>2, <1>3, <1>5, <1>6, <1>7

LEMMA PollSendKeeps == ASSUME OutInv, NEW e \in Editors, poll_send(e) PROVE OutInv'
<1> USE OutboxAssumption DEF OutInv, poll_send, dirs, world_vars
<1>1. TypeOK'
  BY DEF TypeOK
<1>2. NewWhileSaving'
  BY DEF NewWhileSaving, TypeOK, Busy
<1>3. SenderRight' /\ WaitingCounted' /\ NothingLost' /\ RepeatsBounded'
  BY DEF SenderRight, WaitingCounted, NothingLost, RepeatsBounded, Queued, UnderWay, Stored, GivenUp
<1>4. VerdictsAreTrue'
  BY DEF VerdictsAreTrue, TypeOK, Stored, GivenUp
<1>5. QED
  BY <1>1, <1>2, <1>3, <1>4

-----------------------------------------------------------------------------
(* The sender.                                                             *)

SenderType == [pc : {"off", "next", "post", "save", "remove"}, todo : SUBSET Msgs, msg : Msgs \cup {NoMsg},
               attempts : 0 .. MAX_ATTEMPTS, dest : {"outbox", "sent", "failed"}]

LEMMA StartKeeps == ASSUME OutInv, StartSender PROVE OutInv'
<1> USE OutboxAssumption DEF OutInv, StartSender, Off, world_vars
<1>1. sent' \subseteq sent /\ failed' \subseteq failed
  BY DEF Capped
<1>2. TypeOK'
  <2>1. sent' \subseteq Msgs /\ failed' \subseteq Msgs /\ Queued \subseteq Msgs
    BY <1>1 DEF TypeOK, Queued
  <2>2. sender' = [pc |-> "next", todo |-> Queued, msg |-> NoMsg, attempts |-> 0, dest |-> "outbox"]
    OBVIOUS
  <2>3. sender' \in SenderType
    BY <2>1, <2>2 DEF SenderType
  <2>4. QED
    BY <2>1, <2>3 DEF TypeOK, SenderType
<1>3. NewWhileSaving' /\ SenderRight' /\ WaitingCounted'
  BY DEF NewWhileSaving, SenderRight, WaitingCounted, Queued, UnderWay, Busy
<1>4. NothingLost' /\ VerdictsAreTrue' /\ RepeatsBounded'
  BY <1>1 DEF NothingLost, VerdictsAreTrue, RepeatsBounded, Queued, Stored, GivenUp
<1>5. QED
  BY <1>2, <1>3, <1>4

LEMMA TakeKeeps == ASSUME OutInv, NEW m \in Msgs, Take(m) PROVE OutInv'
<1> USE OutboxAssumption DEF OutInv, Take, dirs, world_vars
<1>1. m \in Queued /\ outbox[m] \in 0 .. (MAX_ATTEMPTS - 1)
  BY DEF SenderRight, Queued, TypeOK, NoFile
<1>2. TypeOK'
  <2>1. sender \in SenderType
    BY DEF TypeOK, SenderType
  <2>2. outbox[m] + 1 \in 0 .. MAX_ATTEMPTS
    BY <1>1
  <2>3. sender' \in SenderType
    BY <2>1, <2>2 DEF SenderType
  <2>4. QED
    BY <2>3 DEF TypeOK, SenderType
<1>3. SenderRight'
  BY <1>1 DEF SenderRight, Queued, TypeOK
<1>4. NewWhileSaving' /\ WaitingCounted' /\ NothingLost' /\ VerdictsAreTrue' /\ RepeatsBounded'
  BY DEF NewWhileSaving, WaitingCounted, NothingLost, VerdictsAreTrue, RepeatsBounded, Queued, UnderWay,
         Stored, GivenUp, Busy, TypeOK
<1>5. QED
  BY <1>2, <1>3, <1>4

(* An answer of any kind is counted, and decides where the message goes.   *)
LEMMA PostKeeps == ASSUME OutInv, Post PROVE OutInv'
<1> USE OutboxAssumption DEF OutInv
<1> DEFINE m == sender.msg
<1>1. /\ m \in Msgs /\ m \in Queued /\ outbox[m] \in 0 .. (MAX_ATTEMPTS - 1) /\ m \in accepted
      /\ sender.attempts = outbox[m] + 1 /\ posts[m] \in Nat /\ tickets[m] \in Nat
      /\ outbox[m] <= posts[m] /\ posts[m] <= outbox[m] + faults /\ tickets[m] <= lost + faults
      /\ faults \in 0 .. MaxFaults /\ lost \in 0 .. MaxLost
      /\ MAX_ATTEMPTS \in Nat \ {0} /\ MaxFaults \in Nat /\ MaxLost \in Nat
  BY DEF Post, TypeOK, SenderRight, WaitingCounted, UnderWay, NewWhileSaving, Queued, NoFile
<1>2. /\ Count(posts[m]) = posts[m] + 1
      /\ Count(tickets[m]) \in {tickets[m], tickets[m] + 1} /\ Count(tickets[m]) > 0
  BY <1>1, SMT DEF Count
<1>3. /\ posts' = [posts EXCEPT ![m] = posts[m] + 1]
      /\ sender.pc = "post" /\ sender' = [sender EXCEPT !.pc = "save", !.dest = sender'.dest]
      /\ UNCHANGED <<editor, accepted, outbox, cooling, sent, failed, shown, faults>>
  BY <1>2 DEF Post, Answered, dirs, TypeOK
<1>4. \/ /\ tickets' = [tickets EXCEPT ![m] = Count(tickets[m])] /\ refused' = refused
         /\ \/ lost' = lost /\ sender'.dest = "sent"
            \/ lost' = lost + 1 /\ lost < MaxLost /\ sender'.dest = Retry
      \/ tickets' = tickets /\ lost' = lost /\ refused' = refused \cup {m} /\ sender'.dest = "failed"
      \/ tickets' = tickets /\ lost' = lost /\ refused' = refused /\ sender'.dest = Retry
  BY DEF Post, Answered, TypeOK
<1>5. Retry \in {"failed", "outbox"} /\ (Retry = "failed" <=> sender.attempts >= MAX_ATTEMPTS)
  BY <1>1 DEF Retry
<1>6. /\ posts'[m] = posts[m] + 1 /\ tickets'[m] \in {tickets[m], tickets[m] + 1}
      /\ \A n \in Msgs : n # m => posts'[n] = posts[n] /\ tickets'[n] = tickets[n]
      /\ posts' \in [Msgs -> Nat] /\ tickets' \in [Msgs -> Nat]
  <2>1. posts \in [Msgs -> Nat] /\ tickets \in [Msgs -> Nat]
    BY DEF TypeOK
  <2>2. QED
    BY <1>1, <1>2, <1>3, <1>4, <2>1
<1>7. /\ tickets'[m] = tickets[m] \/ sender'.dest = "sent" \/ lost' = lost + 1
      /\ lost' \in 0 .. MaxLost /\ lost <= lost' /\ refused \subseteq refused'
      /\ sender'.dest = "sent" => tickets'[m] > 0
      /\ sender'.dest = "failed" => m \in refused' \/ sender.attempts >= MAX_ATTEMPTS
      /\ sender'.dest = "outbox" => sender.attempts < MAX_ATTEMPTS
      /\ sender'.dest # "sent" => tickets'[m] <= lost' + faults
      /\ tickets'[m] <= 1 + lost' + faults
      /\ sender'.dest \in {"outbox", "sent", "failed"}
  <2>1. tickets \in [Msgs -> Nat]
    BY DEF TypeOK
  <2>2. QED
    BY <1>1, <1>2, <1>4, <1>5, <2>1
<1>8. TypeOK'
  <2>1. sender' \in SenderType
    <3>1. sender \in SenderType
      BY DEF TypeOK, SenderType
    <3>2. QED
      BY <1>3, <1>7, <3>1 DEF SenderType
  <2>2. refused' \subseteq Msgs
    BY <1>1, <1>4 DEF TypeOK
  <2>3. QED
    BY <1>3, <1>6, <1>7, <2>1, <2>2 DEF TypeOK, SenderType
<1>9. NewWhileSaving'
  BY <1>1, <1>3, <1>6 DEF NewWhileSaving, Busy
<1>10. /\ sender'.pc = "save" /\ sender'.msg = m /\ sender'.todo = sender.todo
       /\ sender'.attempts = sender.attempts
  BY <1>3 DEF TypeOK
<1>11. SenderRight'
  <2>1. Queued' = Queued
    BY <1>3 DEF Queued
  <2>2. sender'.attempts <= posts'[m] /\ posts'[m] <= sender'.attempts + faults
    BY <1>1, <1>6, <1>10
  <2>3. sender'.dest = "failed" => GivenUp(m)'
    BY <1>1, <1>6, <1>7, <1>10, <2>2 DEF GivenUp
  <2>4. sender'.dest = "sent" => Stored(m)'
    BY <1>7, <1>10 DEF Stored
  <2>5. m \notin sender.todo /\ sender.todo \subseteq Queued
    BY <1>3 DEF SenderRight
  <2> HIDE DEF OutInv
  <2>6. QED
    BY <1>1, <1>3, <1>7, <1>10, <2>1, <2>2, <2>3, <2>4, <2>5 DEF SenderRight, Stored, GivenUp
<1>12. WaitingCounted'
  <2> SUFFICES ASSUME NEW n \in Queued, n # m
               PROVE  /\ outbox[n] <= posts'[n] /\ posts'[n] <= outbox[n] + faults
                      /\ tickets'[n] <= lost' + faults
    BY <1>3, <1>10 DEF WaitingCounted, Queued, UnderWay
  <2>1. n \in Msgs /\ posts'[n] = posts[n] /\ tickets'[n] = tickets[n] /\ tickets[n] \in Nat
    BY <1>6 DEF Queued, TypeOK
  <2>2. outbox[n] <= posts[n] /\ posts[n] <= outbox[n] + faults /\ tickets[n] <= lost + faults
    BY <1>3 DEF WaitingCounted, UnderWay
  <2>3. QED
    BY <1>1, <1>7, <2>1, <2>2
<1>13. \A n \in Msgs : (Stored(n) => Stored(n)') /\ (GivenUp(n) => GivenUp(n)')
  <2>1. \A n \in Msgs : posts[n] \in Nat /\ tickets[n] \in Nat
    BY DEF TypeOK
  <2>2. QED
    BY <1>1, <1>6, <1>7, <2>1 DEF Stored, GivenUp
<1>14. NothingLost' /\ VerdictsAreTrue'
  <2>1. accepted \subseteq Msgs
    BY DEF TypeOK
  <2>2. QED
    BY <1>3, <1>13, <2>1 DEF NothingLost, VerdictsAreTrue, Queued
<1>15. RepeatsBounded'
  <2> SUFFICES ASSUME NEW n \in Msgs
               PROVE  posts'[n] <= MAX_ATTEMPTS + faults /\ tickets'[n] <= 1 + lost' + faults
    BY <1>3 DEF RepeatsBounded
  <2>1. CASE n = m
    BY <1>1, <1>6, <1>7, <2>1
  <2>2. CASE n # m
    BY <1>1, <1>6, <1>7, <2>2 DEF RepeatsBounded, TypeOK
  <2>3. QED
    BY <2>1, <2>2
<1>16. QED
  BY <1>8, <1>9, <1>11, <1>12, <1>14, <1>15

(* What is written was answered: to the outbox with its count, or where    *)
(* the answer says.                                                        *)
LEMMA SaveKeeps == ASSUME OutInv, Save PROVE OutInv'
<1> USE OutboxAssumption DEF OutInv, Save, world_vars
<1> DEFINE m == sender.msg
<1>1. /\ m \in Msgs /\ m \in Queued /\ m \in accepted /\ sender.attempts \in 1 .. MAX_ATTEMPTS
      /\ posts[m] \in Nat /\ tickets[m] \in Nat /\ faults \in Nat /\ lost \in Nat
      /\ sender.attempts <= posts[m] /\ posts[m] <= sender.attempts + faults
  BY DEF TypeOK, SenderRight, NewWhileSaving, Queued, NoFile
<1>2. CASE sender.dest = "outbox"
  <2>1. /\ outbox' = [outbox EXCEPT ![m] = sender.attempts] /\ sent' = sent /\ failed' = failed
        /\ sender' = [sender EXCEPT !.pc = "next"] /\ cooling' = cooling \cup {m}
        /\ sender.attempts < MAX_ATTEMPTS /\ tickets[m] <= lost + faults
    BY <1>2 DEF SenderRight
  <2>2. /\ outbox'[m] = sender.attempts /\ outbox'[m] # NoFile
        /\ \A n \in Msgs : n # m => outbox'[n] = outbox[n]
    BY <1>1, <2>1 DEF TypeOK, NoFile
  <2>3. Queued' = Queued
    BY <1>1, <2>2 DEF Queued
  <2>4. TypeOK'
    BY <1>1, <2>1 DEF TypeOK
  <2>5. NewWhileSaving'
    BY <1>1, <2>2 DEF NewWhileSaving, Busy
  <2>6. SenderRight'
    BY <2>1, <2>3 DEF SenderRight, TypeOK
  <2>7. WaitingCounted'
    BY <1>1, <2>1, <2>2, <2>3 DEF WaitingCounted, UnderWay, Queued, TypeOK
  <2>8. NothingLost' /\ VerdictsAreTrue' /\ RepeatsBounded'
    BY <2>1, <2>3 DEF NothingLost, VerdictsAreTrue, RepeatsBounded, Stored, GivenUp
  <2>9. QED
    BY <2>4, <2>5, <2>6, <2>7, <2>8
<1>3. CASE sender.dest # "outbox"
  <2>1. /\ outbox' = outbox /\ cooling' = cooling /\ sender' = [sender EXCEPT !.pc = "remove"]
        /\ sent' = IF sender.dest = "sent" THEN sent \cup {m} ELSE sent
        /\ failed' = IF sender.dest = "failed" THEN failed \cup {m} ELSE failed
    BY <1>3
  <2>2. TypeOK'
    BY <1>1, <2>1 DEF TypeOK
  <2>3. NewWhileSaving' /\ SenderRight' /\ WaitingCounted'
    BY <1>3, <2>1 DEF NewWhileSaving, Busy, SenderRight, WaitingCounted, UnderWay, Queued, Stored, GivenUp, TypeOK
  <2>4. NothingLost' /\ VerdictsAreTrue' /\ RepeatsBounded'
    BY <2>1 DEF NothingLost, VerdictsAreTrue, RepeatsBounded, Stored, GivenUp, Queued, SenderRight, TypeOK
  <2>5. QED
    BY <2>2, <2>3, <2>4
<1>4. QED
  BY <1>2, <1>3

(* A fault while a message is in hand leaves its file as it was: one post  *)
(* more, or one ticket, than the file tells of.                            *)
LEMMA FaultKeeps ==
    ASSUME OutInv, SaveFails \/ Crash
    PROVE  OutInv'
<1> USE OutboxAssumption DEF OutInv, SaveFails, Crash, dirs, world_vars, Off
<1>1. /\ faults' = faults + 1 /\ faults' \in 0 .. MaxFaults /\ faults \in Nat /\ lost \in Nat /\ lost' = lost
      /\ sender'.pc \in {"off", "next"} /\ sender'.todo \subseteq Queued
      /\ UNCHANGED <<editor, accepted, outbox, cooling, sent, failed, shown, tickets, posts, refused>>
  BY DEF TypeOK, SenderRight
<1>2. TypeOK'
  BY <1>1 DEF TypeOK
<1>3. NewWhileSaving' /\ SenderRight'
  BY <1>1 DEF NewWhileSaving, Busy, SenderRight, Queued
<1>4. \A m \in Queued : outbox[m] \in Nat /\ posts[m] \in Nat /\ tickets[m] \in Nat
  BY DEF Queued, TypeOK, NoFile
<1>5. WaitingCounted'
  <2> SUFFICES ASSUME NEW m \in Queued
               PROVE  outbox[m] <= posts[m] /\ posts[m] <= outbox[m] + faults' /\ tickets[m] <= lost + faults'
    BY <1>1 DEF WaitingCounted, Queued
  <2>1. CASE UnderWay(m)
    BY <1>1, <1>4, <2>1 DEF UnderWay, SenderRight
  <2>2. CASE ~UnderWay(m)
    BY <1>1, <1>4, <2>2 DEF WaitingCounted
  <2>3. QED
    BY <2>1, <2>2
<1>6. NothingLost' /\ VerdictsAreTrue' /\ RepeatsBounded'
  BY <1>1 DEF NothingLost, VerdictsAreTrue, RepeatsBounded, Queued, Stored, GivenUp, TypeOK
<1>7. QED
  BY <1>2, <1>3, <1>5, <1>6

(* The file is removed only of a message that has come to an end; one that *)
(* cannot be removed will be posted again.                                 *)
LEMMA RemoveKeeps == ASSUME OutInv, RemoveEntry PROVE OutInv'
<1> USE OutboxAssumption DEF OutInv
<1> DEFINE m == sender.msg
<1>1. /\ m \in Queued /\ m \in Msgs /\ m \in accepted /\ m \notin sender.todo /\ sender.todo \subseteq Queued
      /\ posts[m] \in Nat /\ tickets[m] \in Nat /\ faults \in Nat /\ lost \in Nat /\ outbox[m] \in Nat
      /\ outbox[m] <= posts[m] /\ posts[m] <= outbox[m] + 1 + faults /\ tickets[m] <= 1 + lost + faults
      /\ Stored(m) \/ GivenUp(m)
  BY DEF RemoveEntry, SenderRight, NewWhileSaving, Queued, TypeOK, NoFile
<1>2. /\ sender' = [sender EXCEPT !.pc = "next"]
      /\ UNCHANGED <<editor, accepted, shown, tickets, posts, refused, lost>>
      /\ sent' \subseteq sent /\ failed' \subseteq failed /\ cooling' \subseteq cooling
      /\ \/ outbox' = [outbox EXCEPT ![m] = NoFile] /\ faults' = faults
         \/ outbox' = outbox /\ faults' = faults + 1 /\ faults < MaxFaults
  BY DEF RemoveEntry, Capped, world_vars
<1>3. sender'.pc = "next" /\ sender'.todo = sender.todo
  BY <1>2 DEF TypeOK
<1>4. /\ Queued' \subseteq Queued /\ Queued \ {m} \subseteq Queued'
      /\ m \in Queued' => faults' = faults + 1
      /\ faults' \in {faults, faults + 1} /\ faults' \in 0 .. MaxFaults
      /\ \A n \in Queued' : outbox'[n] = outbox[n]
  BY <1>1, <1>2 DEF Queued, TypeOK, NoFile
<1>5. TypeOK'
  <2>1. sender' \in SenderType
    <3>1. sender \in SenderType
      BY DEF TypeOK, SenderType
    <3>2. QED
      BY <1>2, <3>1 DEF SenderType
  <2>2. outbox' \in [Msgs -> {NoFile} \cup 0 .. (MAX_ATTEMPTS - 1)]
    BY <1>2 DEF TypeOK
  <2>3. QED
    BY <1>2, <1>4, <2>1, <2>2 DEF TypeOK, SenderType
<1>6. NewWhileSaving'
  BY <1>1, <1>2 DEF NewWhileSaving, Busy, TypeOK
<1>7. SenderRight'
  BY <1>1, <1>3, <1>4 DEF SenderRight
<1>8. WaitingCounted'
  <2> SUFFICES ASSUME NEW n \in Queued'
               PROVE  /\ outbox[n] <= posts[n] /\ posts[n] <= outbox[n] + faults' /\ tickets[n] <= lost + faults'
    BY <1>2, <1>4 DEF WaitingCounted
  <2>1. CASE n = m
    BY <1>1, <1>4, <2>1
  <2>2. CASE n # m
    <3>1. n \in Queued /\ posts[n] \in Nat /\ tickets[n] \in Nat /\ outbox[n] \in Nat
      BY <1>4 DEF Queued, TypeOK, NoFile
    <3>2. outbox[n] <= posts[n] /\ posts[n] <= outbox[n] + faults /\ tickets[n] <= lost + faults
      BY <2>2, <3>1 DEF WaitingCounted, UnderWay
    <3>3. QED
      BY <1>1, <1>4, <3>1, <3>2
  <2>3. QED
    BY <2>1, <2>2
<1>9. NothingLost' /\ VerdictsAreTrue'
  BY <1>1, <1>2, <1>4 DEF NothingLost, VerdictsAreTrue, Stored, GivenUp
<1>10. RepeatsBounded'
  BY <1>1, <1>2, <1>4 DEF RepeatsBounded, TypeOK
<1>11. QED
  BY <1>5, <1>6, <1>7, <1>8, <1>9, <1>10

LEMMA RestKeeps ==
    ASSUME OutInv, EndSender \/ (\E m \in Msgs : BackoffEnds(m)) \/ UNCHANGED vars
    PROVE  OutInv'
<1> USE OutboxAssumption DEF OutInv
<1>1. /\ UNCHANGED <<editor, accepted, outbox, sent, failed, shown, tickets, posts, refused, faults, lost>>
      /\ cooling' \subseteq cooling
      /\ sender' \in {sender, Off} /\ (sender' # sender => sender.pc = "next")
  <2>1. CASE EndSender
    BY <2>1 DEF EndSender, dirs, world_vars
  <2>2. CASE \E m \in Msgs : BackoffEnds(m)
    BY <2>2 DEF BackoffEnds, world_vars
  <2>3. CASE UNCHANGED vars
    BY <2>3 DEF vars, dirs, world_vars
  <2>4. QED
    BY <2>1, <2>2, <2>3
<1>2. TypeOK'
  <2>1. sender \in SenderType /\ Off \in SenderType
    BY DEF TypeOK, SenderType, Off
  <2>2. QED
    BY <1>1, <2>1 DEF TypeOK, SenderType
<1>3. NewWhileSaving' /\ SenderRight' /\ WaitingCounted'
  BY <1>1 DEF NewWhileSaving, Busy, SenderRight, WaitingCounted, UnderWay, Queued, Stored, GivenUp, Off
<1>4. NothingLost' /\ VerdictsAreTrue' /\ RepeatsBounded'
  BY <1>1 DEF NothingLost, VerdictsAreTrue, RepeatsBounded, Queued, Stored, GivenUp
<1>5. QED
  BY <1>2, <1>3, <1>4

-----------------------------------------------------------------------------
LEMMA OutStep == OutInv /\ [Next]_vars => OutInv'
<1> SUFFICES ASSUME OutInv, [Next]_vars PROVE OutInv'
  OBVIOUS
<1>1. ASSUME NEW e \in Editors, Edit(e) PROVE OutInv'
  BY <1>1, QueueKeeps, SaveItemKeeps, PollSendKeeps DEF Edit
<1>2. CASE SenderStep
  BY <1>2, TakeKeeps, PostKeeps, SaveKeeps, FaultKeeps, RemoveKeeps, RestKeeps DEF SenderStep
<1>3. CASE StartSender \/ Crash
  BY <1>3, StartKeeps, FaultKeeps
<1>4. CASE (\E m \in Msgs : BackoffEnds(m)) \/ UNCHANGED vars
  BY <1>4, RestKeeps
<1>5. QED
  BY <1>1, <1>2, <1>3, <1>4 DEF Next

LEMMA OutInvariant == Spec => []OutInv
<1>1. Init => OutInv
  BY OutInit
<1>2. QED
  BY <1>1, OutStep, PTL DEF Spec

(* A message that an editor has taken is not lost by any number of kills,  *)
(* failed writes and capped directories (move_item, send_all).  What is in *)
(* sent/ is on the server and what is in failed/ was refused or tried to   *)
(* the end, whatever the editor was told in between (poll_send); each      *)
(* fault costs at most one post more than MAX_ATTEMPTS, and each lost      *)
(* reply or fault at most one ticket more than one (send_all).             *)
THEOREM FeedbackIsSound == Spec => []FeedbackSound
<1>1. OutInv => FeedbackSound
  BY DEF OutInv, FeedbackSound
<1>2. QED
  BY <1>1, OutInvariant, PTL

(* The directories, the sender and the editors keep their types, an        *)
(* attempt in a file never reaching MAX_ATTEMPTS (outbox.rs).              *)
THEOREM OutboxTyped == Spec => []TypeOK
<1>1. OutInv => TypeOK
  BY DEF OutInv
<1>2. QED
  BY <1>1, OutInvariant, PTL

-----------------------------------------------------------------------------
(* The view of the pending directory                                       *)

AnyStamp == {NoStamp} \cup Stamps

(* Every variable has its type, of the records too.                        *)
Typed ==
    /\ setup \in 0..MaxVersion /\ manifest \in 0..MaxVersion
    /\ setup_stamp \in AnyStamp /\ manifest_stamp \in AnyStamp
    /\ reader \in [pc : {"idle", "stamp", "manifest", "hash", "store"},
                   setup : AnyStamp, manifest : AnyStamp, found : 0..MaxVersion]
    /\ cache \in [setup : AnyStamp, manifest : AnyStamp, ready : 0..MaxVersion]

(* A file has a stamp and what is not there has none.                      *)
Stamped ==
    /\ setup_stamp = NoStamp <=> setup = NoVersion
    /\ manifest_stamp = NoStamp <=> manifest = NoVersion

(* The files are still those these stamps were read of.                    *)
Still(s, m) == setup # NoVersion /\ manifest # NoVersion /\ setup_stamp = s /\ manifest_stamp = m

(* What the call under way found is what is there, unless a file has       *)
(* changed since its stamp was read.                                       *)
ReaderHonest ==
    Still(reader.setup, reader.manifest) =>
        /\ reader.pc = "hash" => reader.found = manifest
        /\ reader.pc = "store" => reader.found = verify_pending

ViewInv == Typed /\ Stamped /\ ReaderHonest /\ CacheHonest

(* Among four stamps there is always one that three others are not.        *)
LEMMA StampLeft ==
    ASSUME NEW a, NEW b, NEW c
    PROVE  /\ Unused({a, b, c}) \in Stamps
           /\ Unused({a, b, c}) # a /\ Unused({a, b, c}) # b /\ Unused({a, b, c}) # c
<1>1. \E n \in Stamps : n \notin {a, b, c}
  BY SMT DEF Stamps
<1>2. Unused({a, b, c}) \in Stamps /\ Unused({a, b, c}) \notin {a, b, c}
  BY <1>1 DEF Unused
<1>3. QED
  BY <1>2

LEMMA ViewInit_Inv == ViewInit => ViewInv
BY PendingDirAssumption
   DEF ViewInit, DirInit, Idle, ViewInv, Typed, Stamped, ReaderHonest, CacheHonest, Still,
       AnyStamp, NoStamp, NoVersion, Stamps

(* A written file is no longer the one that was remembered, and one that   *)
(* is gone is not there to be offered.                                     *)
LEMMA WriteKeeps == ViewInv /\ Write => ViewInv'
<1> SUFFICES ASSUME ViewInv, Write PROVE ViewInv'
  OBVIOUS
<1> USE PendingDirAssumption DEF ViewInv, Write, dir_vars
<1>1. CASE WriteSetup
  <2> PICK v \in Versions : PutSetup(v)
    BY <1>1 DEF WriteSetup
  <2>1. /\ setup' = v /\ v \in 1..MaxVersion /\ manifest' = manifest
        /\ manifest_stamp' = manifest_stamp /\ reader' = reader /\ cache' = cache
    BY <1>1 DEF WriteSetup, PutSetup, Versions
  <2>2. /\ setup_stamp' \in Stamps
        /\ setup_stamp' # reader.setup /\ setup_stamp' # cache.setup
    BY <1>1, StampLeft DEF WriteSetup
  <2>3. Typed' /\ Stamped'
    BY <2>1, <2>2 DEF Typed, Stamped, AnyStamp, NoStamp, Stamps, NoVersion
  <2>4. ReaderHonest' /\ CacheHonest'
    BY <2>1, <2>2 DEF ReaderHonest, CacheHonest, Still
  <2>5. QED
    BY <2>3, <2>4
<1>2. CASE WriteManifest
  <2>1. /\ manifest' = setup /\ setup # NoVersion /\ setup' = setup
        /\ setup_stamp' = setup_stamp /\ reader' = reader /\ cache' = cache
    BY <1>2 DEF WriteManifest, PutManifest
  <2>2. /\ manifest_stamp' \in Stamps
        /\ manifest_stamp' # reader.manifest /\ manifest_stamp' # cache.manifest
    BY <1>2, StampLeft DEF WriteManifest
  <2>3. Typed' /\ Stamped'
    BY <2>1, <2>2 DEF Typed, Stamped, AnyStamp, NoStamp, Stamps, NoVersion
  <2>4. ReaderHonest' /\ CacheHonest'
    BY <2>1, <2>2 DEF ReaderHonest, CacheHonest, Still
  <2>5. QED
    BY <2>3, <2>4
<1>3. CASE RemoveFile
  <2>1. setup' \in {setup, NoVersion} /\ manifest' \in {manifest, NoVersion}
    BY <1>3 DEF RemoveFile, RemoveSetup, RemoveManifest
  <2>2. Typed' /\ Stamped'
    BY <1>3 DEF RemoveFile, RemoveSetup, RemoveManifest, Typed, Stamped, AnyStamp, NoVersion
  <2>3. ReaderHonest' /\ CacheHonest'
    BY <1>3 DEF RemoveFile, RemoveSetup, RemoveManifest, ReaderHonest, CacheHonest, Still, verify_pending
  <2>4. QED
    BY <2>2, <2>3
<1>4. QED
  BY <1>1, <1>2, <1>3

(* The stamps are read before what they are of.                            *)
LEMMA ReaderKeeps == ViewInv /\ ReaderStep => ViewInv'
<1> SUFFICES ASSUME ViewInv, ReaderStep PROVE ViewInv'
  OBVIOUS
<1> USE PendingDirAssumption DEF ViewInv
<1>1. /\ setup' = setup /\ manifest' = manifest
      /\ setup_stamp' = setup_stamp /\ manifest_stamp' = manifest_stamp
  BY DEF ReaderStep, dir_vars, stamp_vars
<1>2. Stamped'
  BY <1>1 DEF Stamped
<1>3. verify_pending' = verify_pending
  BY <1>1 DEF verify_pending
<1>4. CASE ReadSetupStamp
  BY <1>1, <1>2, <1>3, <1>4
     DEF ReadSetupStamp, Typed, ReaderHonest, CacheHonest, Still
<1>5. CASE ReadManifestStamp
  <2>1. cache' = cache /\ reader'.pc \in {"idle", "manifest"}
    BY <1>5 DEF ReadManifestStamp, Idle, Typed
  <2>2. reader' \in [pc : {"idle", "stamp", "manifest", "hash", "store"},
                     setup : AnyStamp, manifest : AnyStamp, found : 0..MaxVersion]
    <3>1. Idle \in [pc : {"idle", "stamp", "manifest", "hash", "store"},
                    setup : AnyStamp, manifest : AnyStamp, found : 0..MaxVersion]
      BY DEF Idle, AnyStamp, NoVersion
    <3>2. [reader EXCEPT !.pc = "manifest", !.manifest = manifest_stamp]
              \in [pc : {"idle", "stamp", "manifest", "hash", "store"},
                  setup : AnyStamp, manifest : AnyStamp, found : 0..MaxVersion]
      BY DEF Typed
    <3>3. QED
      BY <1>5, <3>1, <3>2 DEF ReadManifestStamp
  <2>3. QED
    BY <1>1, <1>2, <1>3, <2>1, <2>2 DEF Typed, ReaderHonest, CacheHonest, Still
<1>6. CASE read_manifest
  BY <1>1, <1>2, <1>3, <1>6 DEF read_manifest, Typed, ReaderHonest, CacheHonest, Still
<1>7. CASE HashSetup
  <2>1. /\ cache' = cache /\ reader.pc = "hash" /\ reader'.pc = "store"
        /\ reader'.setup = reader.setup /\ reader'.manifest = reader.manifest
        /\ reader'.found = IF setup = reader.found THEN reader.found ELSE NoVersion
    BY <1>7 DEF HashSetup, Typed
  <2>2. Typed'
    <3>1. reader' = [reader EXCEPT !.pc = "store", !.found = reader'.found]
      BY <1>7, <2>1 DEF HashSetup, Typed
    <3>2. reader'.found \in 0..MaxVersion
      BY <2>1 DEF Typed, NoVersion
    <3>3. QED
      BY <1>1, <2>1, <3>1, <3>2 DEF Typed
  <2>3. ReaderHonest' /\ CacheHonest'
    BY <1>1, <1>3, <2>1 DEF ReaderHonest, CacheHonest, Still, verify_pending
  <2>4. QED
    BY <1>2, <2>2, <2>3
<1>8. CASE StoreReady
  <2>1. /\ reader' = Idle /\ reader.pc = "store"
        /\ cache' = [setup |-> reader.setup, manifest |-> reader.manifest, ready |-> reader.found]
    BY <1>8 DEF StoreReady
  <2>2. Typed'
    BY <1>1, <2>1 DEF Idle, Typed, AnyStamp, NoVersion
  <2>3. ReaderHonest' /\ CacheHonest'
    BY <1>1, <1>3, <2>1 DEF ReaderHonest, CacheHonest, Still, Idle
  <2>4. QED
    BY <1>2, <2>2, <2>3
<1>9. QED
  BY <1>4, <1>5, <1>6, <1>7, <1>8 DEF ReaderStep

LEMMA ViewStep == ViewInv /\ [ViewNext]_view_vars => ViewInv'
<1>1. ViewInv /\ UNCHANGED view_vars => ViewInv'
  BY DEF view_vars, dir_vars, stamp_vars, ViewInv, Typed, Stamped, ReaderHonest, CacheHonest,
         Still, verify_pending
<1>2. QED
  BY <1>1, WriteKeeps, ReaderKeeps DEF ViewNext

(* pending.rs READY: an answer given from the cache is the one a fresh     *)
(* verification would give, whatever the updater did in the meantime.      *)
THEOREM CacheIsHonest == ViewSpec => []CacheHonest
<1>1. ViewInv => CacheHonest
  BY DEF ViewInv
<1>2. QED
  BY ViewInit_Inv, ViewStep, <1>1, PTL DEF ViewSpec

(* The types of PendingView.                                               *)
THEOREM ViewTyped == ViewSpec => []ViewTypeOK
<1>1. ViewInv => ViewTypeOK
  BY DEF ViewInv, Typed, Stamped, AnyStamp, ViewTypeOK
<1>2. QED
  BY ViewInit_Inv, ViewStep, <1>1, PTL DEF ViewSpec

-----------------------------------------------------------------------------
(* The settings file                                                       *)

(* An updater that will send its ping.                                     *)
ToPing(a) == at[a] = "send" \/ (at[a] \in {"lock", "write"} /\ job[a].do = "ensure_id")

(* The holder of the lock writes what its edit made of the file.           *)
Placed(a) ==
    /\ at[a] = "write" <=> lock = a
    /\ at[a] \in {"lock", "write"} => job[a] # NoJob
    /\ at[a] = "send" => job[a].do = "ensure_id"
    /\ at[a] = "write" => file.is # "torn" /\ out[a] \in Edited(job[a], file.ui)

(* The file has the last claim, the last answer and a gap that is not       *)
(* shorter than the rest due after it, the user's last choice and the id of *)
(* every ping.                                                             *)
FileRight ==
    /\ file.is = "whole" \/ (file = Empty /\ claims = <<>> /\ ~off)
    /\ off => ~is_enabled(file.ui)
    /\ claims # <<>> => file.ui.try = claims[Len(claims)]
    /\ file.ui.ok = success.at /\ gap(file.ui) >= success.rest
    /\ pinged \subseteq {file.ui.id} /\ (pinged # {} => file.ui.id # UNSET)
    /\ \A a \in Actors : at[a] = "send" => out[a].ui.id = file.ui.id /\ file.ui.id # UNSET

(* An updater that began after the refusal and that will send has not been *)
(* able to read the file.                                                  *)
Heard ==
    /\ warned # {} => off
    /\ \A a \in warned : ToPing(a) => blind[a]
    /\ ~leaked /\ ~hasty

(* After a cut short write nothing is said of the file but its type.       *)
UiInv ==
    /\ UiTypeOK
    /\ \A a \in Actors : Placed(a)
    /\ cut \/ (FileRight /\ Heard /\ ClaimedOnce)

-----------------------------------------------------------------------------
(* What the edits do                                                       *)

LEMMA JobKinds ==
    ASSUME NEW j \in Jobs, j # NoJob
    PROVE  \/ j.do = "set_enabled" /\ j.on \in BOOLEAN
           \/ j.do = "claim" /\ j.clock \in Nat
           \/ j.do = "ensure_id" /\ j.id \in Instances
           \/ j.do = "record_ping_ok" /\ j.clock \in Nat /\ j.next \in Nexts \cup {UNSET}
BY DEF Jobs

LEMMA JobsMade ==
    /\ NoJob \in Jobs /\ NoJob.do = "nothing"
    /\ \A on \in BOOLEAN : [do |-> "set_enabled", on |-> on] \in Jobs
    /\ \A t \in Nat : [do |-> "claim", clock |-> t] \in Jobs
    /\ \A i \in Instances : [do |-> "ensure_id", id |-> i] \in Jobs
    /\ \A t \in Nat, n \in Nexts \cup {UNSET} : [do |-> "record_ping_ok", clock |-> t, next |-> n] \in Jobs
BY DEF Jobs, NoJob

(* Within its bounds a number is the greater the greater what it is made of.*)
LEMMA ClampIs ==
    /\ \A x \in Int : Clamp(x, MIN_GAP, MAX_GAP) \in MIN_GAP..MAX_GAP
    /\ \A x, y \in Int : x <= y => Clamp(x, MIN_GAP, MAX_GAP) <= Clamp(y, MIN_GAP, MAX_GAP)
    /\ \A x \in MIN_GAP..MAX_GAP : Clamp(x, MIN_GAP, MAX_GAP) = x
BY UiFileAssumption DEF Clamp

LEMMA JitterIsTime ==
    ASSUME NEW n \in Int
    PROVE  /\ LeastRest(n) \in Int
           /\ \A i \in jitter(Clamp(n, MIN_GAP, MAX_GAP)) : i \in MIN_GAP..MAX_GAP /\ i >= LeastRest(n)
<1>1. PICK secs \in Int : secs = Clamp(n, MIN_GAP, MAX_GAP)
  BY ClampIs, UiFileAssumption
<1>2. Leeway(secs) \in Int
  BY <1>1 DEF Leeway
<1>3. ASSUME NEW d \in (-Leeway(secs))..Leeway(secs)
      PROVE  /\ Clamp(secs + d, MIN_GAP, MAX_GAP) \in MIN_GAP..MAX_GAP
             /\ Clamp(secs - Leeway(secs), MIN_GAP, MAX_GAP) <= Clamp(secs + d, MIN_GAP, MAX_GAP)
  <2>1. d \in Int /\ secs + d \in Int /\ secs - Leeway(secs) \in Int /\ secs - Leeway(secs) <= secs + d
    BY <1>1, <1>2
  <2>2. QED
    BY <2>1, ClampIs
<1>4. Clamp(secs - Leeway(secs), MIN_GAP, MAX_GAP) \in Int
  BY <1>1, <1>2, ClampIs, UiFileAssumption
<1>5. QED
  BY <1>1, <1>3, <1>4 DEF jitter, LeastRest

LEMMA GapIs ==
    /\ \A s \in Uis : gap(s) \in Int
    /\ \A s \in Uis : s.interval \in MIN_GAP..MAX_GAP => gap(s) = s.interval
    /\ \A s, t \in Uis : s.interval = t.interval => gap(s) = gap(t)
BY ClampIs, UiFileAssumption DEF gap, Uis, Times

(* An edit changes what it is about, and nothing else of what counts here. *)
LEMMA EditedIs ==
    ASSUME NEW j \in Jobs, j # NoJob, NEW s \in Uis, NEW o \in Edited(j, s)
    PROVE  /\ o \in Outs
           /\ j.do = "set_enabled" => o.ui.enabled = j.on /\ o.ui.set
           /\ j.do # "set_enabled" => is_enabled(o.ui) = is_enabled(s)
           /\ o.ui.id = IF j.do = "ensure_id" /\ s.id = UNSET THEN j.id ELSE s.id
           /\ o.ui.try = IF j.do = "claim" /\ should_ping(s, j.clock) THEN j.clock ELSE s.try
           /\ j.do = "claim" => o.yes = should_ping(s, j.clock)
           /\ o.ui.ok = IF j.do = "record_ping_ok" THEN j.clock ELSE s.ok
           /\ j.do # "record_ping_ok" \/ j.next = UNSET => gap(o.ui) = gap(s)
           /\ j.do = "record_ping_ok" /\ j.next # UNSET => gap(o.ui) >= LeastRest(j.next)
<1>1. CASE j.do = "set_enabled"
  <2>1. o = [ui |-> [s EXCEPT !.enabled = j.on, !.set = TRUE], yes |-> TRUE]
    BY <1>1 DEF Edited
  <2>2. j.on \in BOOLEAN
    BY <1>1, JobKinds
  <2>3. [s EXCEPT !.enabled = j.on, !.set = TRUE] \in Uis /\ [s EXCEPT !.enabled = j.on, !.set = TRUE].interval = s.interval
    BY <2>2 DEF Uis
  <2>4. gap([s EXCEPT !.enabled = j.on, !.set = TRUE]) = gap(s)
    BY <2>3, GapIs
  <2>5. QED
    BY <1>1, <2>1, <2>2, <2>4 DEF Outs, Uis
<1>2. CASE j.do = "claim"
  <2>1. PICK go : go = should_ping(s, j.clock)
    OBVIOUS
  <2>2. o = [ui |-> IF go THEN [s EXCEPT !.try = j.clock] ELSE s, yes |-> go]
    BY <1>2, <2>1 DEF Edited
  <2>3. go \in BOOLEAN /\ j.clock \in Times
    BY <1>2, <2>1, JobKinds DEF should_ping, Times
  <2>4. [s EXCEPT !.try = j.clock] \in Uis /\ [s EXCEPT !.try = j.clock].try = j.clock
        /\ [s EXCEPT !.try = j.clock].id = s.id /\ [s EXCEPT !.try = j.clock].set = s.set
        /\ [s EXCEPT !.try = j.clock].enabled = s.enabled /\ [s EXCEPT !.try = j.clock].ok = s.ok
        /\ [s EXCEPT !.try = j.clock].interval = s.interval
    BY <2>3 DEF Uis
  <2>5. gap([s EXCEPT !.try = j.clock]) = gap(s)
    BY <2>4, GapIs
  <2>6. QED
    BY <1>2, <2>1, <2>2, <2>3, <2>4, <2>5 DEF Outs, is_enabled
<1>3. CASE j.do = "ensure_id"
  <2>1. o = [ui |-> IF s.id = UNSET THEN [s EXCEPT !.id = j.id] ELSE s, yes |-> TRUE]
    BY <1>3 DEF Edited
  <2>2. j.id \in Instances
    BY <1>3, JobKinds
  <2>3. [s EXCEPT !.id = j.id] \in Uis /\ [s EXCEPT !.id = j.id].id = j.id
        /\ [s EXCEPT !.id = j.id].try = s.try /\ [s EXCEPT !.id = j.id].set = s.set
        /\ [s EXCEPT !.id = j.id].enabled = s.enabled /\ [s EXCEPT !.id = j.id].ok = s.ok
        /\ [s EXCEPT !.id = j.id].interval = s.interval
    BY <2>2 DEF Uis
  <2>4. gap([s EXCEPT !.id = j.id]) = gap(s)
    BY <2>3, GapIs
  <2>5. QED
    BY <1>3, <2>1, <2>3, <2>4 DEF Outs, is_enabled
<1>4. CASE j.do = "record_ping_ok"
  <2>1. PICK i \in IF j.next = UNSET THEN {s.interval} ELSE jitter(Clamp(j.next, MIN_GAP, MAX_GAP)) :
            o = [ui |-> [s EXCEPT !.ok = j.clock, !.interval = i], yes |-> TRUE]
    BY <1>4 DEF Edited
  <2>2. j.clock \in Times /\ j.next \in Nexts \cup {UNSET}
    BY <1>4, JobKinds DEF Times
  <2>3. /\ j.next = UNSET => i = s.interval
        /\ j.next # UNSET => j.next \in Int /\ i \in MIN_GAP..MAX_GAP /\ i >= LeastRest(j.next)
        /\ i \in Times
    <3>1. CASE j.next = UNSET
      BY <2>1, <3>1 DEF Uis
    <3>2. CASE j.next # UNSET
      <4>1. j.next \in Int
        BY <2>2, <3>2, UiFileAssumption
      <4>2. QED
        BY <2>1, <3>2, <4>1, JitterIsTime, UiFileAssumption DEF Times
    <3>3. QED
      BY <3>1, <3>2
  <2>4. PICK new : new = [s EXCEPT !.ok = j.clock, !.interval = i]
    OBVIOUS
  <2>5. /\ new \in Uis /\ new.id = s.id /\ new.try = s.try /\ new.set = s.set /\ new.enabled = s.enabled
        /\ new.ok = j.clock /\ new.interval = i
    BY <2>2, <2>3, <2>4 DEF Uis
  <2>6. /\ j.next = UNSET => gap(new) = gap(s)
        /\ j.next # UNSET => gap(new) >= LeastRest(j.next)
    BY <2>3, <2>5, GapIs
  <2>7. QED
    BY <1>4, <2>1, <2>4, <2>5, <2>6 DEF Outs, is_enabled
<1>5. QED
  BY <1>1, <1>2, <1>3, <1>4, JobKinds

LEMMA UiBasics ==
    /\ UiJson \in Uis /\ is_enabled(UiJson) /\ UiJson.id = UNSET
    /\ Empty \in Files /\ Torn \in Files /\ Empty.is = "empty" /\ Torn.is = "torn" /\ Empty.ui = UiJson
    /\ NoOut \in Outs /\ NoJob \in Jobs
    /\ \A s \in Uis : Whole(s) \in Files /\ Whole(s).is = "whole" /\ Whole(s).ui = s
    /\ UNSET \notin Actors /\ Instances \subseteq Actors /\ EDITOR \in Actors
<1>1. UiJson \in Uis /\ is_enabled(UiJson) /\ UiJson.id = UNSET
  BY DEF UiJson, Uis, Times, is_enabled
<1>2. Empty \in Files /\ Torn \in Files /\ Empty.is = "empty" /\ Torn.is = "torn" /\ Empty.ui = UiJson
  BY <1>1 DEF Empty, Torn, Files
<1>3. NoOut \in Outs /\ NoJob \in Jobs
  BY <1>1 DEF NoOut, Outs, Jobs
<1>4. \A s \in Uis : Whole(s) \in Files /\ Whole(s).is = "whole" /\ Whole(s).ui = s
  BY DEF Whole, Files
<1>5. QED
  BY <1>1, <1>2, <1>3, <1>4, UiFileAssumption DEF Actors

LEMMA UiInit_Inv == UiInit => UiInv
<1> SUFFICES ASSUME UiInit PROVE UiInv
  OBVIOUS
<1>1. UiTypeOK
  <2>1. claims \in Seq(Nat) /\ off \in BOOLEAN /\ leaked \in BOOLEAN /\ cut \in BOOLEAN
    <3>1. claims = <<>> /\ <<>> \in Seq(Nat)
      BY DEF UiInit
    <3>2. off = FALSE /\ leaked = FALSE /\ cut = FALSE
      BY Zenon DEF UiInit
    <3>3. QED
      BY <3>1, <3>2, Zenon
  <2>2. now \in 0..MaxTime /\ trouble \in 0..MaxTrouble /\ clicks \in 0..MaxClicks
        /\ tries \in [Actors -> 0..(READ_ATTEMPTS - 1)]
    BY UiFileAssumption DEF UiInit
  <2>3. success \in [at : Times, rest : Int] /\ hasty \in BOOLEAN
    <3>1. PICK r \in Int : r = Clamp(DEFAULT_GAP, MIN_GAP, MAX_GAP)
      BY ClampIs, UiFileAssumption
    <3>2. success = [at |-> UNSET, rest |-> r]
      BY <3>1 DEF UiInit
    <3>3. success \in [at : Times, rest : Int]
      BY <3>2 DEF Times
    <3>4. hasty = FALSE
      BY Zenon DEF UiInit
    <3>5. QED
      BY <3>3, <3>4, Zenon
  <2>4. QED
    BY <2>1, <2>2, <2>3, UiBasics DEF UiInit, UiTypeOK, Places
<1>2. \A a \in Actors : Placed(a)
  BY UiBasics DEF UiInit, Placed
<1>3. FileRight
  <2>1. UiJson.ok = UNSET /\ gap(UiJson) = Clamp(DEFAULT_GAP, MIN_GAP, MAX_GAP) /\ Clamp(DEFAULT_GAP, MIN_GAP, MAX_GAP) \in Int
    BY ClampIs, UiFileAssumption DEF UiJson, gap
  <2>2. file.ui.ok = success.at /\ gap(file.ui) >= success.rest
    BY <2>1, UiBasics DEF UiInit
  <2>3. QED
    BY <2>2, UiBasics DEF UiInit, FileRight
<1>4. Heard /\ ClaimedOnce
  BY DEF UiInit, Heard, ClaimedOnce
<1>5. QED
  BY <1>1, <1>2, <1>3, <1>4 DEF UiInv

-----------------------------------------------------------------------------
(* What a step of a leaves alone                                           *)

OthersAt(a) ==
    \A b \in Actors \ {a} :
        at'[b] = at[b] /\ job'[b] = job[b] /\ out'[b] = out[b] /\ blind'[b] = blind[b]

LEMMA OthersPlaced ==
    ASSUME UiInv, NEW a \in Actors, OthersAt(a), Placed(a)',
           lock' \in {lock, a, UNSET}, lock \in {lock', a, UNSET},
           lock = UNSET \/ lock = a \/ file' = file
    PROVE  \A b \in Actors : Placed(b)'
<1> SUFFICES ASSUME NEW b \in Actors, b # a PROVE Placed(b)'
  OBVIOUS
<1>1. Placed(b) /\ at'[b] = at[b] /\ job'[b] = job[b] /\ out'[b] = out[b]
  BY DEF UiInv, OthersAt
<1>2. (lock' = b) = (lock = b)
  BY UiBasics
<1>3. lock = b => file' = file
  BY UiBasics
<1>4. QED
  BY <1>1, <1>2, <1>3 DEF Placed

LEMMA StaysRight ==
    ASSUME FileRight, NEW a \in Actors, OthersAt(a), UNCHANGED <<file, claims, success, off, pinged>>, at'[a] # "send"
    PROVE  FileRight'
<1>1. \A b \in Actors : at'[b] = "send" => at[b] = "send" /\ out'[b] = out[b]
  BY DEF OthersAt
<1>2. QED
  BY <1>1 DEF FileRight

LEMMA StaysHeard ==
    ASSUME UiInv, Heard, NEW a \in Actors, OthersAt(a), UNCHANGED <<off, leaked, hasty, warned>>,
           a \in warned /\ ToPing(a)' => blind'[a]
    PROVE  Heard'
<1>1. ASSUME NEW b \in warned, ToPing(b)' PROVE blind'[b]
  <2>1. b \in Actors
    BY DEF UiInv, UiTypeOK
  <2>2. CASE b = a
    BY <1>1, <2>2
  <2>3. CASE b # a
    BY <1>1, <2>1, <2>3 DEF OthersAt, ToPing, Heard
  <2>4. QED
    BY <2>2, <2>3
<1>2. QED
  BY <1>1 DEF Heard

(* A step of a that changes nothing of the file nor of the histories.      *)
LEMMA QuietStep ==
    ASSUME UiInv, UiTypeOK', NEW a \in Actors, OthersAt(a), UNCHANGED <<file, claims, success, hasty, pinged, off, warned, leaked>>,
           Placed(a)', lock' \in {lock, a, UNSET}, lock \in {lock', a, UNSET},
           cut => cut', ~cut => at'[a] # "send" /\ (a \in warned /\ ToPing(a)' => blind'[a])
    PROVE  UiInv'
<1>1. \A b \in Actors : Placed(b)'
  BY OthersPlaced
<1>2. ASSUME ~cut' PROVE FileRight' /\ Heard' /\ ClaimedOnce'
  <2>1. ~cut /\ FileRight /\ Heard /\ ClaimedOnce
    BY <1>2 DEF UiInv
  <2>2. ClaimedOnce'
    BY <2>1 DEF ClaimedOnce
  <2>3. QED
    BY <2>1, <2>2, StaysRight, StaysHeard
<1>3. QED
  BY <1>1, <1>2 DEF UiInv

LEMMA WantSteps ==
    ASSUME UiTypeOK, NEW a \in Actors, NEW j \in Jobs, Want(a, j)
    PROVE  /\ at' \in [Actors -> Places] /\ job' \in [Actors -> Jobs] /\ out' \in [Actors -> Outs]
           /\ at'[a] = "lock" /\ job'[a] = j
           /\ \A b \in Actors \ {a} : at'[b] = at[b] /\ job'[b] = job[b] /\ out'[b] = out[b]
BY UiBasics DEF UiTypeOK, Want, Places

LEMMA UiDoneSteps ==
    ASSUME UiTypeOK, NEW a \in Actors, Done(a)
    PROVE  /\ at' \in [Actors -> Places] /\ job' \in [Actors -> Jobs] /\ out' \in [Actors -> Outs]
           /\ blind' \in [Actors -> BOOLEAN]
           /\ at'[a] = "idle" /\ OthersAt(a) /\ ~ToPing(a)'
<1>1. /\ at' \in [Actors -> Places] /\ job' \in [Actors -> Jobs] /\ out' \in [Actors -> Outs] /\ at'[a] = "idle"
      /\ \A b \in Actors \ {a} : at'[b] = at[b] /\ job'[b] = job[b] /\ out'[b] = out[b]
  BY UiBasics DEF UiTypeOK, Done, Places
<1>2. blind' \in [Actors -> BOOLEAN] /\ \A b \in Actors \ {a} : blind'[b] = blind[b]
  BY Zenon DEF UiTypeOK, Done
<1>3. QED
  BY <1>1, <1>2 DEF OthersAt, ToPing

-----------------------------------------------------------------------------
(* The steps                                                               *)

LEMMA BeatKeeps == ASSUME UiInv, NEW a \in Instances, Beat(a) PROVE UiInv'
<1>1. a \in Actors /\ at[a] = "idle" /\ at' = [at EXCEPT ![a] = "look"]
      /\ UNCHANGED <<now, file, lock, job, out, tries, blind, claims, success, hasty, pinged, off, warned, leaked, clicks, cut, trouble>>
  BY UiBasics DEF Beat
<1>2. at' \in [Actors -> Places] /\ at'[a] = "look" /\ OthersAt(a)
  BY <1>1 DEF UiInv, UiTypeOK, Places, OthersAt
<1>3. UiTypeOK'
  BY <1>1, <1>2 DEF UiInv, UiTypeOK
<1>4. Placed(a)' /\ ~ToPing(a)'
  BY <1>1, <1>2 DEF UiInv, Placed, ToPing
<1>5. QED
  BY <1>1, <1>2, <1>3, <1>4, QuietStep

LEMMA TickKeeps == ASSUME UiInv, Tick PROVE UiInv'
<1>1. now' \in 0..MaxTime
      /\ UNCHANGED <<file, lock, at, job, out, tries, blind, claims, success, hasty, pinged, off, warned, leaked, clicks, cut, trouble>>
  BY UiFileAssumption DEF Tick, UiInv, UiTypeOK
<1>2. UiTypeOK'
  BY <1>1 DEF UiInv, UiTypeOK
<1>3. \A a \in Actors : Placed(a)'
  BY <1>1 DEF UiInv, Placed
<1>4. ASSUME ~cut' PROVE FileRight' /\ Heard' /\ ClaimedOnce'
  BY <1>1, <1>4 DEF UiInv, FileRight, Heard, ClaimedOnce, ToPing
<1>5. QED
  BY <1>2, <1>3, <1>4 DEF UiInv

LEMMA LoadKeeps == ASSUME UiInv, NEW a \in Instances, load_at(a) PROVE UiInv'
<1>1. /\ a \in Actors /\ at[a] \in {"look", "look_again"} /\ lock # a
      /\ UNCHANGED <<now, file, lock, claims, success, hasty, pinged, off, warned, leaked, clicks, cut, trouble>>
  BY UiBasics DEF load_at, UiInv, Placed
<1>2. CASE tries[a] + 1 < READ_ATTEMPTS /\ tries' = [tries EXCEPT ![a] = @ + 1] /\ UNCHANGED <<at, job, out, blind>>
  <2>1. tries' \in [Actors -> 0..(READ_ATTEMPTS - 1)]
    BY <1>1, <1>2, UiFileAssumption DEF UiInv, UiTypeOK
  <2>2. UiTypeOK' /\ OthersAt(a) /\ Placed(a)' /\ ~ToPing(a)' /\ at'[a] # "send"
    BY <1>1, <1>2, <2>1 DEF UiInv, UiTypeOK, OthersAt, Placed, ToPing
  <2>3. QED
    BY <1>1, <2>2, QuietStep
<1>3. ASSUME NEW s \in Uis, NEW saw \in BOOLEAN, Looked(a, s, saw), saw => s = file.ui PROVE UiInv'
  <2>1. tries' \in [Actors -> 0..(READ_ATTEMPTS - 1)]
    <3>1. tries' = [tries EXCEPT ![a] = 0] /\ tries \in [Actors -> 0..(READ_ATTEMPTS - 1)]
      BY <1>3, Zenon DEF Looked, UiInv, UiTypeOK
    <3>2. 0 \in 0..(READ_ATTEMPTS - 1)
      BY UiFileAssumption
    <3>3. QED
      BY <3>1, <3>2, Zenon
  <2>2. CASE Done(a)
    <3>1. UiTypeOK' /\ OthersAt(a) /\ at'[a] = "idle" /\ ~ToPing(a)'
      BY <1>1, <2>1, <2>2, UiDoneSteps DEF UiInv, UiTypeOK
    <3>2. Placed(a)'
      BY <1>1, <3>1 DEF Placed
    <3>3. QED
      BY <1>1, <3>1, <3>2, QuietStep
  <2>3. CASE is_enabled(s)
    <3>1. PICK j : j = IF at[a] = "look" THEN [do |-> "claim", clock |-> now] ELSE [do |-> "ensure_id", id |-> a]
      OBVIOUS
    <3>2. Want(a, j) /\ blind' = [blind EXCEPT ![a] = ~saw]
      BY <1>3, <2>3, <3>1 DEF Looked
    <3>3. j \in Jobs /\ j.do # "nothing" /\ (at[a] = "look" => j.do = "claim")
      BY <3>1, JobsMade DEF UiInv, UiTypeOK
    <3>4. blind' \in [Actors -> BOOLEAN]
      BY <1>1, <3>2, Zenon DEF UiInv, UiTypeOK
    <3>5. blind'[a] = ~saw /\ \A b \in Actors \ {a} : blind'[b] = blind[b]
      BY <1>1, <3>2, Zenon DEF UiInv, UiTypeOK
    <3>6. /\ at' \in [Actors -> Places] /\ job' \in [Actors -> Jobs] /\ out' \in [Actors -> Outs]
          /\ at'[a] = "lock" /\ job'[a] = j /\ OthersAt(a)
      BY <1>1, <3>2, <3>3, <3>5, WantSteps DEF UiInv, OthersAt
    <3>7. UiTypeOK'
      BY <1>1, <2>1, <3>4, <3>6 DEF UiInv, UiTypeOK
    <3>8. Placed(a)'
      BY <1>1, <3>3, <3>6, JobsMade DEF Placed
    <3>9. ASSUME ~cut, a \in warned PROVE ~saw
      BY <1>3, <2>3, <3>9 DEF UiInv, FileRight, Heard
    <3>10. ~cut /\ a \in warned => blind'[a]
      BY <3>5, <3>9, Zenon
    <3>11. at'[a] # "send"
      BY <3>6
    <3>12. QED
      BY <1>1, <3>6, <3>7, <3>8, <3>10, <3>11, QuietStep
  <2>4. QED
    BY <1>3, <2>2, <2>3 DEF Looked
<1>4. file.ui \in Uis
  BY DEF UiInv, UiTypeOK, Files
<1>5. QED
  BY <1>2, <1>3, <1>4, UiBasics DEF load_at

LEMMA LockKeeps == ASSUME UiInv, NEW a \in Actors, with_file_lock(a) PROVE UiInv'
<1>1. /\ at[a] = "lock" /\ lock = UNSET /\ job[a] # NoJob
      /\ UNCHANGED <<now, file, tries, claims, success, hasty, pinged, off, warned, leaked, clicks, cut, trouble>>
  BY DEF with_file_lock, UiInv, Placed
<1>2. CASE Done(a) /\ UNCHANGED lock
  <2>1. UiTypeOK' /\ OthersAt(a) /\ at'[a] = "idle" /\ ~ToPing(a)'
    BY <1>1, <1>2, UiDoneSteps DEF UiInv, UiTypeOK
  <2>2. Placed(a)'
    BY <1>1, <1>2, <2>1, UiBasics DEF Placed
  <2>3. QED
    BY <1>1, <1>2, <2>1, <2>2, QuietStep
<1>3. CASE /\ file.is # "torn" /\ lock' = a /\ at' = [at EXCEPT ![a] = "write"]
           /\ \E o \in Edited(job[a], file.ui) : out' = [out EXCEPT ![a] = o]
           /\ UNCHANGED <<job, blind>>
  <2>1. PICK o \in Edited(job[a], file.ui) : out' = [out EXCEPT ![a] = o]
    BY <1>3
  <2>2. job[a] \in Jobs /\ file.ui \in Uis
    BY DEF UiInv, UiTypeOK, Files
  <2>3. o \in Outs
    BY <1>1, <2>2, EditedIs
  <2>4. /\ at' \in [Actors -> Places] /\ out' \in [Actors -> Outs] /\ at'[a] = "write" /\ out'[a] = o /\ OthersAt(a)
    BY <1>3, <2>1, <2>3 DEF UiInv, UiTypeOK, Places, OthersAt
  <2>5. UiTypeOK'
    BY <1>1, <1>3, <2>4 DEF UiInv, UiTypeOK
  <2>6. Placed(a)'
    BY <1>1, <1>3, <2>4 DEF Placed
  <2>7. ASSUME ~cut, a \in warned, ToPing(a)' PROVE blind'[a]
    BY <1>1, <1>3, <2>4, <2>7 DEF UiInv, Heard, ToPing
  <2>8. QED
    BY <1>1, <1>3, <2>4, <2>5, <2>6, <2>7, QuietStep
<1>4. QED
  BY <1>2, <1>3 DEF with_file_lock

LEMMA SetEnabledKeeps == ASSUME UiInv, NEW on \in BOOLEAN, set_enabled(on) PROVE UiInv'
<1>1. PICK j : j = [do |-> "set_enabled", on |-> on]
  OBVIOUS
<1>2. /\ at[EDITOR] = "idle" /\ clicks < MaxClicks /\ clicks' = clicks + 1 /\ Want(EDITOR, j)
      /\ UNCHANGED <<now, file, lock, tries, blind, claims, success, hasty, pinged, off, warned, leaked, cut, trouble>>
  BY <1>1 DEF set_enabled
<1>3. j \in Jobs /\ j # NoJob /\ j.do = "set_enabled"
  BY <1>1, JobsMade
<1>4. EDITOR \in Actors /\ lock # EDITOR
  BY <1>2, UiBasics DEF UiInv, Placed
<1>5. /\ at' \in [Actors -> Places] /\ job' \in [Actors -> Jobs] /\ out' \in [Actors -> Outs]
      /\ at'[EDITOR] = "lock" /\ job'[EDITOR] = j /\ OthersAt(EDITOR)
  BY <1>2, <1>3, <1>4, WantSteps DEF UiInv, OthersAt
<1>6. UiTypeOK'
  BY <1>2, <1>5, UiFileAssumption DEF UiInv, UiTypeOK
<1>7. Placed(EDITOR)' /\ ~ToPing(EDITOR)'
  BY <1>2, <1>3, <1>4, <1>5 DEF Placed, ToPing
<1>8. QED
  BY <1>2, <1>4, <1>5, <1>6, <1>7, QuietStep

LEMMA SendKeeps == ASSUME UiInv, NEW a \in Instances, Send(a) PROVE UiInv'
<1>1. /\ a \in Actors /\ at[a] = "send" /\ lock # a
      /\ pinged' = pinged \cup {out[a].ui.id}
      /\ UNCHANGED <<now, file, lock, tries, claims, success, hasty, off, warned, clicks, cut, trouble>>
  BY UiBasics DEF Send, UiInv, Placed
<1>2. leaked' \in BOOLEAN
  BY Zenon DEF Send, UiInv, UiTypeOK
<1>3. ~cut => ~leaked'
  <2>1. leaked' = (leaked \/ (a \in warned /\ ~blind[a]))
    BY DEF Send
  <2>2. ~cut => ~leaked /\ (a \in warned => blind[a])
    BY <1>1 DEF UiInv, Heard, ToPing
  <2>3. QED
    BY <2>1, <2>2, Zenon
<1>4. /\ at' \in [Actors -> Places] /\ job' \in [Actors -> Jobs] /\ out' \in [Actors -> Outs]
      /\ blind' \in [Actors -> BOOLEAN] /\ OthersAt(a) /\ at'[a] \in {"lock", "idle"}
      /\ ~ToPing(a)' /\ (at'[a] = "lock" => job'[a] # NoJob)
  <2>1. CASE Done(a)
    BY <1>1, <2>1, UiDoneSteps DEF UiInv
  <2>2. ASSUME NEW n \in Nexts \cup {UNSET}, NEW j, j = [do |-> "record_ping_ok", clock |-> now, next |-> n],
               Want(a, j), UNCHANGED blind
        PROVE  /\ at' \in [Actors -> Places] /\ job' \in [Actors -> Jobs] /\ out' \in [Actors -> Outs]
               /\ blind' \in [Actors -> BOOLEAN] /\ OthersAt(a) /\ at'[a] \in {"lock", "idle"}
               /\ ~ToPing(a)' /\ (at'[a] = "lock" => job'[a] # NoJob)
    <3>1. now \in Nat
      BY UiFileAssumption DEF UiInv, UiTypeOK
    <3>2. j \in Jobs /\ j.do = "record_ping_ok" /\ j # NoJob
      BY <2>2, <3>1, JobsMade
    <3>3. /\ at' \in [Actors -> Places] /\ job' \in [Actors -> Jobs] /\ out' \in [Actors -> Outs]
          /\ at'[a] = "lock" /\ job'[a] = j
          /\ \A b \in Actors \ {a} : at'[b] = at[b] /\ job'[b] = job[b] /\ out'[b] = out[b]
      BY <1>1, <2>2, <3>2, WantSteps DEF UiInv
    <3>4. blind' \in [Actors -> BOOLEAN] /\ OthersAt(a)
      BY <2>2, <3>3, Zenon DEF UiInv, UiTypeOK, OthersAt
    <3>5. QED
      BY <3>2, <3>3, <3>4 DEF ToPing
  <2>3. QED
    BY <2>1, <2>2 DEF Send
<1>5. UiTypeOK'
  <2>1. out[a].ui.id \in Instances \cup {UNSET}
    BY <1>1 DEF UiInv, UiTypeOK, Outs, Uis
  <2>2. QED
    BY <1>1, <1>2, <1>4, <2>1 DEF UiInv, UiTypeOK
<1>6. Placed(a)'
  BY <1>1, <1>4 DEF Placed
<1>7. \A b \in Actors : Placed(b)'
  BY <1>1, <1>4, <1>6, OthersPlaced
<1>8. ASSUME ~cut' PROVE FileRight' /\ Heard' /\ ClaimedOnce'
  <2>1. ~cut /\ FileRight /\ Heard /\ ClaimedOnce
    BY <1>1, <1>8 DEF UiInv
  <2>2. out[a].ui.id = file.ui.id /\ file.ui.id # UNSET
    BY <1>1, <2>1 DEF FileRight
  <2>3. \A b \in Actors : at'[b] = "send" => at[b] = "send" /\ out'[b] = out[b]
    BY <1>4 DEF OthersAt
  <2>4. FileRight'
    BY <1>1, <2>1, <2>2, <2>3 DEF FileRight
  <2>5. ASSUME NEW b \in warned, ToPing(b)' PROVE blind'[b]
    <3>1. b \in Actors /\ b # a
      BY <1>4, <2>5 DEF UiInv, UiTypeOK
    <3>2. QED
      BY <1>4, <2>1, <2>5, <3>1 DEF OthersAt, ToPing, Heard
  <2>6. Heard'
    BY <1>1, <1>3, <2>1, <2>5 DEF Heard
  <2>7. ClaimedOnce'
    BY <1>1, <2>1 DEF ClaimedOnce
  <2>8. QED
    BY <2>4, <2>6, <2>7
<1>9. QED
  BY <1>5, <1>7, <1>8 DEF UiInv

LEMMA CutShortKeeps == ASSUME UiInv, NEW a \in Actors, CutShort(a) PROVE UiInv'
<1>1. /\ at[a] # "idle" /\ Done(a) /\ lock' = (IF lock = a THEN UNSET ELSE lock)
      /\ trouble' \in 0..MaxTrouble /\ UNCHANGED <<now, claims, success, hasty, pinged, off, warned, leaked, clicks>>
      /\ tries' = [tries EXCEPT ![a] = 0]
  BY UiFileAssumption DEF CutShort, UiInv, UiTypeOK
<1>2. tries' \in [Actors -> 0..(READ_ATTEMPTS - 1)]
  <2>1. 0 \in 0..(READ_ATTEMPTS - 1) /\ tries \in [Actors -> 0..(READ_ATTEMPTS - 1)]
    BY UiFileAssumption DEF UiInv, UiTypeOK
  <2>2. QED
    BY <1>1, <2>1, Zenon
<1>3. /\ at' \in [Actors -> Places] /\ job' \in [Actors -> Jobs] /\ out' \in [Actors -> Outs]
      /\ blind' \in [Actors -> BOOLEAN] /\ OthersAt(a) /\ at'[a] = "idle" /\ ~ToPing(a)'
  BY <1>1, UiDoneSteps DEF UiInv
<1>4. lock' # a /\ lock' \in {lock, a, UNSET} /\ lock \in {lock', a, UNSET} /\ lock' \in Actors \cup {UNSET}
  BY <1>1, UiBasics DEF UiInv, UiTypeOK
<1>5. Placed(a)'
  BY <1>3, <1>4 DEF Placed
<1>6. CASE UNCHANGED <<file, cut>>
  <2>1. UiTypeOK'
    BY <1>1, <1>2, <1>3, <1>4, <1>6 DEF UiInv, UiTypeOK
  <2>2. QED
    BY <1>1, <1>3, <1>4, <1>5, <1>6, <2>1, QuietStep
<1>7. CASE at[a] = "write" /\ cut' = TRUE /\ file' \in {Empty, Torn}
  <2>1. lock = a
    BY <1>7 DEF UiInv, Placed
  <2>2. file' \in Files
    BY <1>7, UiBasics
  <2>3. cut' \in BOOLEAN /\ cut'
    BY <1>7, Zenon
  <2>4. UiTypeOK'
    BY <1>1, <1>2, <1>3, <1>4, <2>2, <2>3 DEF UiInv, UiTypeOK
  <2>5. \A b \in Actors : Placed(b)'
    BY <1>3, <1>4, <1>5, <2>1, OthersPlaced
  <2>6. QED
    BY <2>3, <2>4, <2>5 DEF UiInv
<1>8. QED
  BY <1>6, <1>7 DEF CutShort

(* What a write leaves in the file is right, whatever it was about.        *)
LEMMA WriteRight ==
    ASSUME UiInv, UiTypeOK', NEW a \in Actors, at[a] = "write", file' = Whole(out[a].ui), lock' = UNSET, OthersAt(a),
           UNCHANGED <<pinged, leaked, cut>>, Remembers(job[a], out[a].yes),
           at'[a] \notin {"lock", "write"}, at'[a] = "send" => job'[a].do = "ensure_id",
           at'[a] = "send" => job[a].do = "ensure_id" /\ out'[a] = out[a] /\ blind'[a] = blind[a],
           job[a].do # "set_enabled" => off' = off, job[a].do = "set_enabled" => off' = ~job[a].on,
           warned' \subseteq warned \/ (at'[a] = "look_again" /\ warned' \subseteq warned \cup {a}),
           warned' # {} => off',
           \/ claims' = claims /\ ~(job[a].do = "claim" /\ out[a].yes)
           \/ claims' = Append(claims, job[a].clock) /\ job[a].do = "claim" /\ out[a].yes
    PROVE  UiInv'
<1> DEFINE j == job[a]
           o == out[a]
           s == file.ui
<1>1. /\ lock = a /\ j \in Jobs /\ j # NoJob /\ s \in Uis /\ o \in Edited(j, s)
      /\ file'.is = "whole" /\ file'.ui = o.ui
  <2>1. lock = a /\ j \in Jobs /\ j # NoJob /\ s \in Uis /\ o \in Edited(j, s) /\ o.ui \in Uis
    BY DEF UiInv, UiTypeOK, Placed, Files, Outs
  <2>2. QED
    BY <2>1, UiBasics
<1>2. /\ j.do = "set_enabled" => o.ui.enabled = j.on /\ o.ui.set
      /\ j.do # "set_enabled" => is_enabled(o.ui) = is_enabled(s)
      /\ o.ui.id = IF j.do = "ensure_id" /\ s.id = UNSET THEN j.id ELSE s.id
      /\ o.ui.try = IF j.do = "claim" /\ should_ping(s, j.clock) THEN j.clock ELSE s.try
      /\ j.do = "claim" => o.yes = should_ping(s, j.clock)
      /\ o.ui.ok = IF j.do = "record_ping_ok" THEN j.clock ELSE s.ok
      /\ j.do # "record_ping_ok" \/ j.next = UNSET => gap(o.ui) = gap(s)
      /\ j.do = "record_ping_ok" /\ j.next # UNSET => gap(o.ui) >= LeastRest(j.next)
  BY <1>1, EditedIs
<1>3. Placed(a)'
  BY UiBasics DEF Placed
<1>4. \A b \in Actors : Placed(b)'
  BY <1>1, <1>3, OthersPlaced
<1>5. ASSUME ~cut' PROVE FileRight' /\ Heard' /\ ClaimedOnce'
  <2>1. ~cut /\ FileRight /\ Heard /\ ClaimedOnce
    BY <1>5 DEF UiInv
  <2>2. off' => ~is_enabled(file'.ui)
    <3>1. CASE j.do = "set_enabled"
      BY <1>1, <1>2, <3>1 DEF is_enabled
    <3>2. CASE j.do # "set_enabled"
      BY <1>1, <1>2, <2>1, <3>2 DEF FileRight
    <3>3. QED
      BY <3>1, <3>2
  <2>3. claims \in Seq(Nat) /\ (claims # <<>> => s.try = claims[Len(claims)])
    BY <2>1 DEF FileRight, UiInv, UiTypeOK
  <2>4. ASSUME claims' = Append(claims, j.clock), j.do = "claim", o.yes
        PROVE  ClaimedOnce' /\ (claims' # <<>> => file'.ui.try = claims'[Len(claims')])
    <3>1. should_ping(s, j.clock) /\ o.ui.try = j.clock /\ j.clock \in Nat
      BY <1>1, <1>2, <2>4, JobKinds
    <3>2. claims' # <<>> => file'.ui.try = claims'[Len(claims')]
      BY <1>1, <2>3, <2>4, <3>1
    <3>3. ASSUME claims # <<>>
          PROVE  j.clock < claims[Len(claims)] \/ j.clock >= claims[Len(claims)] + RETRY_GAP
      <4>1. claims[Len(claims)] \in Nat /\ s.try = claims[Len(claims)]
        BY <2>3, <3>3
      <4>2. j.clock - s.try \notin 0..(RETRY_GAP - 1)
        BY <3>1, <4>1, UiFileAssumption DEF should_ping, within
      <4>3. QED
        BY <3>1, <4>1, <4>2, UiFileAssumption
    <3>4. ASSUME NEW i \in 2..Len(claims')
          PROVE  claims'[i] < claims'[i - 1] \/ claims'[i] >= claims'[i - 1] + RETRY_GAP
      <4>1. i \in 2..(Len(claims) + 1) /\ Len(claims) \in Nat
        BY <2>3, <2>4, <3>1
      <4>2. CASE i = Len(claims) + 1
        <5>1. claims # <<>> /\ claims'[i] = j.clock /\ claims'[i - 1] = claims[Len(claims)]
          BY <2>3, <2>4, <3>1, <4>1, <4>2
        <5>2. QED
          BY <3>3, <5>1
      <4>3. CASE i # Len(claims) + 1
        <5>1. i \in 2..Len(claims) /\ claims'[i] = claims[i] /\ claims'[i - 1] = claims[i - 1]
          BY <2>3, <2>4, <3>1, <4>1, <4>3
        <5>2. QED
          BY <2>1, <5>1, <1>5 DEF ClaimedOnce
      <4>4. QED
        BY <4>2, <4>3
    <3>5. QED
      BY <3>2, <3>4 DEF ClaimedOnce
  <2>5. ASSUME claims' = claims, ~(j.do = "claim" /\ o.yes)
        PROVE  ClaimedOnce' /\ (claims' # <<>> => file'.ui.try = claims'[Len(claims')])
    <3>1. o.ui.try = s.try
      BY <1>2, <2>5
    <3>2. QED
      BY <1>1, <2>1, <2>3, <2>5, <3>1, <1>5 DEF ClaimedOnce
  <2>6. ClaimedOnce' /\ (claims' # <<>> => file'.ui.try = claims'[Len(claims')])
    BY <2>4, <2>5
  <2>7. s.id # UNSET => file'.ui.id = s.id
    BY <1>1, <1>2
  <2>8. pinged' \subseteq {file'.ui.id} /\ (pinged' # {} => file'.ui.id # UNSET)
    BY <2>1, <2>7 DEF FileRight
  <2>9. ASSUME NEW b \in Actors, at'[b] = "send" PROVE out'[b].ui.id = file'.ui.id /\ file'.ui.id # UNSET
    <3>1. CASE b = a
      <4>1. j.do = "ensure_id" /\ out'[a] = o
        BY <2>9, <3>1
      <4>2. j.id # UNSET
        BY <1>1, <4>1, JobKinds, UiFileAssumption
      <4>3. QED
        BY <1>1, <1>2, <3>1, <4>1, <4>2
    <3>2. CASE b # a
      BY <2>1, <2>7, <2>9, <3>2 DEF OthersAt, FileRight
    <3>3. QED
      BY <3>1, <3>2
  <2>a. file'.ui.ok = success'.at /\ gap(file'.ui) >= success'.rest
    <3>1. s.ok = success.at /\ gap(s) >= success.rest
      BY <2>1 DEF FileRight
    <3>2. CASE j.do = "record_ping_ok"
      <4>1. success' = [at |-> j.clock, rest |-> IF j.next = UNSET THEN success.rest ELSE LeastRest(j.next)]
        BY <3>2 DEF Remembers
      <4>2. QED
        BY <1>1, <1>2, <3>1, <3>2, <4>1
    <3>3. CASE j.do # "record_ping_ok"
      <4>1. success' = success
        BY <3>3 DEF Remembers
      <4>2. QED
        BY <1>1, <1>2, <3>1, <3>3, <4>1
    <3>4. QED
      BY <3>2, <3>3
  <2>b. ~hasty'
    <3> SUFFICES ASSUME j.do = "claim", o.yes, success.at # UNSET,
                        j.clock >= success.at, j.clock < success.at + success.rest
                 PROVE  FALSE
      BY <2>1 DEF Heard, Remembers
    <3>1. should_ping(s, j.clock) /\ j.clock \in Nat
      BY <1>1, <1>2, JobKinds
    <3>2. s.ok = success.at /\ gap(s) >= success.rest /\ gap(s) \in Int /\ success.rest \in Int /\ success.at \in Int
      BY <1>1, <2>1, GapIs DEF FileRight, UiInv, UiTypeOK, Times
    <3>3. ~(j.clock - s.ok \in 0..(gap(s) - 1))
      BY <3>1, <3>2 DEF should_ping, within
    <3>4. QED
      BY <3>1, <3>2, <3>3
  <2>10. FileRight'
    BY <1>1, <2>2, <2>6, <2>8, <2>9, <2>a DEF FileRight
  <2>11. ASSUME NEW b \in warned', ToPing(b)' PROVE blind'[b]
    <3>1. b \in Actors
      BY DEF UiTypeOK
    <3>2. CASE b = a
      <4>1. at'[a] = "send"
        BY <2>11, <3>2 DEF ToPing
      <4>2. ToPing(a) /\ a \in warned /\ blind'[a] = blind[a]
        BY <2>11, <3>2, <4>1 DEF ToPing
      <4>3. QED
        BY <2>1, <3>2, <4>2 DEF Heard
    <3>3. CASE b # a
      BY <2>1, <2>11, <3>1, <3>3 DEF OthersAt, ToPing, Heard
    <3>4. QED
      BY <3>2, <3>3
  <2>12. Heard'
    BY <2>1, <2>11, <2>b DEF Heard
  <2>13. QED
    BY <2>6, <2>10, <2>12
<1>6. QED
  BY <1>4, <1>5 DEF UiInv

LEMMA RemembersTypes ==
    ASSUME UiInv, NEW j \in Jobs, j # NoJob, NEW yes \in BOOLEAN, Remembers(j, yes)
    PROVE  success' \in [at : Times, rest : Int] /\ hasty' \in BOOLEAN
<1>1. success \in [at : Times, rest : Int] /\ hasty \in BOOLEAN
  BY DEF UiInv, UiTypeOK
<1>2. hasty' \in BOOLEAN
  BY <1>1, Zenon DEF Remembers
<1>3. CASE j.do = "record_ping_ok"
  <2>1. j.clock \in Times /\ (j.next = UNSET \/ j.next \in Int)
    BY <1>3, JobKinds, UiFileAssumption DEF Times
  <2>2. j.next \in Int => LeastRest(j.next) \in Int
    BY JitterIsTime
  <2>3. success' = [at |-> j.clock, rest |-> IF j.next = UNSET THEN success.rest ELSE LeastRest(j.next)]
    BY <1>3 DEF Remembers
  <2>4. QED
    BY <1>1, <1>2, <2>1, <2>2, <2>3
<1>4. CASE j.do # "record_ping_ok"
  BY <1>1, <1>2, <1>4 DEF Remembers
<1>5. QED
  BY <1>3, <1>4

LEMMA WriteBackKeeps == ASSUME UiInv, NEW a \in Actors, write_back(a) PROVE UiInv'
<1>1. /\ at[a] = "write" /\ file' = Whole(out[a].ui) /\ lock' = UNSET
      /\ UNCHANGED <<now, tries, pinged, leaked, clicks, cut, trouble>>
      /\ Remembers(job[a], out[a].yes)
  BY DEF write_back
<1>2. job[a] \in Jobs /\ job[a] # NoJob /\ out[a] \in Outs /\ file' \in Files /\ lock' \in Actors \cup {UNSET}
  <2>1. job[a] \in Jobs /\ job[a] # NoJob /\ out[a] \in Outs /\ out[a].ui \in Uis
    BY <1>1 DEF UiInv, UiTypeOK, Placed, Outs
  <2>2. QED
    BY <1>1, <2>1, UiBasics
<1>a. success' \in [at : Times, rest : Int] /\ hasty' \in BOOLEAN
  <2>1. out[a].yes \in BOOLEAN
    BY <1>2 DEF Outs
  <2>2. QED
    BY <1>1, <1>2, <2>1, RemembersTypes
<1>3. ASSUME job[a].do = "claim", out[a].yes,
             claims' = Append(claims, job[a].clock), at' = [at EXCEPT ![a] = "look_again"],
             warned' = IF off THEN warned \cup {a} ELSE warned \ {a},
             UNCHANGED <<job, out, blind, off>>
      PROVE  UiInv'
  <2>1. job[a].clock \in Nat
    BY <1>2, <1>3, JobKinds
  <2>2. claims' \in Seq(Nat) /\ at' \in [Actors -> Places] /\ at'[a] = "look_again" /\ OthersAt(a) /\ warned' \subseteq Actors
    BY <1>3, <2>1 DEF UiInv, UiTypeOK, Places, OthersAt
  <2>3. UiTypeOK'
    BY <1>1, <1>a, <1>2, <1>3, <2>2 DEF UiInv, UiTypeOK
  <2>4. CASE cut
    <3>1. Placed(a)' /\ lock = a
      BY <1>1, <2>2, UiBasics DEF UiInv, Placed
    <3>2. QED
      BY <1>1, <2>2, <2>3, <2>4, <3>1, OthersPlaced DEF UiInv
  <2>5. CASE ~cut
    <3>1. warned' # {} => off'
      BY <1>3, <2>5 DEF UiInv, Heard
    <3>2. warned' \subseteq warned \/ (at'[a] = "look_again" /\ warned' \subseteq warned \cup {a})
      BY <1>3, <2>2
    <3>3. QED
      BY <1>1, <1>3, <2>2, <2>3, <3>1, <3>2, WriteRight
  <2>6. QED
    BY <2>4, <2>5
<1>4. ASSUME job[a].do = "ensure_id", at' = [at EXCEPT ![a] = "send"], UNCHANGED <<job, out, blind, claims, off, warned>>
      PROVE  UiInv'
  <2>1. at' \in [Actors -> Places] /\ at'[a] = "send" /\ OthersAt(a)
    BY <1>4 DEF UiInv, UiTypeOK, Places, OthersAt
  <2>2. UiTypeOK'
    BY <1>1, <1>a, <1>2, <1>4, <2>1 DEF UiInv, UiTypeOK
  <2>3. CASE cut
    <3>1. Placed(a)' /\ lock = a
      BY <1>1, <1>4, <2>1, UiBasics DEF UiInv, Placed
    <3>2. QED
      BY <1>1, <2>1, <2>2, <2>3, <3>1, OthersPlaced DEF UiInv
  <2>4. CASE ~cut
    <3>1. warned' # {} => off'
      BY <1>4, <2>4 DEF UiInv, Heard
    <3>2. QED
      BY <1>1, <1>4, <2>1, <2>2, <3>1, WriteRight
  <2>5. QED
    BY <2>3, <2>4
<1>5. ASSUME Done(a), claims' = claims, ~(job[a].do = "claim" /\ out[a].yes), off' \in BOOLEAN, warned' \subseteq warned,
             job[a].do # "set_enabled" => off' = off, job[a].do = "set_enabled" => off' = ~job[a].on,
             ~cut => (warned' # {} => off')
      PROVE  UiInv'
  <2>1. /\ at' \in [Actors -> Places] /\ job' \in [Actors -> Jobs] /\ out' \in [Actors -> Outs]
        /\ blind' \in [Actors -> BOOLEAN] /\ OthersAt(a) /\ at'[a] = "idle"
    BY <1>5, UiDoneSteps DEF UiInv
  <2>2. UiTypeOK'
    BY <1>1, <1>a, <1>2, <1>5, <2>1 DEF UiInv, UiTypeOK
  <2>3. CASE cut
    <3>1. Placed(a)' /\ lock = a
      BY <1>1, <2>1, UiBasics DEF UiInv, Placed
    <3>2. QED
      BY <1>1, <2>1, <2>2, <2>3, <3>1, OthersPlaced DEF UiInv
  <2>4. CASE ~cut
    BY <1>1, <1>5, <2>1, <2>2, <2>4, WriteRight
  <2>5. QED
    BY <2>3, <2>4
<1>6. ASSUME job[a].do = "set_enabled", off' = ~job[a].on, warned' = (IF job[a].on THEN {} ELSE warned), Done(a),
             UNCHANGED claims
      PROVE  UiInv'
  <2>1. job[a].on \in BOOLEAN
    BY <1>2, <1>6, JobKinds
  <2>2. off' \in BOOLEAN /\ warned' \subseteq warned /\ (warned' # {} => off')
    BY <1>6, <2>1
  <2>3. QED
    BY <1>5, <1>6, <2>2
<1>7. ASSUME Done(a), UNCHANGED <<claims, off, warned>>, ~(job[a].do = "claim" /\ out[a].yes), job[a].do # "set_enabled"
      PROVE  UiInv'
  <2>1. off' \in BOOLEAN /\ (~cut => (warned' # {} => off'))
    BY <1>7 DEF UiInv, UiTypeOK, Heard
  <2>2. QED
    BY <1>5, <1>7, <2>1
<1>8. CASE job[a].do = "claim" /\ out[a].yes
  BY <1>3, <1>8 DEF write_back
<1>9. CASE job[a].do = "ensure_id"
  BY <1>4, <1>9 DEF write_back
<1>10. CASE job[a].do = "set_enabled"
  BY <1>6, <1>10 DEF write_back
<1>11. CASE ~(job[a].do = "claim" /\ out[a].yes) /\ job[a].do \notin {"ensure_id", "set_enabled"}
  BY <1>7, <1>11 DEF write_back
<1>12. QED
  BY <1>8, <1>9, <1>10, <1>11

-----------------------------------------------------------------------------
LEMMA UiStep == UiInv /\ [UiNext]_ui_vars => UiInv'
<1> SUFFICES ASSUME UiInv, [UiNext]_ui_vars PROVE UiInv'
  OBVIOUS
<1>1. CASE UNCHANGED ui_vars
  <2>1. UNCHANGED <<now, file, lock, at, job, out, tries, blind, claims, success, hasty, pinged, off, warned, leaked, clicks, cut, trouble>>
    BY <1>1 DEF ui_vars
  <2>2. UiTypeOK' /\ \A a \in Actors : Placed(a)'
    BY <2>1 DEF UiInv, UiTypeOK, Placed
  <2>3. ASSUME ~cut' PROVE FileRight' /\ Heard' /\ ClaimedOnce'
    BY <2>1, <2>3 DEF UiInv, FileRight, Heard, ClaimedOnce, ToPing
  <2>4. QED
    BY <2>2, <2>3 DEF UiInv
<1>2. CASE UiNext
  BY <1>2, TickKeeps, SetEnabledKeeps, BeatKeeps, LoadKeeps, SendKeeps, LockKeeps, WriteBackKeeps, CutShortKeeps DEF UiNext
<1>3. QED
  BY <1>1, <1>2

(* One ping for all instances in each retry gap and none within the rest   *)
(* due after an answered one, none after the user's refusal but from who   *)
(* could not read it, one id, and a whole file, unless a write was cut     *)
(* short: for any number of instances, whatever the clock and the server   *)
(* say (update_ui_json, with_file_lock, spawn_ping).                       *)
THEOREM SettingsFileIsRight == UiSpec => []SettingsFileHolds
<1>1. UiInit => UiInv
  BY UiInit_Inv
<1>2. UiInv /\ [UiNext]_ui_vars => UiInv'
  BY UiStep
<1>3. UiInv => SettingsFileHolds
  <2> SUFFICES ASSUME UiInv PROVE SettingsFileHolds
    OBVIOUS
  <2>1. OneIdentity
    <3> SUFFICES ASSUME ~cut PROVE ~(Cardinality(pinged) > 1)
      BY DEF OneIdentity
    <3>1. pinged \subseteq {file.ui.id}
      BY DEF UiInv, FileRight
    <3>2. Cardinality({file.ui.id}) = 1 /\ IsFiniteSet({file.ui.id})
      BY FS_Singleton
    <3>3. Cardinality(pinged) \in Nat /\ Cardinality(pinged) <= 1
      BY <3>1, <3>2, FS_Subset, FS_CardinalityType
    <3>4. QED
      BY <3>3
  <2>2. OptOutHolds /\ RestsAfterSuccess /\ ClaimedOnce /\ WholeWhenFree
    BY DEF UiInv, Heard, FileRight, OptOutHolds, RestsAfterSuccess, ClaimedOnce, WholeWhenFree
  <2>3. QED
    BY <2>1, <2>2 DEF UiInv, SettingsFileHolds
<1>4. QED
  BY <1>1, <1>2, <1>3, PTL DEF UiSpec

-----------------------------------------------------------------------------
(* The answer to the click                                                 *)

Time == Nat \cup {NONE}
Copies == [attempt : Time, check : Time, error : BOOLEAN, pending : BOOLEAN]

AboutTypes ==
    /\ tab_now \in Nat
    /\ disk \in Copies
    /\ view \in [at : {NONE}] \cup [at : Nat, disk : Copies]
    /\ ui \in [busy : Time, mark : Time, install : Time]
    /\ asked \in [at : {"none", "waits", "runs", "done"}, since : Nat]
    /\ other \in {"none", "runs"}
    /\ begun \subseteq {"other", "asked"} /\ fresh \in BOOLEAN /\ stale \in BOOLEAN

(* Nothing on the disk is of later than now, and one check runs at a time: *)
(* they hold the updater's mutex.                                          *)
OneCheck ==
    /\ disk.attempt <= Seconds(tab_now) /\ disk.check <= Seconds(tab_now)
    /\ ~(other = "runs" /\ asked.at = "runs")

(* No answer yet: the attempt is the one the click found, or a newer one   *)
(* that has not ended.                                                     *)
Unanswered(st) == st.attempt = ui.mark \/ (~st.error /\ st.check < st.attempt)

(* Until a check of after the click has ended, neither the files nor the   *)
(* copy of them look like an answer; an attempt that is new is that of a   *)
(* check begun since, which is under way or was cut short.                 *)
Awaited ==
    /\ Unanswered(disk)
    /\ view.at # NONE => Unanswered(view.disk)
    /\ disk.attempt # ui.mark =>
          /\ asked.at # "waits"
          /\ other = "runs" => "other" \in begun
          /\ asked.at = "runs" => "asked" \in begun

Waiting == ui.busy # NONE /\ ~fresh /\ ~stale

AboutInv == AboutTypes /\ OneCheck /\ (Waiting => Awaited)

LEMMA SecondsPass ==
    /\ \A t \in Nat : Seconds(t) \in Nat /\ Seconds(t) <= Seconds(t + 1)
    /\ NONE \in Int /\ NONE < 0
BY DEF Seconds, NONE

LEMMA AboutInit_Inv == AboutInit => AboutInv
<1> SUFFICES ASSUME AboutInit PROVE AboutInv
  OBVIOUS
<1>1. Seconds(0) \in Nat
  BY SecondsPass
<1>2. NONE <= Seconds(0)
  BY <1>1, SecondsPass
<1>3. AboutTypes
  BY DEF AboutInit, AboutTypes, Copies, Time
<1>4. OneCheck
  BY <1>2 DEF AboutInit, OneCheck
<1>5. ~Waiting
  BY DEF AboutInit, Waiting
<1>6. QED
  BY <1>3, <1>4, <1>5 DEF AboutInv

(* A check begins: nobody else's runs, and what it writes first is newer   *)
(* than the end of the last, unless they share a second.                   *)
LEMMA BeginsKeeps ==
    ASSUME AboutInv, Begins, UNCHANGED <<tab_now, view, ui, fresh>>,
           other' \in {"none", "runs"}, asked' \in [at : {"none", "runs", "done"}, since : Nat],
           other' = "none" \/ asked'.at # "runs",
           begun' = {} \/ begun' \subseteq {"other", "asked"},
           ui.busy # NONE => /\ other' = "runs" => "other" \in begun'
                             /\ asked'.at = "runs" => "asked" \in begun'
    PROVE  AboutInv'
<1> DEFINE s == Seconds(tab_now)
<1>1. /\ disk \in Copies /\ tab_now \in Nat /\ s \in Nat
      /\ disk.check \in Int /\ disk.check <= s
  BY SecondsPass DEF AboutInv, AboutTypes, OneCheck, Copies, Time
<1>2. /\ disk' \in Copies
      /\ disk'.attempt = s /\ disk'.error = FALSE /\ disk'.check = disk.check
  BY <1>1 DEF Begins, Copies, Time
<1>3. /\ stale' \in BOOLEAN
      /\ ~stale' => ~stale /\ (ui.busy # NONE => disk.check # s)
  BY DEF Begins, AboutInv, AboutTypes
<1>4. AboutTypes'
  BY <1>2, <1>3 DEF AboutInv, AboutTypes
<1>5. s <= s
  BY <1>1
<1>6. OneCheck'
  <2>1. Seconds(tab_now') = s
    OBVIOUS
  <2>2. QED
    BY <1>1, <1>2, <1>5, <2>1 DEF OneCheck
<1>7. ASSUME Waiting' PROVE Awaited'
  <2>1. Waiting /\ disk.check # s
    BY <1>3, <1>7 DEF Waiting
  <2>2. Awaited
    BY <2>1 DEF AboutInv
  <2>3. disk.check < s
    BY <1>1, <2>1
  <2>4. Unanswered(disk)'
    BY <1>2, <2>3 DEF Unanswered
  <2>5. (view.at # NONE => Unanswered(view.disk))'
    BY <2>2 DEF Awaited, Unanswered
  <2>6. asked'.at # "waits" /\ ui.busy # NONE
    BY <1>7 DEF Waiting
  <2>7. QED
    BY <2>4, <2>5, <2>6 DEF Awaited
<1>8. QED
  BY <1>4, <1>6, <1>7 DEF AboutInv

(* A check ends: if it was not begun since the click, the attempt is still *)
(* the one the click found.                                                *)
LEMMA EndsKeeps ==
    ASSUME AboutInv, NEW who \in {"other", "asked"}, Ends(who),
           UNCHANGED <<tab_now, view, ui, stale>>,
           IF who = "other" THEN other = "runs" /\ other' = "none" /\ UNCHANGED asked
           ELSE asked.at = "runs" /\ asked' = [asked EXCEPT !.at = "done"] /\ UNCHANGED other
    PROVE  AboutInv'
<1> DEFINE s == Seconds(tab_now)
<1>1. /\ disk \in Copies /\ tab_now \in Nat /\ s \in Nat
      /\ asked \in [at : {"none", "waits", "runs", "done"}, since : Nat]
      /\ disk.attempt \in Int /\ disk.check \in Int /\ disk.check <= s /\ disk.attempt <= s
      /\ begun \subseteq {"other", "asked"} /\ fresh \in BOOLEAN
  BY SecondsPass DEF AboutInv, AboutTypes, OneCheck, Copies, Time
<1>2. /\ disk' \in Copies
      /\ disk'.attempt = disk.attempt /\ disk'.check \in {s, disk.check}
  BY <1>1 DEF Ends, Copies, Time
<1>3. /\ fresh' \in BOOLEAN /\ begun' \subseteq {"other", "asked"}
      /\ ~fresh' => ~fresh /\ who \notin begun /\ begun' = begun
  BY <1>1 DEF Ends
<1>4. /\ other' \in {"none", "runs"} /\ asked' \in [at : {"none", "waits", "runs", "done"}, since : Nat]
      /\ other' = "runs" => other = "runs"
      /\ asked'.at = "runs" => asked.at = "runs"
      /\ asked'.at = "waits" => asked.at = "waits"
  BY <1>1 DEF AboutInv, AboutTypes
<1>5. AboutTypes'
  BY <1>2, <1>3, <1>4 DEF AboutInv, AboutTypes
<1>6. s <= s
  BY <1>1
<1>7. OneCheck'
  <2>1. Seconds(tab_now') = s
    OBVIOUS
  <2>2. ~(other' = "runs" /\ asked'.at = "runs")
    BY <1>4 DEF AboutInv, OneCheck
  <2>3. QED
    BY <1>1, <1>2, <1>6, <2>1, <2>2 DEF OneCheck
<1>8. ASSUME Waiting' PROVE Awaited'
  <2>1. Waiting /\ who \notin begun /\ begun' = begun
    BY <1>3, <1>8 DEF Waiting
  <2>2. Awaited
    BY <2>1 DEF AboutInv
  <2>3. disk.attempt = ui.mark
    BY <2>1, <2>2 DEF Awaited
  <2>4. Unanswered(disk)' /\ (view.at # NONE => Unanswered(view.disk))'
    BY <1>2, <2>2, <2>3 DEF Awaited, Unanswered
  <2>5. QED
    BY <1>2, <2>3, <2>4 DEF Awaited
<1>9. QED
  BY <1>5, <1>7, <1>8 DEF AboutInv

LEMMA CheckSteps ==
    ASSUME AboutInv, OtherBegins \/ OtherEnds \/ AskedBegins \/ AskedEnds PROVE AboutInv'
<1>1. asked \in [at : {"none", "waits", "runs", "done"}, since : Nat]
  BY DEF AboutInv, AboutTypes
<1>2. begun \subseteq {"other", "asked"}
  BY DEF AboutInv, AboutTypes
<1>3. CASE OtherBegins
  <2>1. asked \in [at : {"none", "runs", "done"}, since : Nat] /\ asked.at # "runs"
    BY <1>1, <1>3 DEF OtherBegins
  <2>2. QED
    BY <1>2, <1>3, <2>1, BeginsKeeps DEF OtherBegins, Updaters
<1>4. CASE AskedBegins
  <2>1. asked' \in [at : {"none", "runs", "done"}, since : Nat] /\ other' = "none"
    BY <1>1, <1>4 DEF AskedBegins
  <2>2. QED
    BY <1>2, <1>4, <2>1, BeginsKeeps DEF AskedBegins, Updaters
<1>5. CASE OtherEnds
  BY <1>5, EndsKeeps DEF OtherEnds, Updaters
<1>6. CASE AskedEnds
  BY <1>6, EndsKeeps DEF AskedEnds, Updaters
<1>7. QED
  BY <1>3, <1>4, <1>5, <1>6

LEMMA GivesUpKeeps == ASSUME AboutInv, AskedGivesUp PROVE AboutInv'
<1>1. /\ disk \in Copies /\ asked \in [at : {"none", "waits", "runs", "done"}, since : Nat]
      /\ asked.at = "waits" /\ asked' = [asked EXCEPT !.at = "done"]
  BY DEF AboutInv, AboutTypes, AskedGivesUp
<1>2. disk' \in Copies /\ disk'.attempt = disk.attempt /\ disk'.check = disk.check
  BY <1>1 DEF AskedGivesUp, Copies
<1>3. UNCHANGED <<tab_now, view, ui, other, fresh, begun, stale>>
  BY DEF AskedGivesUp, Updaters
<1>4. asked' \in [at : {"none", "waits", "runs", "done"}, since : Nat] /\ asked'.at = "done"
  BY <1>1
<1>5. AboutTypes'
  BY <1>2, <1>3, <1>4 DEF AboutInv, AboutTypes
<1>6. OneCheck'
  BY <1>2, <1>3, <1>4 DEF AboutInv, OneCheck
<1>7. ASSUME Waiting' PROVE Awaited'
  <2>1. Awaited
    BY <1>3, <1>7 DEF AboutInv, Waiting
  <2>2. disk.attempt = ui.mark
    BY <1>1, <2>1 DEF Awaited
  <2>3. QED
    BY <1>2, <1>3, <2>1, <2>2 DEF Awaited, Unanswered
<1>8. QED
  BY <1>5, <1>6, <1>7 DEF AboutInv

LEMMA InstalledKeeps == ASSUME AboutInv, Installed PROVE AboutInv'
<1>1. disk \in Copies
  BY DEF AboutInv, AboutTypes
<1>2. /\ disk' \in Copies
      /\ disk'.attempt = disk.attempt /\ disk'.check = disk.check /\ disk'.error = disk.error
  BY <1>1 DEF Installed, Copies
<1>3. UNCHANGED <<tab_now, view, ui, other, asked, fresh, begun, stale>>
  BY DEF Installed, Updaters
<1>4. AboutTypes' /\ OneCheck'
  BY <1>2, <1>3 DEF AboutInv, AboutTypes, OneCheck
<1>5. (Waiting => Awaited)'
  BY <1>2, <1>3 DEF AboutInv, Waiting, Awaited, Unanswered
<1>6. QED
  BY <1>4, <1>5 DEF AboutInv

(* A frame reads what is on the disk, or keeps its copy.                   *)
LEMMA FrameReads ==
    ASSUME AboutInv, Frame
    PROVE  /\ view' \in [at : Nat, disk : Copies] /\ view'.at # NONE
           /\ view'.disk = disk \/ (view.at # NONE /\ view'.disk = view.disk)
<1>1. tab_now \in Nat /\ disk \in Copies /\ view \in [at : {NONE}] \cup [at : Nat, disk : Copies]
  BY DEF AboutInv, AboutTypes
<1>2. view' = refresh_update_view
  BY DEF Frame
<1>3. view' = [at |-> tab_now, disk |-> disk] \/ (view.at # NONE /\ view' = view)
  BY <1>2 DEF refresh_update_view
<1>4. QED
  BY <1>1, <1>3, SecondsPass

LEMMA FrameKeeps == ASSUME AboutInv, Frame PROVE AboutInv'
<1>1. /\ UNCHANGED <<tab_now, disk, asked, other>>
      /\ ui'.mark = ui.mark /\ ui'.busy \in {ui.busy, NONE}
      /\ ui' \in [busy : Time, mark : Time, install : Time]
      /\ fresh' \in BOOLEAN /\ stale' \in BOOLEAN /\ begun' \subseteq {"other", "asked"}
      /\ ui'.busy # NONE => fresh' = fresh /\ stale' = stale /\ begun' = begun
  <2>1. /\ ui \in [busy : Time, mark : Time, install : Time] /\ begun \subseteq {"other", "asked"}
        /\ fresh \in BOOLEAN /\ stale \in BOOLEAN
    BY DEF AboutInv, AboutTypes
  <2>2. NONE \in Time
    BY DEF Time
  <2>3. PICK over \in BOOLEAN, rests \in BOOLEAN :
           /\ ui' = [ui EXCEPT !.busy = IF over THEN NONE ELSE @, !.install = IF rests THEN NONE ELSE @]
           /\ fresh' = (fresh /\ ~over) /\ stale' = (stale /\ ~over)
           /\ begun' = (IF over THEN {} ELSE begun)
    BY DEF Frame
  <2>4. /\ ui' \in [busy : Time, mark : Time, install : Time]
        /\ ui'.mark = ui.mark /\ ui'.busy = (IF over THEN NONE ELSE ui.busy)
    BY <2>1, <2>2, <2>3
  <2>5. UNCHANGED <<tab_now, disk, asked, other>>
    BY DEF Frame
  <2>6. QED
    BY <2>1, <2>3, <2>4, <2>5
<1>2. AboutTypes' /\ OneCheck'
  BY <1>1, FrameReads DEF AboutInv, AboutTypes, OneCheck
<1>3. ASSUME Waiting' PROVE Awaited'
  <2>1. Awaited /\ begun' = begun
    BY <1>1, <1>3 DEF AboutInv, Waiting
  <2>2. Unanswered(disk) /\ Unanswered(view'.disk)
    BY <2>1, FrameReads DEF Awaited
  <2>3. QED
    BY <1>1, <2>1, <2>2 DEF Awaited, Unanswered
<1>4. QED
  BY <1>2, <1>3 DEF AboutInv

LEMMA CheckNowKeeps == ASSUME AboutInv, CheckNow PROVE AboutInv'
<1>1. /\ tab_now \in Nat /\ disk \in Copies /\ view \in [at : Nat, disk : Copies]
      /\ ui \in [busy : Time, mark : Time, install : Time]
  BY DEF AboutInv, AboutTypes, CheckNow, Click
<1>2. /\ ui' = [ui EXCEPT !.busy = tab_now, !.mark = view.disk.attempt]
      /\ view' = [at |-> NONE] /\ asked' = [at |-> "waits", since |-> tab_now]
      /\ fresh' = FALSE /\ begun' = {} /\ stale' = (disk.attempt # view.disk.attempt)
      /\ UNCHANGED <<tab_now, disk, other>>
  BY DEF CheckNow
<1>3. ui' \in [busy : Time, mark : Time, install : Time] /\ ui'.mark = view.disk.attempt
  BY <1>1, <1>2 DEF Copies, Time
<1>4. AboutTypes' /\ OneCheck'
  BY <1>1, <1>2, <1>3 DEF AboutInv, AboutTypes, OneCheck
<1>5. ~stale' => disk'.attempt = ui'.mark
  BY <1>2, <1>3
<1>6. (Waiting => Awaited)'
  BY <1>2, <1>5 DEF Waiting, Awaited, Unanswered
<1>7. QED
  BY <1>4, <1>6 DEF AboutInv

LEMMA PressKeeps == ASSUME AboutInv, Install \/ ReportQueued \/ Moves PROVE AboutInv'
<1>1. UNCHANGED <<tab_now, disk, asked, other, fresh, begun, stale>>
  BY DEF Install, ReportQueued, Moves
<1>2. /\ view' \in {view, [at |-> NONE]}
      /\ ui' \in [busy : Time, mark : Time, install : Time] /\ ui'.busy = ui.busy /\ ui'.mark = ui.mark
  BY DEF Install, ReportQueued, Moves, AboutInv, AboutTypes, Time
<1>3. AboutTypes' /\ OneCheck'
  BY <1>1, <1>2 DEF AboutInv, AboutTypes, OneCheck
<1>4. ASSUME Waiting' PROVE Awaited'
  <2>1. Awaited
    BY <1>1, <1>2, <1>4 DEF AboutInv, Waiting
  <2>2. QED
    BY <1>1, <1>2, <2>1 DEF Awaited, Unanswered
<1>5. QED
  BY <1>3, <1>4 DEF AboutInv

LEMMA HalfSecondKeeps == ASSUME AboutInv, HalfSecond PROVE AboutInv'
<1>1. /\ tab_now \in Nat /\ tab_now' = tab_now + 1 /\ disk.attempt \in Int /\ disk.check \in Int
  BY DEF HalfSecond, AboutInv, AboutTypes, Copies, Time, NONE
<1>2. /\ Seconds(tab_now) \in Nat /\ Seconds(tab_now') \in Nat
      /\ Seconds(tab_now) <= Seconds(tab_now')
  BY <1>1, SecondsPass
<1>3. UNCHANGED <<disk, view, ui, asked, other, fresh, begun, stale>>
  BY DEF HalfSecond
<1>4. disk'.attempt <= Seconds(tab_now') /\ disk'.check <= Seconds(tab_now')
  BY <1>1, <1>2, <1>3 DEF AboutInv, OneCheck
<1>5. AboutTypes' /\ OneCheck'
  BY <1>1, <1>3, <1>4 DEF AboutInv, AboutTypes, OneCheck
<1>6. (Waiting => Awaited)'
  BY <1>3 DEF AboutInv, Waiting, Awaited, Unanswered
<1>7. QED
  BY <1>5, <1>6 DEF AboutInv

LEMMA AboutStep == AboutInv /\ [AboutNext]_about_vars => AboutInv'
<1> SUFFICES ASSUME AboutInv, [AboutNext]_about_vars PROVE AboutInv'
  OBVIOUS
<1>1. CASE AboutNext
  BY <1>1, CheckSteps, GivesUpKeeps, InstalledKeeps, FrameKeeps, CheckNowKeeps, PressKeeps,
     HalfSecondKeeps DEF AboutNext
<1>2. CASE UNCHANGED about_vars
  BY <1>2 DEF about_vars, AboutInv, AboutTypes, OneCheck, Waiting, Awaited, Unanswered
<1>3. QED
  BY <1>1, <1>2

(* What ends the wait as an answer is one: for any patience, any number of *)
(* clicks and checks, and however old the copy is that a frame looks at,   *)
(* unless the copy the click was compared with was behind or two checks    *)
(* share a second (update_row, poll_check_busy, check::run).               *)
THEOREM ClicksAreAnswered == AboutSpec => AnswersTheClick
<1>1. AboutInit => AboutInv
  BY AboutInit_Inv
<1>2. AboutInv /\ [AboutNext]_about_vars => AboutInv'
  BY AboutStep
<1>3. AboutInv /\ [AboutNext]_about_vars =>
        [ui.busy # NONE /\ ui'.busy = NONE /\ poll_check_busy(view'.disk) = "ran"
            => fresh \/ stale]_about_vars
  <2> SUFFICES ASSUME AboutInv, AboutNext, ui.busy # NONE, ui'.busy = NONE,
                      poll_check_busy(view'.disk) = "ran", ~fresh, ~stale
               PROVE  FALSE
    BY DEF about_vars
  <2>1. Awaited
    BY DEF AboutInv, Waiting
  <2>2. ui # ui' /\ ~CheckNow /\ ~Install
    <3>1. tab_now \in Nat /\ tab_now # NONE
      BY SecondsPass DEF AboutInv, AboutTypes
    <3>2. ui \in [busy : Time, mark : Time, install : Time]
      BY DEF AboutInv, AboutTypes
    <3>3. ~CheckNow /\ ~Install
      BY <3>1, <3>2 DEF CheckNow, Install
    <3>4. QED
      BY <3>3
  <2>3. Frame
    BY <2>2 DEF AboutNext, OtherBegins, OtherEnds, AskedBegins, AskedGivesUp, AskedEnds, Installed,
                Moves, ReportQueued, HalfSecond, Updaters
  <2>4. Unanswered(view'.disk) /\ view'.disk \in Copies
    BY <2>1, <2>3, FrameReads DEF Awaited
  <2>5. finished(view'.disk) /\ ~view'.disk.pending
    BY DEF poll_check_busy
  <2>6. ran(view'.disk) /\ (view'.disk.error \/ view'.disk.check >= view'.disk.attempt)
    BY <2>5 DEF finished
  <2>7. view'.disk.check \in Int /\ view'.disk.attempt \in Int
    BY <2>4 DEF Copies, Time, NONE
  <2>8. QED
    BY <2>4, <2>6, <2>7 DEF Unanswered, ran
<1>4. QED
  BY <1>1, <1>2, <1>3, PTL DEF AboutSpec, AnswersTheClick

(* The note about a report is true, whoever sends, gives up or prunes it,  *)
(* and whenever a frame looks (poll_send, outbox_file).                    *)
THEOREM NotesAreTrue == AboutSpec => []ReportsTruly
<1>1. AboutInit => AboutInv /\ ReportsTruly
  BY AboutInit_Inv DEF AboutInit, ReportsTruly
<1>2. AboutInv /\ ReportsTruly /\ [AboutNext]_about_vars => ReportsTruly'
  <2> SUFFICES ASSUME AboutInv, ReportsTruly, [AboutNext]_about_vars PROVE ReportsTruly'
    OBVIOUS
  <2>1. ASSUME UNCHANGED <<item, watch, note>> PROVE ReportsTruly'
    BY <2>1 DEF ReportsTruly
  <2>2. CASE Frame
    <3>1. UNCHANGED item /\ poll_watch
      BY <2>2 DEF Frame
    <3>2. CASE watch = NONE
      BY <2>1, <3>1, <3>2 DEF poll_watch
    <3>3. CASE watch # NONE
      BY <3>1, <3>3 DEF poll_watch, ReportsTruly
    <3>4. QED
      BY <3>2, <3>3
  <2>3. CASE ReportQueued
    <3>1. tab_now # NONE
      BY SecondsPass DEF AboutInv, AboutTypes
    <3>2. QED
      BY <2>3, <3>1 DEF ReportQueued, ReportsTruly
  <2>4. CASE Moves
    BY <2>4 DEF Moves, ReportsTruly
  <2>5. CASE OtherBegins \/ OtherEnds \/ AskedBegins \/ AskedGivesUp \/ AskedEnds \/ Installed
    BY <2>1, <2>5
    DEF OtherBegins, OtherEnds, AskedBegins, AskedGivesUp, AskedEnds, Installed, Updaters
  <2>6. CASE CheckNow \/ Install \/ HalfSecond \/ UNCHANGED about_vars
    BY <2>1, <2>6 DEF CheckNow, Install, HalfSecond, about_vars
  <2>7. QED
    BY <2>2, <2>3, <2>4, <2>5, <2>6 DEF AboutNext
<1>3. AboutInv /\ [AboutNext]_about_vars => AboutInv'
  BY AboutStep
<1>4. QED
  BY <1>1, <1>2, <1>3, PTL DEF AboutSpec
=============================================================================
