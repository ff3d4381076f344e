---------------------------- MODULE Engine_proofs ----------------------------
(***************************************************************************)
(* What Engine.tla promises at every instant, for any faults, any length   *)
(* of SETTLE_MIN_S and any number of losses.                               *)
(*                                                                         *)
(* The safety invariants are not inductive one by one: which error a       *)
(* reader may see depends on where the thread stands, and how many         *)
(* reconnects are counted depends on what it has met.  IInv says, for each *)
(* place the thread can stand at, what the metrics, the audio client and   *)
(* the counts are there.                                                   *)
(***************************************************************************)
EXTENDS Engine, TLAPS

(* Before the first write of a worker, and while it plays.                 *)
Opening == {"loop", "open", "opened", "prime", "sleep"}
Playing == {"set_running", "running", "publish"}

(* The owner and the thread.                                               *)
OwnerInv ==
    /\ owner = "new" => pc = "none"
    /\ owner = "starting" => pc # "none"
    /\ owner # "new" /\ pc = "none" => state = "Failed"
    /\ owner = "done" => pc \in {"none", "ended"}

(* What the metrics show where.                                            *)
ReportInv ==
    /\ pc = "none" /\ owner = "new" => state = "Priming"
    /\ pc \in Opening => state \in {"Priming", "Reconnecting"}
    /\ pc \in {"priming", "startup", "set_running"} => state = "Priming"
    /\ pc \in {"running", "publish"} => state = "Running"
    /\ pc \in Playing => last_error = Absent
    /\ pc \in {"lost", "failed"} =>
          /\ fault \in Faults
          /\ state \in {"Priming", "Running", "Reconnecting"}
          /\ state = "Running" => last_error = Absent
    /\ pc \in {"set_reconnecting", "set_failed"} =>
          last_error \in Faults /\ state \in {"Priming", "Running", "Reconnecting"}
    /\ pc = "stopped" => state \in {"Priming", "Running", "Reconnecting"}
    /\ pc \in {"ending", "ended"} => state \in {"Stopped", "Failed"}
    /\ state \in {"Failed", "Reconnecting"} => last_error # Absent

(* The open client.                                                        *)
ClientInv == pc \in {"none", "loop", "open", "sleep", "ended"} => sink = "closed"

(* Losses and reconnects.                                                  *)
CountInv ==
    /\ saw_device_loss <=> losses > 0
    /\ pc \in {"none", "loop", "open", "opened"} =>
          IF saw_device_loss THEN losses = reconnects + 1 ELSE reconnects = 0
    /\ pc \in {"prime", "priming", "startup"} \cup Playing => reconnects = losses
    /\ pc \in {"lost", "set_reconnecting", "sleep"} => losses = reconnects + 1
    /\ reconnects <= losses /\ losses <= reconnects + 1

(* What a worker knows of its drift.                                       *)
SettleInv ==
    /\ watch => period = SettleAfter
    /\ pc \in {"opened", "prime", "priming", "startup", "set_running"} => period = 0
    /\ pc = "running" /\ period > 0 /\ settled => period = SettleAfter

IInv == TypeOK /\ OwnerInv /\ ReportInv /\ ClientInv /\ CountInv /\ SettleInv

-----------------------------------------------------------------------------
LEMMA TypeInit == Init => TypeOK
<1> SUFFICES ASSUME Init PROVE TypeOK
  OBVIOUS
<1>1. /\ stop \in BOOLEAN /\ ready \in BOOLEAN /\ saw_device_loss \in BOOLEAN
      /\ watch \in BOOLEAN /\ settled \in BOOLEAN /\ plugged \in BOOLEAN
      /\ valid \in BOOLEAN
  BY DEF Init
<1>2. QED
  BY <1>1, EngineAssumption DEF Init, TypeOK, AttemptCap

(* Every step keeps the types.                                             *)
LEMMA TypeStep == TypeOK /\ [Next]_vars => TypeOK'
<1> SUFFICES ASSUME TypeOK, [Next]_vars PROVE TypeOK'
  OBVIOUS
<1> USE EngineAssumption DEF TypeOK, Faults, AttemptCap, vars, ownerVars, threadVars,
                             metricVars, deviceVars
<1>1. CASE StartRefused
  BY <1>1 DEF StartRefused
<1>2. CASE StartThread
  BY <1>2 DEF StartThread
<1>3. CASE StartReturns
  BY <1>3 DEF StartReturns
<1>4. CASE Stop
  BY <1>4 DEF Stop
<1>5. CASE Joined
  BY <1>5 DEF Joined
<1>6. CASE Unplug
  <2>1. plugged' \in BOOLEAN /\ valid' \in BOOLEAN
    BY <1>6 DEF Unplug
  <2>2. QED
    BY <1>6, <2>1 DEF Unplug
<1>7. CASE Plug
  BY <1>7 DEF Plug
<1>8. CASE LoopHead
  BY <1>8 DEF LoopHead
<1>9. CASE OpenOk
  <2>1. valid' \in BOOLEAN /\ watch' \in BOOLEAN
    BY <1>9 DEF OpenOk
  <2>2. QED
    BY <1>9, <2>1 DEF OpenOk
<1>10. CASE OpenFails
  BY <1>10 DEF OpenFails, Fails, NextAttempt
<1>11. CASE Opened
  BY <1>11 DEF Opened
<1>12. CASE Prime
  BY <1>12 DEF Prime
<1>13. CASE PrimeEnds
  BY <1>13 DEF PrimeEnds
<1>14. CASE Startup
  BY <1>14 DEF Startup
<1>15. CASE SetRunning
  BY <1>15 DEF SetRunning
<1>16. CASE Write
  BY <1>16 DEF Write
<1>17. CASE Publish
  <2>1. watch' \in BOOLEAN /\ settled' \in BOOLEAN
    BY <1>17 DEF Publish, SettleUpdate
  <2>2. QED
    BY <1>17, <2>1 DEF Publish, SettleUpdate
<1>18. CASE StopSink
  BY <1>18 DEF StopSink
<1>19. CASE WorkerFails
  <2>1. saw_device_loss' \in BOOLEAN
    BY <1>19 DEF WorkerFails
  <2>2. QED
    BY <1>19, <2>1 DEF WorkerFails, Fails
<1>20. CASE SetError
  BY <1>20 DEF SetError
<1>21. CASE SetReconnecting
  BY <1>21 DEF SetReconnecting
<1>22. CASE SetFailed
  BY <1>22 DEF SetFailed
<1>23. CASE Awake
  BY <1>23 DEF Awake
<1>24. CASE SetStopped
  BY <1>24 DEF SetStopped
<1>25. CASE ThreadEnds
  <2>1. valid' \in BOOLEAN /\ ready' \in BOOLEAN
    BY <1>25 DEF ThreadEnds
  <2>2. QED
    BY <1>25, <2>1 DEF ThreadEnds
<1>26. CASE Rest
  BY <1>26 DEF Rest
<1>27. CASE UNCHANGED vars
  BY <1>27
<1>28. QED
  BY <1>1, <1>2, <1>3, <1>4, <1>5, <1>6, <1>7, <1>8, <1>9, <1>10, <1>11,
     <1>12, <1>13, <1>14, <1>15, <1>16, <1>17, <1>18, <1>19, <1>20, <1>21,
     <1>22, <1>23, <1>24, <1>25, <1>26, <1>27 DEF Next, Owner, Thread,
     Device

-----------------------------------------------------------------------------
LEMMA IInvInit == Init => IInv
BY TypeInit, EngineAssumption
   DEF Init, IInv, OwnerInv, ReportInv, ClientInv, CountInv, SettleInv, Opening, Playing

(* Every step keeps IInv.                                                  *)
LEMMA IInvStep == IInv /\ [Next]_vars => IInv'
<1> SUFFICES ASSUME IInv, [Next]_vars PROVE IInv'
  OBVIOUS
<1>1. TypeOK /\ TypeOK'
  BY TypeStep DEF IInv
<1> SUFFICES OwnerInv' /\ ReportInv' /\ ClientInv' /\ CountInv' /\ SettleInv'
  BY <1>1 DEF IInv
<1> USE <1>1, EngineAssumption
    DEF IInv, OwnerInv, ReportInv, ClientInv, CountInv, SettleInv, Opening, Playing,
        TypeOK, Faults, vars, ownerVars, threadVars, metricVars, deviceVars
<1>2. CASE StartRefused
  BY <1>2 DEF StartRefused
<1>3. CASE StartThread
  BY <1>3 DEF StartThread
<1>4. CASE StartReturns
  BY <1>4 DEF StartReturns
<1>5. CASE Stop
  BY <1>5 DEF Stop
<1>6. CASE Joined
  BY <1>6 DEF Joined
<1>7. CASE Unplug
  BY <1>7 DEF Unplug
<1>8. CASE Plug
  BY <1>8 DEF Plug
<1>9. CASE LoopHead
  BY <1>9 DEF LoopHead
<1>10. CASE OpenOk
  BY <1>10 DEF OpenOk
<1>11. CASE OpenFails
  BY <1>11 DEF OpenFails, Fails, NextAttempt
<1>12. CASE Opened
  <2>1. CASE saw_device_loss
    BY <1>12, <2>1 DEF Opened
  <2>2. CASE ~saw_device_loss
    BY <1>12, <2>2 DEF Opened
  <2>3. QED
    BY <2>1, <2>2
<1>13. CASE Prime
  BY <1>13 DEF Prime
<1>14. CASE PrimeEnds
  BY <1>14 DEF PrimeEnds
<1>15. CASE Startup
  BY <1>15 DEF Startup
<1>16. CASE SetRunning
  BY <1>16 DEF SetRunning
<1>17. CASE Write
  BY <1>17 DEF Write
<1>18. CASE Publish
  <2>1. SettleInv'
    <3>1. watch' => period' = SettleAfter
      <4> SUFFICES ASSUME watch' PROVE period' = SettleAfter
        OBVIOUS
      <4>1. period' = period
        BY <1>18 DEF Publish, SettleUpdate
      <4>2. CASE watch
        BY <4>1, <4>2
      <4>3. CASE ~watch /\ period < SettleAfter
        <5>1. watch' \in {FALSE}
          BY <1>18, <4>3 DEF Publish, SettleUpdate
        <5>2. QED
          BY <5>1
      <4>4. CASE ~(period < SettleAfter)
        BY <4>1, <4>4
      <4>5. QED
        BY <4>2, <4>3, <4>4
    <3>2. settled' = watch' /\ pc' = "running"
      BY <1>18 DEF Publish, SettleUpdate
    <3>3. QED
      BY <3>1, <3>2
  <2>2. OwnerInv' /\ ReportInv' /\ ClientInv' /\ CountInv'
    BY <1>18 DEF Publish, SettleUpdate
  <2>3. QED
    BY <2>1, <2>2
<1>19. CASE StopSink
  BY <1>19 DEF StopSink
<1>20. CASE WorkerFails
  BY <1>20 DEF WorkerFails, Fails
<1>21. CASE SetError
  BY <1>21 DEF SetError
<1>22. CASE SetReconnecting
  BY <1>22 DEF SetReconnecting
<1>23. CASE SetFailed
  BY <1>23 DEF SetFailed
<1>24. CASE Awake
  BY <1>24 DEF Awake
<1>25. CASE SetStopped
  BY <1>25 DEF SetStopped
<1>26. CASE ThreadEnds
  BY <1>26 DEF ThreadEnds
<1>27. CASE Rest
  BY <1>27 DEF Rest
<1>28. CASE UNCHANGED vars
  BY <1>28
<1>29. QED
  BY <1>2, <1>3, <1>4, <1>5, <1>6, <1>7, <1>8, <1>9, <1>10, <1>11, <1>12,
     <1>13, <1>14, <1>15, <1>16, <1>17, <1>18, <1>19, <1>20, <1>21, <1>22,
     <1>23, <1>24, <1>25, <1>26, <1>27, <1>28 DEF Next, Owner, Thread,
     Device

-----------------------------------------------------------------------------
(* Type correctness.                                                       *)
THEOREM TypeCorrect == Spec => []TypeOK
<1>1. TypeOK /\ [Next]_vars => TypeOK'
  BY TypeStep
<1>2. QED
  BY TypeInit, <1>1, PTL DEF Spec

(* The thread and its metrics are where IInv says, always.                 *)
THEOREM IInvHolds == Spec => []IInv
BY IInvInit, IInvStep, PTL DEF Spec

(* Who reads Failed or Reconnecting finds a reason, and who reads of an    *)
(* engine that plays finds none.                                           *)
THEOREM FaultIsVisible == Spec => []FaultVisible
<1>1. IInv => FaultVisible
  BY DEF IInv, TypeOK, ReportInv, FaultVisible, Playing
<1>2. QED
  BY <1>1, IInvHolds, PTL

(* Reconnects and losses are counted one to one.                           *)
THEOREM ReconnectsAreCounted == Spec => []ReconnectsCountLosses
<1>1. IInv => ReconnectsCountLosses
  BY DEF IInv, CountInv, ReconnectsCountLosses, Playing
<1>2. QED
  BY <1>1, IInvHolds, PTL

(* No client is left open behind the next opening.                         *)
THEOREM ClientsDoNotMeet == Spec => []OneClientAtATime
<1>1. IInv => OneClientAtATime
  BY DEF IInv, ClientInv, OneClientAtATime
<1>2. QED
  BY <1>1, IInvHolds, PTL

(* A worker past its first period calls its drift settled only in time.    *)
THEOREM SettledInTime == Spec => []SettledIsEarned
<1>1. IInv => SettledIsEarned
  BY DEF IInv, SettleInv, SettledIsEarned
<1>2. QED
  BY <1>1, IInvHolds, PTL

(* No step brings a failed or stopped engine back, or changes its reason.  *)
THEOREM EndsStayEnds == Spec => EndsAreFinal
<1>1. IInv /\ [Next]_vars =>
        [/\ state = "Failed" => state' = "Failed" /\ last_error' = last_error
         /\ state = "Stopped" => state' = "Stopped"]_vars
  <2> SUFFICES ASSUME IInv, Next,
                      state \in {"Failed", "Stopped"}
               PROVE  state' = state /\ last_error' = last_error
    OBVIOUS
  <2>1. pc \in {"none", "ending", "ended"} /\ owner # "new"
    BY DEF IInv, TypeOK, OwnerInv, ReportInv, Opening
  <2>2. CASE Owner
    BY <2>1, <2>2 DEF Owner, StartRefused, StartThread, StartReturns, Stop, Joined,
                      metricVars
  <2>3. CASE Device \/ Rest
    BY <2>3 DEF Device, Unplug, Plug, Rest, vars, metricVars
  <2>4. CASE Thread
    BY <2>1, <2>4 DEF Thread, LoopHead, OpenOk, OpenFails, Opened, Prime, PrimeEnds,
         Startup, SetRunning, Write, Publish, StopSink, WorkerFails, SetError,
         SetReconnecting, SetFailed, Awake, SetStopped, ThreadEnds, metricVars
  <2>5. QED
    BY <2>2, <2>3, <2>4 DEF Next
<1>2. QED
  BY <1>1, IInvHolds, PTL DEF Spec, EndsAreFinal
=============================================================================
