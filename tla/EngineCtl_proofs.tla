-------------------------- MODULE EngineCtl_proofs --------------------------
(***************************************************************************)
(* engine_ctl.rs for any number of instances, devices and threads: the     *)
(* wiring locks and the types, whichever calls overlap; what a device and  *)
(* its members agree on, as long as no switch from the editor overlaps     *)
(* another call on the same instance; and the settings of a device, for    *)
(* any editors that change them at any moment.                             *)
(***************************************************************************)
EXTENDS EngineCtl, Tuning, TLAPS

Labels == {"idle", "take", "release", "release_member", "released", "adopt", "admit", "reshape", "restart",
           "wire", "rewire", "wire_producer", "rewire_producer", "want", "hold", "drop"}

(* A thread that is about to lock has a device to lock.                    *)
LockTypes ==
    /\ pc \in [Threads -> Labels]
    /\ lock \in [Devices -> Threads \cup {None}]
    /\ device \in [Controllers -> Devices \cup {None}]
    /\ ctl \in [Threads -> Controllers \cup {None}]
    /\ goal \in [Threads -> Devices \cup {None}]
    /\ old \in [Threads -> Devices \cup {None}]
    /\ held \in [Threads -> Devices \cup {None}]
    /\ \A t \in Threads :
          /\ pc[t] = "take" => ctl[t] # None
          /\ pc[t] = "release" => old[t] # None
          /\ pc[t] = "adopt" => goal[t] # None
          /\ pc[t] \in {"admit", "reshape"} => held[t] # None

(* The one device whose lock a thread has inside the lock.                 *)
Place(t) == IF pc[t] = "release_member" THEN old[t] ELSE held[t]

LocksKept ==
    \A t \in Threads :
        /\ pc[t] \in Locked => Place(t) \in Devices /\ lock[Place(t)] = t
        /\ \A d \in Devices : lock[d] = t => pc[t] \in Locked /\ d = Place(t)

LockInv == LockTypes /\ LocksKept

LEMMA LockInit == Init => LockInv
BY EngineCtlAssumption DEF Init, LockInv, LockTypes, LocksKept, Labels, Locked, Place

(* A call begins outside every lock.                                       *)
LEMMA CallKeeps == ASSUME LockInv, NEW t \in Threads, Call(t) PROVE LockInv'
<1> USE EngineCtlAssumption
    DEF LockInv, LockTypes, LocksKept, Labels, Locked, Place, Begin, controllerVars, deviceVars
<1> PICK c \in Controllers : \/ \E d \in Devices : initialize(t, c, d) \/ set_device(t, c, d)
                             \/ deactivate(t, c) \/ retune(t, c)
  BY DEF Call
<1>1. ASSUME NEW d \in Devices, initialize(t, c, d) PROVE LockInv'
  BY <1>1 DEF initialize
<1>2. ASSUME NEW d \in Devices, set_device(t, c, d) PROVE LockInv'
  BY <1>2 DEF set_device
<1>3. CASE deactivate(t, c)
  BY <1>3 DEF deactivate
<1>4. CASE retune(t, c)
  BY <1>4 DEF retune
<1>5. QED
  BY <1>1, <1>2, <1>3, <1>4

(* Leaving: the lock of the old device, taken and given back.              *)
LEMMA LeaveKeeps ==
    ASSUME LockInv, NEW t \in Threads, Take(t) \/ ReleaseSource(t) \/ ReleaseMember(t) \/ Released(t)
    PROVE  LockInv'
<1> USE EngineCtlAssumption DEF LockInv, LockTypes, LocksKept, Labels, Locked, Place, Goto, Done
<1>1. CASE Take(t)
  BY <1>1 DEF Take, deviceVars
<1>2. CASE ReleaseSource(t)
  BY <1>2 DEF ReleaseSource
<1>3. CASE ReleaseMember(t)
  BY <1>3 DEF ReleaseMember
<1>4. CASE Released(t)
  BY <1>4 DEF Released
<1>5. QED
  BY <1>1, <1>2, <1>3, <1>4

(* Joining and reshaping: a device is locked that the thread holds.        *)
LEMMA EnterKeeps ==
    ASSUME LockInv, NEW t \in Threads, adopt(t) \/ admit(t) \/ reshape(t)
    PROVE  LockInv'
<1> USE EngineCtlAssumption DEF LockInv, LockTypes, LocksKept, Labels, Locked, Place, Goto, Done, controllerVars
<1>1. CASE adopt(t)
  BY <1>1 DEF adopt
<1>2. CASE admit(t)
  BY <1>2 DEF admit
<1>3. CASE reshape(t)
  BY <1>3 DEF reshape
<1>4. QED
  BY <1>1, <1>2, <1>3

(* Wiring and restarting stay inside the lock up to the last step.         *)
LEMMA WireKeeps ==
    ASSUME LockInv, NEW t \in Threads,
           \/ StopEngine(t) \/ WireProducer(t) \/ Wired(t) \/ StartEngine(t)
           \/ \E m \in Controllers : WireSource(t, m)
    PROVE  LockInv'
<1> USE EngineCtlAssumption DEF LockInv, LockTypes, LocksKept, Labels, Locked, Place, Goto, After, controllerVars
<1>1. CASE StopEngine(t)
  BY <1>1 DEF StopEngine
<1>2. CASE WireProducer(t)
  BY <1>2 DEF WireProducer
<1>3. CASE Wired(t)
  BY <1>3 DEF Wired
<1>4. CASE StartEngine(t)
  BY <1>4 DEF StartEngine
<1>5. ASSUME NEW m \in Controllers, WireSource(t, m) PROVE LockInv'
  BY <1>5 DEF WireSource
<1>6. QED
  BY <1>1, <1>2, <1>3, <1>4, <1>5

(* What comes after the lock.                                              *)
LEMMA EndKeeps ==
    ASSUME LockInv, NEW t \in Threads, Want(t) \/ Hold(t) \/ Drop(t)
    PROVE  LockInv'
<1> USE EngineCtlAssumption DEF LockInv, LockTypes, LocksKept, Labels, Locked, Place, Goto, Done, deviceVars
<1>1. CASE Want(t)
  BY <1>1 DEF Want
<1>2. CASE Hold(t)
  <2>1. /\ pc' = [pc EXCEPT ![t] = "idle"] /\ pc[t] = "hold" /\ lock' = lock /\ old' = old
        /\ held' = [held EXCEPT ![t] = None] /\ ctl' = [ctl EXCEPT ![t] = None]
        /\ goal' = [goal EXCEPT ![t] = None] /\ device' = [device EXCEPT ![ctl[t]] = held[t]]
    BY <1>2 DEF Hold
  <2>2. device' \in [Controllers -> Devices \cup {None}]
    BY <2>1
  <2>3. LockTypes'
    BY <2>1, <2>2
  <2>4. LocksKept'
    BY <2>1
  <2>5. QED
    BY <2>3, <2>4
<1>3. CASE Drop(t)
  BY <1>3 DEF Drop
<1>4. QED
  BY <1>1, <1>2, <1>3

LEMMA LockStep == LockInv /\ [Next]_vars => LockInv'
<1> SUFFICES ASSUME LockInv, [Next]_vars PROVE LockInv'
  OBVIOUS
<1>1. ASSUME NEW t \in Threads, Call(t) PROVE LockInv'
  BY <1>1, CallKeeps
<1>2. ASSUME NEW t \in Threads, Step(t) PROVE LockInv'
  BY <1>2, LeaveKeeps, EnterKeeps, WireKeeps, EndKeeps DEF Step
<1>3. ASSUME NEW d \in Devices, EngineDrain(d) PROVE LockInv'
  BY <1>3 DEF EngineDrain, LockInv, LockTypes, LocksKept, Place, controllerVars, threadVars
<1>4. CASE UNCHANGED vars
  BY <1>4 DEF LockInv, LockTypes, LocksKept, Place, vars, controllerVars, deviceVars, threadVars
<1>5. QED
  BY <1>1, <1>2, <1>3, <1>4 DEF Next, Rest

(* However many calls of however many instances are under way, a thread    *)
(* holds the lock of the one device it works on, and none while it waits   *)
(* for one (Device::release, admit and reshape): the locks of two devices  *)
(* are never waited for in a circle.                                       *)
THEOREM WiringLocksDoNotCross == Spec => []LocksDoNotCross
<1>1. Init => LockInv
  BY LockInit
<1>2. LockInv /\ [Next]_vars => LockInv'
  BY LockStep
<1>3. LockInv => LocksDoNotCross
  BY DEF LockInv, LocksKept, LocksDoNotCross, Place
<1>4. QED
  BY <1>1, <1>2, <1>3, PTL DEF Spec

-----------------------------------------------------------------------------
(* Types: what is stored is of its kind, and a call that is under way is   *)
(* a call on a controller.                                                 *)
ControllerTypes ==
    /\ device \in [Controllers -> Devices \cup {None}]
    /\ wanted \in [Controllers -> Devices \cup {None}]
    /\ source \in [Controllers -> Nat]
    /\ producer \in [Controllers -> [dev : Devices \cup {None}, gen : Nat, id : Nat]]

DeviceTypes ==
    /\ gen \in [Devices -> Nat] /\ block \in [Devices -> Nat]
    /\ members \in [Devices -> SUBSET Controllers]
    /\ engine \in [Devices -> BOOLEAN] /\ metrics \in [Devices -> BOOLEAN]

BusTypes ==
    /\ inbox \in [Devices -> Seq(Orders)]
    /\ next_id \in [Devices -> Nat] /\ mix \in [Devices -> SUBSET Nat]

ThreadTypes ==
    /\ op \in [Threads -> {"none", "initialize", "deactivate", "set_device", "retune"}]
    /\ ctl \in [Threads -> Controllers \cup {None}]
    /\ goal \in [Threads -> Devices \cup {None}]
    /\ old \in [Threads -> Devices \cup {None}]
    /\ held \in [Threads -> Devices \cup {None}]
    /\ todo \in [Threads -> SUBSET Controllers]
    /\ at \in [Threads -> Controllers \cup {None}] /\ stale \in [Threads -> Nat]
    /\ calls \in Nat
    /\ \A t \in Threads : pc[t] = "idle" <=> ctl[t] = None

TypeInv == LockInv /\ ControllerTypes /\ DeviceTypes /\ BusTypes /\ ThreadTypes

LEMMA TypeInit == Init => TypeInv
<1> SUFFICES ASSUME Init PROVE TypeInv
  OBVIOUS
<1>1. ControllerTypes /\ DeviceTypes /\ ThreadTypes
  BY EngineCtlAssumption DEF Init, ControllerTypes, DeviceTypes, ThreadTypes, NoRing, UNATTACHED
<1>2. BusTypes
  BY DEF Init, BusTypes, Orders
<1>3. QED
  BY <1>1, <1>2, LockInit DEF TypeInv

(* The call has a controller, and inside a lock a device.                  *)
LEMMA InHand ==
    ASSUME TypeInv, NEW t \in Threads, pc[t] # "idle"
    PROVE  /\ ctl[t] \in Controllers
           /\ pc[t] \in {"release", "release_member"} => old[t] \in Devices
           /\ pc[t] \in {"admit", "reshape"} \cup (Locked \ {"release_member"}) => held[t] \in Devices
           /\ pc[t] = "adopt" => goal[t] \in Devices
BY DEF TypeInv, ThreadTypes, LockInv, LockTypes, LocksKept, Place, Locked

LEMMA CallTypes == ASSUME TypeInv, NEW t \in Threads, Call(t) PROVE TypeInv'
<1>1. LockInv'
  BY CallKeeps DEF TypeInv
<1> PICK c \in Controllers : \/ \E d \in Devices : initialize(t, c, d) \/ set_device(t, c, d)
                             \/ deactivate(t, c) \/ retune(t, c)
  BY DEF Call
<1>2. ControllerTypes' /\ DeviceTypes' /\ BusTypes'
  BY DEF initialize, set_device, deactivate, retune, Begin, controllerVars, deviceVars, busVars,
         TypeInv, ControllerTypes, DeviceTypes, BusTypes
<1>3. ThreadTypes'
  <2> USE EngineCtlAssumption DEF TypeInv, LockInv, LockTypes, Labels, ThreadTypes, ControllerTypes, Begin
  <2>1. (\E d \in Devices : initialize(t, c, d)) => ThreadTypes'
    BY DEF initialize
  <2>2. (\E d \in Devices : set_device(t, c, d)) => ThreadTypes'
    BY DEF set_device
  <2>3. deactivate(t, c) => ThreadTypes'
    BY DEF deactivate
  <2>4. retune(t, c) => ThreadTypes'
    BY DEF retune
  <2>5. QED
    BY <2>1, <2>2, <2>3, <2>4
<1>4. QED
  BY <1>1, <1>2, <1>3 DEF TypeInv

(* Devices, sources and producers of the controllers.                      *)
LEMMA ControllersTyped == ASSUME TypeInv, NEW t \in Threads, Step(t) PROVE ControllerTypes'
<1> USE EngineCtlAssumption DEF TypeInv, ControllerTypes, controllerVars
<1>1. CASE Take(t)
  BY <1>1, InHand DEF Take
<1>2. CASE ReleaseSource(t)
  BY <1>2, InHand DEF ReleaseSource, UNATTACHED
<1>3. CASE ReleaseMember(t)
  BY <1>3, InHand DEF ReleaseMember, NoRing, UNATTACHED
<1>4. CASE Released(t)
  BY <1>4, InHand DEF Released
<1>5. CASE adopt(t)
  BY <1>5, InHand DEF adopt
<1>6. CASE admit(t)
  BY <1>6, InHand DEF admit
<1>7. CASE reshape(t)
  BY <1>7, InHand DEF reshape
<1>8. CASE StopEngine(t)
  BY <1>8, InHand DEF StopEngine
<1>9. CASE WireProducer(t)
  BY <1>9, InHand DEF WireProducer, DeviceTypes, BusTypes, Locked
<1>10. ASSUME NEW m \in Controllers, WireSource(t, m) PROVE ControllerTypes'
  <2>1. next_id[held[t]] + 1 \in Nat
    BY <1>10, InHand DEF WireSource, BusTypes, Locked
  <2>2. QED
    BY <1>10, <2>1 DEF WireSource
<1>11. CASE Wired(t)
  BY <1>11, InHand DEF Wired
<1>12. CASE StartEngine(t)
  BY <1>12, InHand DEF StartEngine
<1>13. CASE Want(t)
  BY <1>13, InHand DEF Want, ThreadTypes
<1>14. CASE Hold(t)
  BY <1>14, InHand DEF Hold, ThreadTypes
<1>15. CASE Drop(t)
  BY <1>15, InHand DEF Drop
<1>16. QED
  BY <1>1, <1>2, <1>3, <1>4, <1>5, <1>6, <1>7, <1>8, <1>9, <1>10, <1>11, <1>12, <1>13, <1>14, <1>15 DEF Step

(* What a Device object keeps.                                             *)
LEMMA DevicesTyped == ASSUME TypeInv, NEW t \in Threads, Step(t) PROVE DeviceTypes'
<1> USE EngineCtlAssumption DEF TypeInv, DeviceTypes, deviceVars, busVars
<1>1. CASE Take(t)
  BY <1>1, InHand DEF Take
<1>2. CASE ReleaseSource(t)
  BY <1>2, InHand DEF ReleaseSource
<1>3. CASE ReleaseMember(t)
  BY <1>3, InHand DEF ReleaseMember
<1>4. CASE Released(t)
  BY <1>4, InHand DEF Released, DropUnreferenced
<1>5. CASE adopt(t)
  <2>1. goal[t] \in Devices
    BY <1>5, InHand DEF adopt
  <2>2. CASE Alive(goal[t], device, old, held)
    BY <1>5, <2>2 DEF adopt
  <2>3. CASE ~Alive(goal[t], device, old, held)
    <3>1. gen' = [gen EXCEPT ![goal[t]] = @ + 1] /\ block' = [block EXCEPT ![goal[t]] = DefaultBlock]
      BY <1>5, <2>3 DEF adopt
    <3>2. members' = [members EXCEPT ![goal[t]] = {}] /\ engine' = engine
      BY <1>5, <2>3 DEF adopt
    <3>3. metrics' = [metrics EXCEPT ![goal[t]] = FALSE]
      BY <1>5, <2>3, Zenon DEF adopt
    <3>4. metrics' \in [Devices -> BOOLEAN]
      BY <3>3
    <3>5. gen' \in [Devices -> Nat] /\ block' \in [Devices -> Nat] /\ members' \in [Devices -> SUBSET Controllers]
      BY <2>1, <3>1, <3>2
    <3>6. QED
      BY <3>2, <3>4, <3>5
  <2>4. QED
    BY <2>2, <2>3
<1>6. CASE admit(t)
  BY <1>6, InHand DEF admit
<1>7. CASE reshape(t)
  BY <1>7, InHand DEF reshape
<1>8. CASE StopEngine(t)
  BY <1>8, InHand DEF StopEngine
<1>9. CASE WireProducer(t)
  BY <1>9, InHand DEF WireProducer
<1>10. ASSUME NEW m \in Controllers, WireSource(t, m) PROVE DeviceTypes'
  BY <1>10, InHand DEF WireSource
<1>11. CASE Wired(t)
  BY <1>11, InHand DEF Wired
<1>12. CASE StartEngine(t)
  BY <1>12, InHand DEF StartEngine
<1>13. CASE Want(t)
  BY <1>13, InHand DEF Want
<1>14. CASE Hold(t)
  BY <1>14, InHand DEF Hold, DropUnreferenced
<1>15. CASE Drop(t)
  BY <1>15, InHand DEF Drop, DropUnreferenced
<1>16. QED
  BY <1>1, <1>2, <1>3, <1>4, <1>5, <1>6, <1>7, <1>8, <1>9, <1>10, <1>11, <1>12, <1>13, <1>14, <1>15 DEF Step

(* The orders on a bus and the sources of its mixer.                       *)
LEMMA BusTyped == ASSUME TypeInv, NEW t \in Threads, Step(t) PROVE BusTypes'
<1> USE EngineCtlAssumption DEF TypeInv, BusTypes, deviceVars, busVars
<1>1. CASE Take(t)
  BY <1>1, InHand DEF Take
<1>2. CASE ReleaseSource(t)
  <2>1. source[ctl[t]] \in Nat /\ old[t] \in Devices
    BY <1>2, InHand DEF ReleaseSource, ControllerTypes
  <2>2. Leave(source[ctl[t]]) \in Orders
    BY <2>1 DEF Leave, Orders
  <2>3. Append(inbox[old[t]], Leave(source[ctl[t]])) \in Seq(Orders)
    BY <2>1, <2>2
  <2>4. QED
    BY <1>2, <2>1, <2>3 DEF ReleaseSource
<1>3. CASE ReleaseMember(t)
  BY <1>3, InHand DEF ReleaseMember
<1>4. CASE Released(t)
  BY <1>4, InHand DEF Released, DropUnreferenced
<1>5. CASE adopt(t)
  <2>1. goal[t] \in Devices
    BY <1>5, InHand DEF adopt
  <2>2. CASE Alive(goal[t], device, old, held)
    BY <1>5, <2>2 DEF adopt
  <2>3. CASE ~Alive(goal[t], device, old, held)
    <3>1. /\ inbox' = [inbox EXCEPT ![goal[t]] = <<>>] /\ next_id' = [next_id EXCEPT ![goal[t]] = 0]
          /\ mix' = [mix EXCEPT ![goal[t]] = {}]
      BY <1>5, <2>3 DEF adopt
    <3>2. QED
      BY <2>1, <3>1
  <2>4. QED
    BY <2>2, <2>3
<1>6. CASE admit(t)
  BY <1>6, InHand DEF admit
<1>7. CASE reshape(t)
  BY <1>7, InHand DEF reshape
<1>8. CASE StopEngine(t)
  BY <1>8, InHand DEF StopEngine
<1>9. CASE WireProducer(t)
  <2>1. held[t] \in Devices /\ stale[t] \in Nat
    BY <1>9, InHand DEF WireProducer, Locked, ThreadTypes
  <2>2. Leave(stale[t]) \in Orders
    BY <2>1 DEF Leave, Orders
  <2>3. Append(inbox[held[t]], Leave(stale[t])) \in Seq(Orders)
    BY <2>1, <2>2
  <2>4. QED
    BY <1>9, <2>1, <2>3 DEF WireProducer
<1>10. ASSUME NEW m \in Controllers, WireSource(t, m) PROVE BusTypes'
  <2>1. held[t] \in Devices
    BY <1>10, InHand DEF WireSource, Locked
  <2>2. next_id[held[t]] + 1 \in Nat /\ Join(next_id[held[t]] + 1) \in Orders
    BY <2>1 DEF Join, Orders
  <2>3. Append(inbox[held[t]], Join(next_id[held[t]] + 1)) \in Seq(Orders)
    BY <2>1, <2>2
  <2>4. QED
    BY <1>10, <2>1, <2>2, <2>3 DEF WireSource
<1>11. CASE Wired(t)
  BY <1>11, InHand DEF Wired
<1>12. CASE StartEngine(t)
  BY <1>12, InHand DEF StartEngine
<1>13. CASE Want(t)
  BY <1>13, InHand DEF Want
<1>14. CASE Hold(t)
  BY <1>14, InHand DEF Hold, DropUnreferenced
<1>15. CASE Drop(t)
  BY <1>15, InHand DEF Drop, DropUnreferenced
<1>16. QED
  BY <1>1, <1>2, <1>3, <1>4, <1>5, <1>6, <1>7, <1>8, <1>9, <1>10, <1>11, <1>12, <1>13, <1>14, <1>15 DEF Step

(* What a thread has in hand.                                              *)
LEMMA ThreadsTyped == ASSUME TypeInv, NEW t \in Threads, Step(t) PROVE ThreadTypes'
<1> USE EngineCtlAssumption DEF TypeInv, ThreadTypes, LockInv, LockTypes, Labels, Goto, Done
<1>1. CASE Take(t)
  <2>1. ctl[t] \in Controllers /\ device[ctl[t]] \in Devices \cup {None}
    BY <1>1, InHand DEF Take, ControllerTypes
  <2>2. old' \in [Threads -> Devices \cup {None}] /\ UNCHANGED <<held, todo, at, stale, calls>>
    BY <1>1, <2>1 DEF Take
  <2>3. Goto(t, "release") \/ Goto(t, "adopt") \/ Done(t)
    BY <1>1 DEF Take
  <2>4. CASE Goto(t, "release") \/ Goto(t, "adopt")
    BY <2>1, <2>2, <2>4
  <2>5. CASE Done(t)
    BY <2>1, <2>2, <2>5
  <2>6. QED
    BY <2>3, <2>4, <2>5
<1>2. CASE ReleaseSource(t)
  BY <1>2, InHand DEF ReleaseSource
<1>3. CASE ReleaseMember(t)
  BY <1>3, InHand DEF ReleaseMember
<1>4. CASE Released(t)
  BY <1>4, InHand DEF Released
<1>5. CASE adopt(t)
  BY <1>5, InHand DEF adopt
<1>6. CASE admit(t)
  BY <1>6, InHand DEF admit, DeviceTypes
<1>7. CASE reshape(t)
  BY <1>7, InHand DEF reshape, DeviceTypes
<1>8. CASE StopEngine(t)
  BY <1>8, InHand DEF StopEngine
<1>9. CASE WireProducer(t)
  BY <1>9, InHand DEF WireProducer, Locked, UNATTACHED
<1>10. ASSUME NEW m \in Controllers, WireSource(t, m) PROVE ThreadTypes'
  BY <1>10, InHand DEF WireSource, ControllerTypes
<1>11. CASE Wired(t)
  BY <1>11, InHand DEF Wired, After
<1>12. CASE StartEngine(t)
  BY <1>12, InHand DEF StartEngine, After
<1>13. CASE Want(t)
  BY <1>13, InHand DEF Want
<1>14. CASE Hold(t)
  BY <1>14, InHand DEF Hold
<1>15. CASE Drop(t)
  BY <1>15, InHand DEF Drop
<1>16. QED
  BY <1>1, <1>2, <1>3, <1>4, <1>5, <1>6, <1>7, <1>8, <1>9, <1>10, <1>11, <1>12, <1>13, <1>14, <1>15 DEF Step

LEMMA TypeStep == TypeInv /\ [Next]_vars => TypeInv'
<1> SUFFICES ASSUME TypeInv, [Next]_vars PROVE TypeInv'
  OBVIOUS
<1>0. LockInv'
  BY LockStep DEF TypeInv
<1>1. ASSUME NEW t \in Threads, Call(t) PROVE TypeInv'
  BY <1>1, CallTypes
<1>2. ASSUME NEW t \in Threads, Step(t) PROVE TypeInv'
  BY <1>0, <1>2, ControllersTyped, DevicesTyped, BusTyped, ThreadsTyped DEF TypeInv
<1>3. ASSUME NEW d \in Devices, EngineDrain(d) PROVE TypeInv'
  <2>1. ControllerTypes' /\ DeviceTypes' /\ ThreadTypes'
    BY <1>3 DEF EngineDrain, TypeInv, ControllerTypes, DeviceTypes, ThreadTypes, controllerVars, threadVars
  <2>2. Head(inbox[d]) \in Orders /\ Tail(inbox[d]) \in Seq(Orders)
    BY <1>3 DEF EngineDrain, TypeInv, BusTypes
  <2>3. Head(inbox[d]).id \in Nat
    BY <2>2 DEF Orders
  <2>4. BusTypes'
    BY <1>3, <2>2, <2>3 DEF EngineDrain, TypeInv, BusTypes
  <2>5. QED
    BY <1>0, <2>1, <2>4 DEF TypeInv
<1>4. CASE UNCHANGED vars
  BY <1>0, <1>4 DEF TypeInv, ControllerTypes, DeviceTypes, BusTypes, ThreadTypes,
                    vars, controllerVars, deviceVars, busVars, threadVars
<1>5. QED
  BY <1>1, <1>2, <1>3, <1>4 DEF Next, Rest

LEMMA TypeInvIsEnough == TypeInv => TypeOK
<1> SUFFICES ASSUME TypeInv PROVE TypeOK
  OBVIOUS
<1>1. \A d \in Devices : lock[d] # None => pc[lock[d]] \in Locked
  BY DEF TypeInv, LockInv, LockTypes, LocksKept
<1>2. QED
  BY <1>1 DEF TypeInv, LockInv, LockTypes, TypeOK, ControllerTypes, DeviceTypes, BusTypes, ThreadTypes

(* Whatever calls meet, what the controllers, the devices and the threads  *)
(* keep stays of its kind (engine_ctl.rs).                                 *)
THEOREM TypesKept == Spec => []TypeOK
BY TypeInit, TypeStep, TypeInvIsEnough, PTL DEF Spec

-----------------------------------------------------------------------------
(* A bus: what its mixer plays, or will play once it has caught up.        *)

HeardIn(mx, box, n) == {id \in 1 .. n :
    /\ id \in mx \/ \E i \in 1 .. Len(box) : box[i] = Join(id)
    /\ ~\E i \in 1 .. Len(box) : box[i] = Leave(id)}

(* Ids are given out once, and nobody leaves before joining.               *)
InOrderIn(mx, box, n) ==
    /\ mx \subseteq 1 .. n
    /\ \A i \in 1 .. Len(box) : box[i].id \in 1 .. n
    /\ \A i, j \in 1 .. Len(box) :
          i < j /\ box[i].kind = "leave" /\ box[j].kind = "join" => box[i].id # box[j].id

LEMMA HeardIsHeardIn ==
    ASSUME NEW d \in Devices PROVE Heard(d) = HeardIn(mix[d], inbox[d], next_id[d])
BY DEF Heard, HeardIn, Queued

(* Where an order stands in a longer queue, and in a shorter one.          *)
LEMMA QueuedInAppend ==
    ASSUME NEW box \in Seq(Orders), NEW o \in Orders, NEW x
    PROVE  (\E i \in 1 .. Len(Append(box, o)) : Append(box, o)[i] = x)
               <=> x = o \/ \E i \in 1 .. Len(box) : box[i] = x
<1>1. Len(Append(box, o)) = Len(box) + 1 /\ Append(box, o)[Len(box) + 1] = o
  OBVIOUS
<1>2. \A i \in 1 .. Len(box) : Append(box, o)[i] = box[i]
  OBVIOUS
<1>3. Len(box) \in Nat
  OBVIOUS
<1>4. 1 .. (Len(box) + 1) = (1 .. Len(box)) \cup {Len(box) + 1}
  BY <1>3
<1>5. QED
  BY <1>1, <1>2, <1>4

LEMMA QueuedInTail ==
    ASSUME NEW box \in Seq(Orders), box # <<>>, NEW x
    PROVE  (\E i \in 1 .. Len(box) : box[i] = x)
               <=> x = Head(box) \/ \E i \in 1 .. Len(Tail(box)) : Tail(box)[i] = x
<1>1. Len(Tail(box)) = Len(box) - 1 /\ Len(box) \in Nat \ {0} /\ Head(box) = box[1]
  OBVIOUS
<1>2. \A i \in 1 .. Len(Tail(box)) : Tail(box)[i] = box[i + 1]
  OBVIOUS
<1>3. ASSUME NEW i \in 1 .. Len(box), box[i] = x, i # 1
      PROVE  \E j \in 1 .. Len(Tail(box)) : Tail(box)[j] = x
  <2>1. i - 1 \in 1 .. Len(Tail(box)) /\ (i - 1) + 1 = i
    BY <1>1, <1>3
  <2>2. QED
    BY <1>2, <1>3, <2>1
<1>4. ASSUME NEW i \in 1 .. Len(Tail(box)), Tail(box)[i] = x
      PROVE  \E j \in 1 .. Len(box) : box[j] = x
  <2>1. i + 1 \in 1 .. Len(box)
    BY <1>1
  <2>2. QED
    BY <1>2, <1>4, <2>1
<1>5. 1 \in 1 .. Len(box)
  BY <1>1
<1>6. QED
  BY <1>1, <1>3, <1>4, <1>5

LEMMA OrderKinds ==
    \A a, b : /\ Join(a) # Leave(b)
              /\ (Join(a) = Join(b)) <=> a = b
              /\ (Leave(a) = Leave(b)) <=> a = b
BY DEF Join, Leave

(* A new ring is heard, and nothing else changes.                          *)
LEMMA JoinIsHeard ==
    ASSUME NEW mx, NEW n \in Nat, NEW box \in Seq(Orders), InOrderIn(mx, box, n)
    PROVE  /\ HeardIn(mx, Append(box, Join(n + 1)), n + 1) = HeardIn(mx, box, n) \cup {n + 1}
           /\ InOrderIn(mx, Append(box, Join(n + 1)), n + 1)
<1> DEFINE new == Append(box, Join(n + 1))
<1>1. Join(n + 1) \in Orders /\ Join(n + 1).id = n + 1 /\ Join(n + 1).kind = "join"
  BY DEF Join, Orders
<1>2. \A x : (\E i \in 1 .. Len(new) : new[i] = x) <=> x = Join(n + 1) \/ \E i \in 1 .. Len(box) : box[i] = x
  BY <1>1, QueuedInAppend
<1>3. ~\E i \in 1 .. Len(box) : box[i] = Leave(n + 1) \/ box[i] = Join(n + 1)
  BY DEF InOrderIn, Leave, Join
<1>4. 1 .. (n + 1) = (1 .. n) \cup {n + 1} /\ n + 1 \notin 1 .. n
  OBVIOUS
<1>5. n + 1 \in HeardIn(mx, new, n + 1)
  BY <1>2, <1>3, <1>4, OrderKinds DEF HeardIn
<1>6. \A id \in 1 .. n : id \in HeardIn(mx, new, n + 1) <=> id \in HeardIn(mx, box, n)
  <2>1. \A id \in 1 .. n : Join(id) # Join(n + 1) /\ Leave(id) # Join(n + 1)
    BY <1>4, OrderKinds
  <2>2. QED
    BY <1>2, <1>4, <2>1 DEF HeardIn
<1>7. HeardIn(mx, new, n + 1) = HeardIn(mx, box, n) \cup {n + 1}
  BY <1>4, <1>5, <1>6 DEF HeardIn
<1>8. Len(new) = Len(box) + 1 /\ new[Len(box) + 1] = Join(n + 1) /\ Len(box) \in Nat
  BY <1>1
<1>9. \A i \in 1 .. Len(box) : new[i] = box[i]
  BY <1>1
<1>10. InOrderIn(mx, new, n + 1)
  BY <1>1, <1>8, <1>9 DEF InOrderIn
<1>11. QED
  BY <1>7, <1>10

(* A ring that leaves is not heard any more.                               *)
LEMMA LeaveIsHeard ==
    ASSUME NEW mx, NEW n \in Nat, NEW s \in 1 .. n, NEW box \in Seq(Orders), InOrderIn(mx, box, n)
    PROVE  /\ HeardIn(mx, Append(box, Leave(s)), n) = HeardIn(mx, box, n) \ {s}
           /\ InOrderIn(mx, Append(box, Leave(s)), n)
<1> DEFINE new == Append(box, Leave(s))
<1>1. Leave(s) \in Orders /\ Leave(s).id = s /\ Leave(s).kind = "leave"
  BY DEF Leave, Orders
<1>2. \A x : (\E i \in 1 .. Len(new) : new[i] = x) <=> x = Leave(s) \/ \E i \in 1 .. Len(box) : box[i] = x
  BY <1>1, QueuedInAppend
<1>3. HeardIn(mx, new, n) = HeardIn(mx, box, n) \ {s}
  BY <1>2, OrderKinds DEF HeardIn
<1>4. Len(new) = Len(box) + 1 /\ new[Len(box) + 1] = Leave(s) /\ Len(box) \in Nat
  BY <1>1
<1>5. \A i \in 1 .. Len(box) : new[i] = box[i]
  BY <1>1
<1>6. InOrderIn(mx, new, n)
  BY <1>1, <1>4, <1>5 DEF InOrderIn
<1>7. QED
  BY <1>3, <1>6

(* The engine catching up changes nothing of what is heard.                *)
LEMMA DrainIsNotHeard ==
    ASSUME NEW mx, NEW n \in Nat, NEW box \in Seq(Orders), box # <<>>, InOrderIn(mx, box, n),
           NEW my, my = IF Head(box).kind = "join" THEN mx \cup {Head(box).id} ELSE mx \ {Head(box).id}
    PROVE  /\ HeardIn(my, Tail(box), n) = HeardIn(mx, box, n)
           /\ InOrderIn(my, Tail(box), n)
<1> DEFINE o == Head(box)  rest == Tail(box)
<1>1. Len(rest) = Len(box) - 1 /\ Len(box) \in Nat \ {0} /\ o = box[1] /\ o \in Orders
  OBVIOUS
<1>2. \A i \in 1 .. Len(rest) : rest[i] = box[i + 1] /\ i + 1 \in 1 .. Len(box)
  BY <1>1
<1>3. \A x : (\E i \in 1 .. Len(box) : box[i] = x) <=> x = o \/ \E i \in 1 .. Len(rest) : rest[i] = x
  BY QueuedInTail
<1>4. o.id \in 1 .. n /\ (o = Join(o.id) \/ o = Leave(o.id)) /\ (o.kind = "join" <=> o = Join(o.id))
  BY <1>1 DEF InOrderIn, Orders, Join, Leave
<1>5. o.kind # "join" => ~\E i \in 1 .. Len(rest) : rest[i] = Join(o.id)
  <2> SUFFICES ASSUME o.kind # "join", NEW i \in 1 .. Len(rest), rest[i] = Join(o.id) PROVE FALSE
    OBVIOUS
  <2>1. box[1].kind = "leave" /\ box[i + 1].kind = "join" /\ box[i + 1].id = box[1].id
    BY <1>1, <1>2, <1>4 DEF Join, Leave, Orders
  <2>2. 1 \in 1 .. Len(box) /\ i + 1 \in 1 .. Len(box) /\ 1 < i + 1
    BY <1>1
  <2>3. QED
    BY <2>1, <2>2 DEF InOrderIn
<1>6. HeardIn(my, rest, n) = HeardIn(mx, box, n)
  <2> DEFINE in(x, b) == \E i \in 1 .. Len(b) : b[i] = x
  <2>0. \A id :
               /\ in(Join(id), box) <=> Join(id) = o \/ in(Join(id), rest)
               /\ in(Leave(id), box) <=> Leave(id) = o \/ in(Leave(id), rest)
    BY <1>3
  <2>1. CASE o.kind = "join"
    <3>1. \A id : (Join(id) = o <=> id = o.id) /\ Leave(id) # o
      BY <1>4, <2>1, OrderKinds
    <3>2. \A id \in 1 .. n :
              /\ id \in my \/ in(Join(id), rest) <=> id \in mx \/ in(Join(id), box)
              /\ in(Leave(id), rest) <=> in(Leave(id), box)
      <4>1. my = mx \cup {o.id}
        BY <2>1
      <4> HIDE DEF in, o, rest
      <4>2. QED
        BY <2>0, <3>1, <4>1
    <3>3. \A id \in 1 .. n : id \in HeardIn(my, rest, n) <=> id \in HeardIn(mx, box, n)
      BY <3>2 DEF HeardIn
    <3>4. HeardIn(my, rest, n) \subseteq 1 .. n /\ HeardIn(mx, box, n) \subseteq 1 .. n
      BY DEF HeardIn
    <3>5. QED
      BY <3>3, <3>4
  <2>2. CASE o.kind # "join"
    <3>1. \A id : (Leave(id) = o <=> id = o.id) /\ Join(id) # o
      BY <1>4, <2>2, OrderKinds
    <3>2. \A id \in 1 .. n : id # o.id =>
              /\ id \in my \/ in(Join(id), rest) <=> id \in mx \/ in(Join(id), box)
              /\ in(Leave(id), rest) <=> in(Leave(id), box)
      <4>1. my = mx \ {o.id}
        BY <2>2
      <4> HIDE DEF in, o, rest
      <4>2. QED
        BY <2>0, <3>1, <4>1
    <3>3. o.id \notin my /\ ~in(Join(o.id), rest) /\ in(Leave(o.id), box)
      BY <1>5, <2>0, <2>2, <3>1
    <3>4. QED
      BY <3>2, <3>3 DEF HeardIn
  <2>3. QED
    BY <2>1, <2>2
<1>7. InOrderIn(my, rest, n)
  <2>1. my \subseteq 1 .. n
    BY <1>4 DEF InOrderIn
  <2>2. \A i \in 1 .. Len(rest) : rest[i].id \in 1 .. n
    BY <1>2 DEF InOrderIn
  <2>3. ASSUME NEW i \in 1 .. Len(rest), NEW j \in 1 .. Len(rest), i < j,
               rest[i].kind = "leave", rest[j].kind = "join"
        PROVE  rest[i].id # rest[j].id
    <3>1. i + 1 \in 1 .. Len(box) /\ j + 1 \in 1 .. Len(box) /\ i + 1 < j + 1
      BY <1>1, <2>3
    <3>2. QED
      BY <1>2, <2>3, <3>1 DEF InOrderIn
  <2>4. QED
    BY <2>1, <2>2, <2>3 DEF InOrderIn
<1>8. QED
  BY <1>6, <1>7

(* An engine that is stopped forgets its mixer.                            *)
LEMMA StopIsHeard ==
    ASSUME NEW mx, NEW n \in Nat, NEW box \in Seq(Orders), InOrderIn(mx, box, n)
    PROVE  HeardIn({}, box, n) \subseteq HeardIn(mx, box, n) /\ InOrderIn({}, box, n)
BY DEF HeardIn, InOrderIn

-----------------------------------------------------------------------------
(* Who is where, as long as two calls do not meet on one controller.       *)

Leaving == {"release", "release_member"}
Joined  == {"restart", "wire", "rewire", "wire_producer", "rewire_producer", "want", "hold"}
Holding == {"admit", "reshape", "drop"} \cup Joined

(* What a call has in hand at each of its steps.                           *)
CallShape ==
    \A t \in Threads :
        /\ pc[t] = "idle" <=> ctl[t] = None
        /\ op[t] = "retune" => pc[t] \in {"reshape", "restart", "rewire", "rewire_producer", "drop"}
        /\ op[t] # "retune" => pc[t] \notin {"reshape", "drop"}
        /\ old[t] # None <=> pc[t] \in Leaving \cup {"released"}
        /\ held[t] # None <=> pc[t] \in Holding
        /\ pc[t] \notin {"wire_producer", "rewire_producer"} => stale[t] = UNATTACHED

(* A controller is moved by one call at a time, and while it is moved it   *)
(* holds no device.                                                        *)
OneAtWork ==
    /\ \A t, u \in Threads :
          ctl[t] # None /\ ctl[t] = ctl[u] /\ op[t] # "retune" /\ op[u] # "retune" => t = u
    /\ \A t \in Threads : op[t] # "retune" /\ pc[t] \notin {"idle", "take"} => device[ctl[t]] = None

(* The call t keeps c a member of d.                                       *)
BelongsVia(t, c, d) ==
    /\ op[t] # "retune" /\ ctl[t] = c
    /\ \/ pc[t] \in Leaving /\ old[t] = d
       \/ pc[t] \in Joined /\ held[t] = d

(* The members of a device are the controllers that hold it, those that a  *)
(* call has yet to take out, and those that one has let in.                *)
Membership ==
    \A c \in Controllers, d \in Devices :
        c \in members[d] <=> device[c] = d \/ \E t \in Threads : BelongsVia(t, c, d)

Unwired ==
    \A c \in Controllers :
        (\A d \in Devices : c \notin members[d]) => source[c] = UNATTACHED /\ producer[c] = NoRing

RingsApart(d) ==
    \A m \in members[d] :
        /\ source[m] <= next_id[d]
        /\ \A n \in members[d] : m # n /\ source[m] # UNATTACHED => source[m] # source[n]

RingOf(d, m) == [dev |-> d, gen |-> gen[d], id |-> source[m]]

(* The members in M are wired, and nobody else is heard.                   *)
Agrees(d, M) ==
    /\ Heard(d) = {source[m] : m \in M}
    /\ \A m \in M : producer[m] = RingOf(d, m)

Settled(d) ==
    /\ engine[d] <=> members[d] # {}
    /\ metrics[d] = engine[d]
    /\ Agrees(d, members[d])

(* Between the steps of a release, and of a wiring or a restart.           *)
BeingLeft(d, t) ==
    /\ ctl[t] \in members[d] /\ source[ctl[t]] = UNATTACHED
    /\ engine[d] /\ metrics[d]
    /\ Agrees(d, members[d] \ {ctl[t]})

BeingWired(d, t) ==
    /\ members[d] # {} /\ todo[t] \subseteq members[d]
    /\ \A m \in members[d] \ todo[t] : source[m] \in Heard(d) /\ producer[m] = RingOf(d, m)
    /\ Heard(d) \subseteq {source[m] : m \in members[d]} \cup {stale[t]}
    /\ pc[t] \in {"wire", "wire_producer"} => engine[d] /\ metrics[d]
    /\ pc[t] = "restart" => todo[t] = members[d]
    /\ pc[t] \in {"wire_producer", "rewire_producer"} =>
          /\ at[t] \in todo[t] /\ source[at[t]] = next_id[d] /\ source[at[t]] \in Heard(d)
          /\ stale[t] < next_id[d]
          /\ \A m \in members[d] : source[m] = stale[t] => stale[t] = UNATTACHED

DeviceInv(d) ==
    /\ InOrderIn(mix[d], inbox[d], next_id[d])
    /\ RingsApart(d)
    /\ lock[d] = None /\ Alive(d, device, old, held) => Settled(d)
    /\ \A t \in Threads : lock[d] = t =>
          IF pc[t] = "release_member" THEN BeingLeft(d, t) ELSE BeingWired(d, t)

WhoInv == CallShape /\ OneAtWork /\ Membership

OnlyTheLivePlay == \A d \in Devices : ~Alive(d, device, old, held) => ~engine[d]

AllWired == Unwired /\ OnlyTheLivePlay /\ \A d \in Devices : DeviceInv(d)

WiringInv == TypeInv /\ WhoInv /\ AllWired

(* What a call has in hand, step by step.                                  *)
LEMMA ShapeKept ==
    ASSUME TypeInv, CallShape, NEW t \in Threads, Step(t)
    PROVE  CallShape'
<1> USE EngineCtlAssumption DEF TypeInv, ThreadTypes, LockInv, LockTypes, Labels, CallShape, Leaving, Joined, Holding, Goto, Done
<1>1. CASE Take(t)
  BY <1>1, InHand DEF Take, ControllerTypes
<1>2. CASE ReleaseSource(t)
  BY <1>2, InHand DEF ReleaseSource
<1>3. CASE ReleaseMember(t)
  BY <1>3, InHand DEF ReleaseMember
<1>4. CASE Released(t)
  BY <1>4, InHand DEF Released
<1>5. CASE adopt(t)
  BY <1>5, InHand DEF adopt
<1>6. CASE admit(t)
  BY <1>6, InHand DEF admit
<1>7. CASE reshape(t)
  BY <1>7, InHand DEF reshape
<1>8. CASE StopEngine(t)
  BY <1>8, InHand DEF StopEngine
<1>9. CASE WireProducer(t)
  BY <1>9, InHand DEF WireProducer
<1>10. ASSUME NEW m \in Controllers, WireSource(t, m) PROVE CallShape'
  BY <1>10, InHand DEF WireSource
<1>11. CASE Wired(t)
  BY <1>11, InHand DEF Wired, After
<1>12. CASE StartEngine(t)
  BY <1>12, InHand DEF StartEngine, After
<1>13. CASE Want(t)
  BY <1>13, InHand DEF Want
<1>14. CASE Hold(t)
  <2>1. /\ pc' = [pc EXCEPT ![t] = "idle"] /\ op' = [op EXCEPT ![t] = "none"]
        /\ ctl' = [ctl EXCEPT ![t] = None] /\ held' = [held EXCEPT ![t] = None]
        /\ old' = old /\ stale' = stale /\ pc[t] = "hold"
    BY <1>14 DEF Hold
  <2>2. QED
    BY <2>1
<1>15. CASE Drop(t)
  BY <1>15, InHand DEF Drop
<1>16. QED
  BY <1>1, <1>2, <1>3, <1>4, <1>5, <1>6, <1>7, <1>8, <1>9, <1>10, <1>11, <1>12, <1>13, <1>14, <1>15 DEF Step

(* A call stays the only one that moves its controller.                    *)
LEMMA OneKept ==
    ASSUME TypeInv, CallShape, OneAtWork, NEW t \in Threads, Step(t)
    PROVE  OneAtWork'
<1> USE EngineCtlAssumption DEF TypeInv, ThreadTypes, ControllerTypes, LockInv, LockTypes, Labels, CallShape, OneAtWork, Goto, Done, controllerVars
<1>1. CASE Take(t)
  <2>1. device' = [device EXCEPT ![ctl[t]] = None] /\ op[t] # "retune" /\ ctl[t] \in Controllers
    BY <1>1, InHand DEF Take
  <2>2. (\E l \in Labels : Goto(t, l)) \/ Done(t)
    BY <1>1 DEF Take
  <2>3. CASE \E l \in Labels : Goto(t, l)
    BY <2>1, <2>3
  <2>4. CASE Done(t)
    BY <2>1, <2>4
  <2>5. QED
    BY <2>2, <2>3, <2>4
<1>2. CASE ReleaseSource(t)
  BY <1>2, InHand DEF ReleaseSource
<1>3. CASE ReleaseMember(t)
  BY <1>3, InHand DEF ReleaseMember
<1>4. CASE Released(t)
  <2>1. device' = device /\ pc[t] = "released"
    BY <1>4 DEF Released
  <2>2. Goto(t, "adopt") \/ Done(t)
    BY <1>4 DEF Released
  <2>3. CASE Goto(t, "adopt")
    BY <2>1, <2>3
  <2>4. CASE Done(t)
    BY <2>1, <2>4
  <2>5. QED
    BY <2>2, <2>3, <2>4
<1>5. CASE adopt(t)
  BY <1>5, InHand DEF adopt
<1>6. CASE admit(t)
  BY <1>6, InHand DEF admit
<1>7. CASE reshape(t)
  BY <1>7, InHand DEF reshape
<1>8. CASE StopEngine(t)
  BY <1>8, InHand DEF StopEngine
<1>9. CASE WireProducer(t)
  BY <1>9, InHand DEF WireProducer
<1>10. ASSUME NEW m \in Controllers, WireSource(t, m) PROVE OneAtWork'
  BY <1>10, InHand DEF WireSource
<1>11. CASE Wired(t)
  BY <1>11, InHand DEF Wired
<1>12. CASE StartEngine(t)
  BY <1>12, InHand DEF StartEngine
<1>13. CASE Want(t)
  BY <1>13, InHand DEF Want
<1>14. CASE Hold(t)
  <2>1. /\ pc' = [pc EXCEPT ![t] = "idle"] /\ op' = [op EXCEPT ![t] = "none"]
        /\ ctl' = [ctl EXCEPT ![t] = None] /\ device' = [device EXCEPT ![ctl[t]] = held[t]]
        /\ pc[t] = "hold" /\ op[t] # "retune" /\ ctl[t] # None
    BY <1>14 DEF Hold
  <2>2. \A u \in Threads \ {t} : ctl[u] # None /\ op[u] # "retune" => device'[ctl[u]] = device[ctl[u]]
    BY <2>1
  <2>3. QED
    BY <2>1, <2>2
<1>15. CASE Drop(t)
  BY <1>15, InHand DEF Drop
<1>16. QED
  BY <1>1, <1>2, <1>3, <1>4, <1>5, <1>6, <1>7, <1>8, <1>9, <1>10, <1>11, <1>12, <1>13, <1>14, <1>15 DEF Step

(* A step moves nobody but its own caller.                                 *)
LEMMA OthersStayPut ==
    ASSUME TypeInv, NEW t \in Threads, Step(t)
    PROVE  \A u \in Threads \ {t}, c \in Controllers, d \in Devices : BelongsVia(u, c, d)' <=> BelongsVia(u, c, d)
<1> USE EngineCtlAssumption DEF TypeInv, ThreadTypes, LockInv, LockTypes, BelongsVia, Goto, Done
<1>1. CASE Take(t)
  BY <1>1, InHand DEF Take
<1>2. CASE ReleaseSource(t)
  BY <1>2, InHand DEF ReleaseSource
<1>3. CASE ReleaseMember(t)
  BY <1>3, InHand DEF ReleaseMember
<1>4. CASE Released(t)
  BY <1>4, InHand DEF Released
<1>5. CASE adopt(t)
  BY <1>5, InHand DEF adopt
<1>6. CASE admit(t)
  BY <1>6, InHand DEF admit
<1>7. CASE reshape(t)
  BY <1>7, InHand DEF reshape
<1>8. CASE StopEngine(t)
  BY <1>8, InHand DEF StopEngine
<1>9. CASE WireProducer(t)
  BY <1>9, InHand DEF WireProducer
<1>10. ASSUME NEW m \in Controllers, WireSource(t, m) PROVE \A u \in Threads \ {t}, c \in Controllers, d \in Devices : BelongsVia(u, c, d)' <=> BelongsVia(u, c, d)
  BY <1>10, InHand DEF WireSource
<1>11. CASE Wired(t)
  BY <1>11, InHand DEF Wired
<1>12. CASE StartEngine(t)
  BY <1>12, InHand DEF StartEngine
<1>13. CASE Want(t)
  BY <1>13, InHand DEF Want
<1>14. CASE Hold(t)
  BY <1>14, InHand DEF Hold
<1>15. CASE Drop(t)
  BY <1>15, InHand DEF Drop
<1>16. QED
  BY <1>1, <1>2, <1>3, <1>4, <1>5, <1>6, <1>7, <1>8, <1>9, <1>10, <1>11, <1>12, <1>13, <1>14, <1>15 DEF Step

(* Steps that leave their caller where it is, too.                         *)
LEMMA StayingKeepsMembers ==
    ASSUME TypeInv, Membership, NEW t \in Threads, Step(t), members' = members, device' = device,
           \A c \in Controllers, d \in Devices : BelongsVia(t, c, d)' <=> BelongsVia(t, c, d)
    PROVE  Membership'
<1>1. \A u \in Threads, c \in Controllers, d \in Devices : BelongsVia(u, c, d)' <=> BelongsVia(u, c, d)
  BY OthersStayPut
<1>2. QED
  BY <1>1 DEF Membership

(* A step that moves its own controller c.                                 *)
LEMMA MovingKeepsMembers ==
    ASSUME TypeInv, Membership, NEW t \in Threads, Step(t), NEW c \in Controllers,
           \A b \in Controllers \ {c}, e \in Devices :
               /\ b \in members'[e] <=> b \in members[e]
               /\ device'[b] = device[b]
               /\ BelongsVia(t, b, e)' <=> BelongsVia(t, b, e),
           \A e \in Devices : c \in members'[e] <=> device'[c] = e \/ BelongsVia(t, c, e)',
           \A u \in Threads \ {t}, e \in Devices : ~BelongsVia(u, c, e)
    PROVE  Membership'
<1>1. \A e \in Devices : c \in members'[e] <=> device'[c] = e \/ \E u \in Threads : BelongsVia(u, c, e)'
  BY OthersStayPut
<1>2. \A b \in Controllers \ {c}, e \in Devices :
          b \in members'[e] <=> device'[b] = e \/ \E u \in Threads : BelongsVia(u, b, e)'
  BY OthersStayPut DEF Membership
<1>3. QED
  BY <1>1, <1>2 DEF Membership

(* What nobody holds has no members.                                       *)
LEMMA OnlyTheLiveHaveMembers ==
    ASSUME TypeInv, Membership, NEW d \in Devices, ~Alive(d, device, old, held)
    PROVE  members[d] = {}
BY DEF TypeInv, DeviceTypes, Membership, BelongsVia, Alive

(* Nobody is a member of two devices.                                      *)
LEMMA MembersOfOne ==
    ASSUME TypeInv, WhoInv, NEW c \in Controllers, NEW d \in Devices, NEW e \in Devices,
           c \in members[d], c \in members[e]
    PROVE  d = e
BY EngineCtlAssumption DEF WhoInv, CallShape, OneAtWork, Membership, BelongsVia, Leaving, Joined

(* The members stay those that hold the device or are on their way.        *)
LEMMA MembersKept ==
    ASSUME TypeInv, WhoInv, NEW t \in Threads, Step(t)
    PROVE  Membership'
<1>1. CASE Take(t)
  <2>0. PICK c, d : c = ctl[t] /\ d = old[t]
    OBVIOUS
  <2>1. /\ c \in Controllers /\ op[t] # "retune" /\ pc[t] = "take" /\ members' = members
        /\ device' = [device EXCEPT ![c] = None]
    BY <1>1, <2>0, InHand, EngineCtlAssumption DEF Take, OneAtWork, Holding, Joined, controllerVars, deviceVars,
       TypeInv, ThreadTypes, ControllerTypes, DeviceTypes, LockInv, LockTypes, WhoInv, CallShape
  <2>2. \A b \in Controllers, e \in Devices : BelongsVia(t, b, e)' <=> b = c /\ device[c] = e
    BY <1>1, <2>0, <2>1, EngineCtlAssumption DEF BelongsVia, Leaving, Joined, Goto, Done, Take, TypeInv, LockInv, LockTypes, ThreadTypes
  <2>3. \A b \in Controllers, e \in Devices : ~BelongsVia(t, b, e)
    BY <2>0, <2>1, EngineCtlAssumption DEF BelongsVia, Leaving, Joined
  <2>4. \A u \in Threads \ {t}, e \in Devices : ~BelongsVia(u, c, e)
    BY <2>0, <2>1, EngineCtlAssumption DEF OneAtWork, BelongsVia, Leaving, Joined, WhoInv
  <2>5. \A e \in Devices : c \in members'[e] <=> device'[c] = e \/ BelongsVia(t, c, e)'
    <3>1. device \in [Controllers -> Devices \cup {None}] /\ None \notin Devices
      BY EngineCtlAssumption DEF TypeInv, ControllerTypes
    <3>2. device'[c] = None
      BY <2>1, <3>1
    <3>3. \A e \in Devices : c \in members[e] <=> device[c] = e \/ \E u \in Threads : BelongsVia(u, c, e)
      BY <2>1 DEF Membership, WhoInv
    <3>4. \A e \in Devices : ~\E u \in Threads : BelongsVia(u, c, e)
      BY <2>1, <2>3, <2>4
    <3>5. QED
      BY <2>1, <2>2, <3>1, <3>2, <3>3, <3>4
  <2>6. \A b \in Controllers \ {c}, e \in Devices :
            /\ b \in members'[e] <=> b \in members[e]
            /\ device'[b] = device[b]
            /\ BelongsVia(t, b, e)' <=> BelongsVia(t, b, e)
    BY <2>1, <2>2, <2>3 DEF TypeInv, ControllerTypes, DeviceTypes
  <2>7. QED
    BY <2>1, <2>4, <2>5, <2>6, MovingKeepsMembers DEF WhoInv
<1>2. CASE ReleaseSource(t)
  <2>1. members' = members /\ device' = device
    BY <1>2 DEF ReleaseSource, controllerVars, deviceVars
  <2>2. \A c \in Controllers, d \in Devices : BelongsVia(t, c, d)' <=> BelongsVia(t, c, d)
    BY <1>2, InHand DEF ReleaseSource, BelongsVia, Leaving, Joined, Goto, Done,
       TypeInv, ThreadTypes, ControllerTypes, DeviceTypes, LockInv, LockTypes, WhoInv, CallShape
  <2>3. QED
    BY <2>1, <2>2, StayingKeepsMembers DEF WhoInv
<1>3. CASE ReleaseMember(t)
  <2>0. PICK c, d : c = ctl[t] /\ d = old[t]
    OBVIOUS
  <2>1. /\ c \in Controllers /\ d \in Devices /\ op[t] # "retune" /\ device' = device /\ device[c] = None
        /\ members' = [members EXCEPT ![d] = @ \ {c}] /\ pc[t] = "release_member"
    BY <1>3, <2>0, InHand, EngineCtlAssumption DEF ReleaseMember, OneAtWork, Holding, Joined, controllerVars, deviceVars,
       TypeInv, ThreadTypes, ControllerTypes, DeviceTypes, LockInv, LockTypes, WhoInv, CallShape
  <2>2. \A b \in Controllers, e \in Devices : BelongsVia(t, b, e) <=> b = c /\ e = d
    BY <2>0, <2>1, EngineCtlAssumption DEF BelongsVia, Leaving, Joined
  <2>3. \A b \in Controllers, e \in Devices : ~BelongsVia(t, b, e)'
    BY <1>3, <2>0, <2>1, EngineCtlAssumption DEF BelongsVia, Leaving, Joined, Goto, Done, ReleaseMember, TypeInv, LockInv, LockTypes, ThreadTypes
  <2>4. \A u \in Threads \ {t}, e \in Devices : ~BelongsVia(u, c, e)
    BY <2>0, <2>1, EngineCtlAssumption DEF OneAtWork, BelongsVia, Leaving, Joined, WhoInv
  <2>5. \A e \in Devices : c \in members'[e] <=> device'[c] = e \/ BelongsVia(t, c, e)'
    BY <2>1, <2>2, <2>3, <2>4, EngineCtlAssumption DEF Membership, WhoInv, TypeInv, ControllerTypes, DeviceTypes
  <2>6. \A b \in Controllers \ {c}, e \in Devices :
            /\ b \in members'[e] <=> b \in members[e]
            /\ device'[b] = device[b]
            /\ BelongsVia(t, b, e)' <=> BelongsVia(t, b, e)
    BY <2>1, <2>2, <2>3 DEF TypeInv, ControllerTypes, DeviceTypes
  <2>7. QED
    BY <2>1, <2>4, <2>5, <2>6, MovingKeepsMembers DEF WhoInv
<1>4. CASE Released(t)
  <2>1. members' = members /\ device' = device
    BY <1>4 DEF Released, controllerVars, deviceVars
  <2>2. \A c \in Controllers, d \in Devices : BelongsVia(t, c, d)' <=> BelongsVia(t, c, d)
    BY <1>4, InHand DEF Released, BelongsVia, Leaving, Joined, Goto, Done,
       TypeInv, ThreadTypes, ControllerTypes, DeviceTypes, LockInv, LockTypes, WhoInv, CallShape
  <2>3. QED
    BY <2>1, <2>2, StayingKeepsMembers DEF WhoInv
<1>5. CASE adopt(t)
  <2>1. goal[t] \in Devices /\ device' = device
    BY <1>5, InHand DEF adopt, controllerVars
  <2>2. \A c \in Controllers, d \in Devices : ~BelongsVia(t, c, d)' /\ ~BelongsVia(t, c, d)
    BY <1>5, InHand DEF adopt, BelongsVia, Leaving, Joined, Goto, TypeInv, LockInv, LockTypes
  <2>3. ~Alive(goal[t], device, old, held) => members[goal[t]] = {}
    BY <2>1, OnlyTheLiveHaveMembers DEF WhoInv
  <2>4. members' = members
    <3>1. members' = members \/ (members' = [members EXCEPT ![goal[t]] = {}] /\ members[goal[t]] = {})
      BY <1>5, <2>3 DEF adopt
    <3>2. QED
      BY <2>1, <3>1 DEF TypeInv, DeviceTypes
  <2>5. QED
    BY <2>1, <2>2, <2>4, StayingKeepsMembers DEF WhoInv
<1>6. CASE admit(t)
  <2>0. PICK c, d : c = ctl[t] /\ d = held[t]
    OBVIOUS
  <2>1. /\ c \in Controllers /\ d \in Devices /\ op[t] # "retune" /\ device' = device /\ device[c] = None
        /\ members' = [members EXCEPT ![d] = @ \cup {c}] /\ pc[t] = "admit"
    BY <1>6, <2>0, InHand, EngineCtlAssumption DEF admit, OneAtWork, Holding, Joined, controllerVars, deviceVars,
       TypeInv, ThreadTypes, ControllerTypes, DeviceTypes, LockInv, LockTypes, WhoInv, CallShape
  <2>2. \A b \in Controllers, e \in Devices : ~BelongsVia(t, b, e)
    BY <2>0, <2>1, EngineCtlAssumption DEF BelongsVia, Leaving, Joined
  <2>3. \A b \in Controllers, e \in Devices : BelongsVia(t, b, e)' <=> b = c /\ e = d
    BY <1>6, <2>0, <2>1, EngineCtlAssumption DEF BelongsVia, Leaving, Joined, Goto, Done, admit, TypeInv, LockInv, LockTypes, ThreadTypes
  <2>4. \A u \in Threads \ {t}, e \in Devices : ~BelongsVia(u, c, e)
    BY <2>0, <2>1, EngineCtlAssumption DEF OneAtWork, BelongsVia, Leaving, Joined, WhoInv
  <2>5. \A e \in Devices : c \in members'[e] <=> device'[c] = e \/ BelongsVia(t, c, e)'
    BY <2>1, <2>2, <2>3, <2>4, EngineCtlAssumption DEF Membership, WhoInv, TypeInv, ControllerTypes, DeviceTypes
  <2>6. \A b \in Controllers \ {c}, e \in Devices :
            /\ b \in members'[e] <=> b \in members[e]
            /\ device'[b] = device[b]
            /\ BelongsVia(t, b, e)' <=> BelongsVia(t, b, e)
    BY <2>1, <2>2, <2>3 DEF TypeInv, ControllerTypes, DeviceTypes
  <2>7. QED
    BY <2>1, <2>4, <2>5, <2>6, MovingKeepsMembers DEF WhoInv
<1>7. CASE reshape(t)
  <2>1. members' = members /\ device' = device
    BY <1>7 DEF reshape, controllerVars, deviceVars
  <2>2. \A c \in Controllers, d \in Devices : BelongsVia(t, c, d)' <=> BelongsVia(t, c, d)
    BY <1>7, InHand DEF reshape, BelongsVia, Leaving, Joined, Goto, Done,
       TypeInv, ThreadTypes, ControllerTypes, DeviceTypes, LockInv, LockTypes, WhoInv, CallShape
  <2>3. QED
    BY <2>1, <2>2, StayingKeepsMembers DEF WhoInv
<1>8. CASE StopEngine(t)
  <2>1. members' = members /\ device' = device
    BY <1>8 DEF StopEngine, controllerVars, deviceVars
  <2>2. \A c \in Controllers, d \in Devices : BelongsVia(t, c, d)' <=> BelongsVia(t, c, d)
    BY <1>8, InHand DEF StopEngine, BelongsVia, Leaving, Joined, Goto, Done,
       TypeInv, ThreadTypes, ControllerTypes, DeviceTypes, LockInv, LockTypes, WhoInv, CallShape
  <2>3. QED
    BY <2>1, <2>2, StayingKeepsMembers DEF WhoInv
<1>9. CASE WireProducer(t)
  <2>1. members' = members /\ device' = device
    BY <1>9 DEF WireProducer, controllerVars, deviceVars
  <2>2. \A c \in Controllers, d \in Devices : BelongsVia(t, c, d)' <=> BelongsVia(t, c, d)
    BY <1>9, InHand DEF WireProducer, BelongsVia, Leaving, Joined, Goto, Done,
       TypeInv, ThreadTypes, ControllerTypes, DeviceTypes, LockInv, LockTypes, WhoInv, CallShape
  <2>3. QED
    BY <2>1, <2>2, StayingKeepsMembers DEF WhoInv
<1>10. ASSUME NEW m \in Controllers, WireSource(t, m) PROVE Membership'
  <2>1. members' = members /\ device' = device
    BY <1>10 DEF WireSource, controllerVars, deviceVars
  <2>2. \A c \in Controllers, d \in Devices : BelongsVia(t, c, d)' <=> BelongsVia(t, c, d)
    BY <1>10, InHand DEF WireSource, BelongsVia, Leaving, Joined, Goto, Done,
       TypeInv, ThreadTypes, ControllerTypes, DeviceTypes, LockInv, LockTypes, WhoInv, CallShape
  <2>3. QED
    BY <2>1, <2>2, StayingKeepsMembers DEF WhoInv
<1>11. CASE Wired(t)
  <2>1. members' = members /\ device' = device
    BY <1>11 DEF Wired, controllerVars, deviceVars
  <2>2. \A c \in Controllers, d \in Devices : BelongsVia(t, c, d)' <=> BelongsVia(t, c, d)
    BY <1>11, InHand DEF Wired, BelongsVia, Leaving, Joined, Goto, Done, After,
       TypeInv, ThreadTypes, ControllerTypes, DeviceTypes, LockInv, LockTypes, WhoInv, CallShape
  <2>3. QED
    BY <2>1, <2>2, StayingKeepsMembers DEF WhoInv
<1>12. CASE StartEngine(t)
  <2>1. members' = members /\ device' = device
    BY <1>12 DEF StartEngine, controllerVars, deviceVars
  <2>2. \A c \in Controllers, d \in Devices : BelongsVia(t, c, d)' <=> BelongsVia(t, c, d)
    BY <1>12, InHand DEF StartEngine, BelongsVia, Leaving, Joined, Goto, Done, After,
       TypeInv, ThreadTypes, ControllerTypes, DeviceTypes, LockInv, LockTypes, WhoInv, CallShape
  <2>3. QED
    BY <2>1, <2>2, StayingKeepsMembers DEF WhoInv
<1>13. CASE Want(t)
  <2>1. members' = members /\ device' = device
    BY <1>13 DEF Want, controllerVars, deviceVars
  <2>2. \A c \in Controllers, d \in Devices : BelongsVia(t, c, d)' <=> BelongsVia(t, c, d)
    BY <1>13, InHand DEF Want, BelongsVia, Leaving, Joined, Goto, Done,
       TypeInv, ThreadTypes, ControllerTypes, DeviceTypes, LockInv, LockTypes, WhoInv, CallShape
  <2>3. QED
    BY <2>1, <2>2, StayingKeepsMembers DEF WhoInv
<1>14. CASE Hold(t)
  <2>0. PICK c, d : c = ctl[t] /\ d = held[t]
    OBVIOUS
  <2>1. /\ c \in Controllers /\ d \in Devices /\ op[t] # "retune" /\ members' = members /\ device[c] = None
        /\ device' = [device EXCEPT ![c] = d] /\ pc[t] = "hold"
    <3>1. pc[t] = "hold" /\ device' = [device EXCEPT ![c] = d] /\ members' = members
      BY <1>14, <2>0 DEF Hold
    <3>2. c \in Controllers
      BY <2>0, <3>1, InHand
    <3>3. op[t] # "retune" /\ held[t] # None
      BY <3>1 DEF WhoInv, CallShape, Holding, Joined
    <3>4. device[c] = None
      BY <2>0, <3>1, <3>3 DEF WhoInv, OneAtWork
    <3>5. d \in Devices
      BY <2>0, <3>3 DEF TypeInv, ThreadTypes
    <3>6. QED
      BY <3>1, <3>2, <3>3, <3>4, <3>5
  <2>2. \A b \in Controllers, e \in Devices : BelongsVia(t, b, e) <=> b = c /\ e = d
    BY <2>0, <2>1, EngineCtlAssumption DEF BelongsVia, Leaving, Joined
  <2>3. \A b \in Controllers, e \in Devices : ~BelongsVia(t, b, e)'
    BY <1>14, <2>0, <2>1, EngineCtlAssumption DEF BelongsVia, Leaving, Joined, Goto, Done, Hold, TypeInv, LockInv, LockTypes, ThreadTypes
  <2>4. \A u \in Threads \ {t}, e \in Devices : ~BelongsVia(u, c, e)
    BY <2>0, <2>1, EngineCtlAssumption DEF OneAtWork, BelongsVia, Leaving, Joined, WhoInv
  <2>5. \A e \in Devices : c \in members'[e] <=> device'[c] = e \/ BelongsVia(t, c, e)'
    <3>1. device'[c] = d
      BY <2>1 DEF TypeInv, ControllerTypes
    <3>2. \A e \in Devices : c \in members[e] <=> e = d
      BY <2>1, <2>2, <2>4, EngineCtlAssumption DEF Membership, WhoInv
    <3>3. QED
      BY <2>1, <2>3, <3>1, <3>2
  <2>6. \A b \in Controllers \ {c}, e \in Devices :
            /\ b \in members'[e] <=> b \in members[e]
            /\ device'[b] = device[b]
            /\ BelongsVia(t, b, e)' <=> BelongsVia(t, b, e)
    BY <2>1, <2>2, <2>3 DEF TypeInv, ControllerTypes, DeviceTypes
  <2>7. QED
    BY <2>1, <2>4, <2>5, <2>6, MovingKeepsMembers DEF WhoInv
<1>15. CASE Drop(t)
  <2>1. members' = members /\ device' = device
    BY <1>15 DEF Drop, controllerVars, deviceVars
  <2>2. \A c \in Controllers, d \in Devices : BelongsVia(t, c, d)' <=> BelongsVia(t, c, d)
    BY <1>15, InHand DEF Drop, BelongsVia, Leaving, Joined, Goto, Done,
       TypeInv, ThreadTypes, ControllerTypes, DeviceTypes, LockInv, LockTypes, WhoInv, CallShape
  <2>3. QED
    BY <2>1, <2>2, StayingKeepsMembers DEF WhoInv
<1>16. QED
  BY <1>1, <1>2, <1>3, <1>4, <1>5, <1>6, <1>7, <1>8, <1>9, <1>10, <1>11, <1>12, <1>13, <1>14, <1>15 DEF Step

-----------------------------------------------------------------------------
(* What a step must not touch for a device to stay as it is.               *)
SameWiring(d) ==
    /\ gen'[d] = gen[d] /\ lock'[d] = lock[d] /\ members'[d] = members[d]
    /\ engine'[d] = engine[d] /\ metrics'[d] = metrics[d] /\ next_id'[d] = next_id[d]
    /\ \A m \in members[d] : source'[m] = source[m] /\ producer'[m] = producer[m]
    /\ \A t \in Threads : lock[d] = t =>
          pc'[t] = pc[t] /\ ctl'[t] = ctl[t] /\ todo'[t] = todo[t] /\ at'[t] = at[t] /\ stale'[t] = stale[t]
    /\ Alive(d, device, old, held)' => Alive(d, device, old, held)

SameDevice(d) == SameWiring(d) /\ inbox'[d] = inbox[d] /\ mix'[d] = mix[d]

LEMMA SameWiringKeeps ==
    ASSUME TypeInv, NEW d \in Devices, DeviceInv(d), SameWiring(d),
           Heard(d)' = Heard(d), InOrderIn(mix[d], inbox[d], next_id[d])'
    PROVE  DeviceInv(d)'
<1>1. Heard(d)' = Heard(d)
  OBVIOUS
<1>2. InOrderIn(mix[d], inbox[d], next_id[d])' /\ RingsApart(d)'
  BY DEF SameWiring, DeviceInv, RingsApart
<1>3. \A m \in members[d] : RingOf(d, m)' = RingOf(d, m)
  BY DEF SameWiring, RingOf
<1>4. ASSUME NEW M \in SUBSET members[d], Agrees(d, M)
      PROVE  Heard(d)' = {source'[m] : m \in M} /\ \A m \in M : producer'[m] = RingOf(d, m)'
  <2>1. {source'[m] : m \in M} = {source[m] : m \in M}
    BY DEF SameWiring
  <2>2. QED
    BY <1>1, <1>3, <1>4, <2>1 DEF SameWiring, Agrees
<1>5. lock'[d] = None /\ Alive(d, device, old, held)' => Settled(d)'
  <2> SUFFICES ASSUME Settled(d) PROVE Settled(d)'
    BY DEF SameWiring, DeviceInv
  <2>1. Heard(d)' = {source'[m] : m \in members[d]} /\ \A m \in members[d] : producer'[m] = RingOf(d, m)'
    BY <1>4 DEF Settled
  <2>2. QED
    BY <2>1 DEF SameWiring, Settled, Agrees
<1>6. ASSUME NEW t \in Threads, lock[d] = t
      PROVE  (IF pc[t] = "release_member" THEN BeingLeft(d, t) ELSE BeingWired(d, t))'
  <2>1. pc'[t] = pc[t] /\ ctl'[t] = ctl[t] /\ todo'[t] = todo[t] /\ at'[t] = at[t] /\ stale'[t] = stale[t]
    BY <1>6 DEF SameWiring
  <2>2. CASE pc[t] = "release_member"
    <3>1. BeingLeft(d, t)
      BY <1>6, <2>2 DEF DeviceInv
    <3>2. /\ Heard(d)' = {source'[m] : m \in members[d] \ {ctl[t]}}
          /\ \A m \in members[d] \ {ctl[t]} : producer'[m] = RingOf(d, m)'
      BY <1>4, <3>1 DEF BeingLeft
    <3>3. BeingLeft(d, t)'
      BY <2>1, <3>1, <3>2 DEF SameWiring, BeingLeft, Agrees
    <3>4. QED
      BY <2>1, <2>2, <3>3
  <2>3. CASE pc[t] # "release_member"
    <3>1. BeingWired(d, t)
      BY <1>6, <2>3 DEF DeviceInv
    <3>2. {source'[m] : m \in members[d]} = {source[m] : m \in members[d]}
      BY DEF SameWiring
    <3>3. pc[t] \in {"wire_producer", "rewire_producer"} => at[t] \in members[d]
      BY <3>1 DEF BeingWired
    <3>4. BeingWired(d, t)'
      BY <1>1, <1>3, <2>1, <3>1, <3>2, <3>3 DEF SameWiring, BeingWired
    <3>5. QED
      BY <2>1, <2>3, <3>4
  <2>4. QED
    BY <2>2, <2>3
<1>7. \A t \in Threads : lock'[d] = t => lock[d] = t
  BY DEF SameWiring
<1>8. QED
  BY <1>2, <1>5, <1>6, <1>7 DEF DeviceInv

LEMMA SameDeviceKeeps ==
    ASSUME TypeInv, NEW d \in Devices, DeviceInv(d), SameDevice(d)
    PROVE  DeviceInv(d)'
<1>1. Heard(d)' = Heard(d)
  BY DEF SameDevice, SameWiring, Heard, Queued
<1>2. InOrderIn(mix[d], inbox[d], next_id[d])'
  BY DEF SameDevice, SameWiring, DeviceInv, InOrderIn
<1>3. QED
  BY <1>1, <1>2, SameWiringKeeps DEF SameDevice

(* Nobody but its holder works in the lock of a device.                    *)
LEMMA HolderIsThere ==
    ASSUME TypeInv, NEW t \in Threads, NEW d \in Devices, lock[d] = t
    PROVE  pc[t] \in Locked /\ d = Place(t)
BY DEF TypeInv, LockInv, LocksKept

(* A step changes no other device than the one its thread has in hand.     *)
OnlyAt(t, e) ==
    /\ \A d \in Devices \ {e} :
          /\ gen'[d] = gen[d] /\ lock'[d] = lock[d] /\ members'[d] = members[d]
          /\ engine'[d] = engine[d] /\ metrics'[d] = metrics[d]
          /\ inbox'[d] = inbox[d] /\ next_id'[d] = next_id[d] /\ mix'[d] = mix[d]
          /\ Alive(d, device, old, held)' => Alive(d, device, old, held)
    /\ \A m \in Controllers : m \notin members[e] => source'[m] = source[m] /\ producer'[m] = producer[m]
    /\ \A u \in Threads \ {t} :
          pc'[u] = pc[u] /\ ctl'[u] = ctl[u] /\ todo'[u] = todo[u] /\ at'[u] = at[u] /\ stale'[u] = stale[u]
    /\ pc[t] \in Locked => Place(t) = e

LEMMA ElsewhereKept ==
    ASSUME TypeInv, WhoInv, NEW t \in Threads, NEW e \in Devices, OnlyAt(t, e),
           NEW d \in Devices \ {e}, DeviceInv(d)
    PROVE  DeviceInv(d)'
<1>1. \A u \in Threads : lock[d] = u => u # t
  BY HolderIsThere DEF OnlyAt
<1>2. \A m \in members[d] : m \notin members[e] /\ m \in Controllers
  BY MembersOfOne DEF TypeInv, DeviceTypes
<1>3. SameDevice(d)
  BY <1>1, <1>2 DEF OnlyAt, SameDevice, SameWiring
<1>4. QED
  BY <1>3, SameDeviceKeeps

-----------------------------------------------------------------------------
(* Who is where, over every step.                                          *)

LEMMA WhoInit == Init => WhoInv
<1> SUFFICES ASSUME Init PROVE WhoInv
  OBVIOUS
<1>1. CallShape /\ OneAtWork
  BY EngineCtlAssumption DEF Init, CallShape, OneAtWork, Leaving, Joined, Holding
<1>2. Membership
  BY EngineCtlAssumption DEF Init, Membership, BelongsVia, Leaving, Joined
<1>3. QED
  BY <1>1, <1>2 DEF WhoInv

(* The host's own calls on an instance never meet; only a switch from the  *)
(* editor could meet another call.                                         *)
LEMMA OnlySwitchesMeet ==
    ASSUME NEW c \in Controllers, NEW kind, MayCall(c, kind), "set_device" \notin Overlap
    PROVE  kind = "retune" \/ Busy(c) = {}
<1> SUFFICES ASSUME kind # "retune", Busy(c) # {} PROVE FALSE
  OBVIOUS
<1>1. kind \in Overlap /\ \A t \in Busy(c) : op[t] \in Overlap
  BY DEF MayCall
<1>2. Overlap \subseteq HostOps
  BY EngineCtlAssumption DEF HostOps
<1>3. QED
  BY <1>1, <1>2 DEF MayCall

(* A call that moves a controller begins when no other does.               *)
LEMMA CallBegins ==
    ASSUME TypeInv, NEW t \in Threads, Call(t)
    PROVE  \E c \in Controllers, kind \in {"initialize", "deactivate", "set_device", "retune"} :
              /\ pc[t] = "idle" /\ ("set_device" \notin Overlap => kind = "retune" \/ Busy(c) = {})
              /\ pc' = [pc EXCEPT ![t] = IF kind = "retune" THEN "reshape" ELSE "take"]
              /\ op' = [op EXCEPT ![t] = kind] /\ ctl' = [ctl EXCEPT ![t] = c]
              /\ IF kind = "retune" THEN held' = [held EXCEPT ![t] = device[c]] /\ device[c] # None
                                    ELSE held' = held
              /\ UNCHANGED <<controllerVars, deviceVars, old, todo, at, stale>>
<1> PICK c \in Controllers : \/ \E d \in Devices : initialize(t, c, d) \/ set_device(t, c, d)
                             \/ deactivate(t, c) \/ retune(t, c)
  BY DEF Call
<1>1. ASSUME NEW d \in Devices, initialize(t, c, d) PROVE Begin(t, c, "initialize", d, "take") /\ held' = held
  BY <1>1 DEF initialize
<1>2. ASSUME NEW d \in Devices, set_device(t, c, d) PROVE Begin(t, c, "set_device", d, "take") /\ held' = held
  BY <1>2 DEF set_device
<1>3. CASE deactivate(t, c)
  BY <1>3, OnlySwitchesMeet DEF deactivate, Begin
<1>4. CASE retune(t, c)
  BY <1>4 DEF retune, Begin
<1>5. ASSUME NEW d \in Devices, initialize(t, c, d) \/ set_device(t, c, d)
      PROVE  \E kind \in {"initialize", "set_device"} : Begin(t, c, kind, d, "take") /\ held' = held
  BY <1>1, <1>2, <1>5
<1>6. QED
  BY <1>3, <1>4, <1>5, OnlySwitchesMeet DEF Begin

LEMMA CallKeepsWho ==
    ASSUME "set_device" \notin Overlap, TypeInv, WhoInv, NEW t \in Threads, Call(t)
    PROVE  WhoInv'
<1> PICK c \in Controllers, kind \in {"initialize", "deactivate", "set_device", "retune"} :
              /\ pc[t] = "idle" /\ ("set_device" \notin Overlap => kind = "retune" \/ Busy(c) = {})
              /\ pc' = [pc EXCEPT ![t] = IF kind = "retune" THEN "reshape" ELSE "take"]
              /\ op' = [op EXCEPT ![t] = kind] /\ ctl' = [ctl EXCEPT ![t] = c]
              /\ IF kind = "retune" THEN held' = [held EXCEPT ![t] = device[c]] /\ device[c] # None
                                    ELSE held' = held
              /\ UNCHANGED <<controllerVars, deviceVars, old, todo, at, stale>>
  BY CallBegins
<1> USE EngineCtlAssumption
<1>1. CallShape'
  BY DEF WhoInv, CallShape, Leaving, Joined, Holding, TypeInv, LockInv, LockTypes, ControllerTypes, ThreadTypes
<1>2. kind = "retune" \/ \A u \in Threads : ctl[u] = c => op[u] = "retune"
  BY DEF Busy
<1>3. device' = device /\ members' = members /\ old' = old
  BY DEF controllerVars, deviceVars
<1>4. OneAtWork'
  BY <1>2, <1>3 DEF WhoInv, OneAtWork, TypeInv, LockInv, LockTypes, ThreadTypes
<1>5. \A u \in Threads, b \in Controllers, d \in Devices : BelongsVia(u, b, d)' <=> BelongsVia(u, b, d)
  BY <1>3 DEF BelongsVia, TypeInv, LockInv, LockTypes, ThreadTypes, Leaving, Joined
<1>6. Membership'
  BY <1>3, <1>5 DEF WhoInv, Membership
<1>7. QED
  BY <1>1, <1>4, <1>6 DEF WhoInv

LEMMA WhoStep == "set_device" \notin Overlap /\ TypeInv /\ WhoInv /\ [Next]_vars => WhoInv'
<1> SUFFICES ASSUME "set_device" \notin Overlap, TypeInv, WhoInv, [Next]_vars PROVE WhoInv'
  OBVIOUS
<1>1. ASSUME NEW t \in Threads, Call(t) PROVE WhoInv'
  BY <1>1, CallKeepsWho
<1>2. ASSUME NEW t \in Threads, Step(t) PROVE WhoInv'
  BY <1>2, ShapeKept, OneKept, MembersKept DEF WhoInv
<1>3. ASSUME UNCHANGED <<controllerVars, threadVars>>, members' = members PROVE WhoInv'
  BY <1>3 DEF WhoInv, CallShape, OneAtWork, Membership, BelongsVia, controllerVars, threadVars
<1>4. ASSUME NEW d \in Devices, EngineDrain(d) PROVE WhoInv'
  BY <1>3, <1>4 DEF EngineDrain
<1>5. CASE UNCHANGED vars
  BY <1>3, <1>5 DEF vars, deviceVars
<1>6. QED
  BY <1>1, <1>2, <1>4, <1>5 DEF Next, Rest

-----------------------------------------------------------------------------
(* Every step keeps the devices: first those that work on none.            *)

LEMMA CallKeepsDevices ==
    ASSUME TypeInv, NEW t \in Threads, Call(t), NEW d \in Devices, DeviceInv(d)
    PROVE  DeviceInv(d)'
<1>1. pc[t] = "idle"
  BY CallBegins
<1>2. lock[d] # t
  BY <1>1, HolderIsThere DEF Locked
<1>3. SameDevice(d)
  BY <1>1, <1>2, CallBegins DEF SameDevice, SameWiring, Alive, controllerVars, deviceVars, busVars,
     TypeInv, LockInv, LockTypes, ThreadTypes
<1>4. QED
  BY <1>3, SameDeviceKeeps

LEMMA QuietKeepsDevices ==
    ASSUME TypeInv, NEW t \in Threads, Take(t) \/ Want(t), NEW d \in Devices, DeviceInv(d)
    PROVE  DeviceInv(d)'
<1>1. pc[t] \in {"take", "want"}
  BY DEF Take, Want
<1>2. lock[d] # t
  BY <1>1, HolderIsThere DEF Locked
<1>3. SameDevice(d)
  <2>1. CASE Take(t)
    <3>1. ctl[t] \in Controllers
      BY <1>1, InHand
    <3>2. \A u \in Threads \ {t} : pc'[u] = pc[u] /\ ctl'[u] = ctl[u]
      BY <2>1 DEF Take, Goto, Done, TypeInv, LockInv, LockTypes
    <3>3. Alive(d, device, old, held)' => Alive(d, device, old, held)
      BY <2>1, <3>1, EngineCtlAssumption DEF Take, Alive, TypeInv, LockInv, LockTypes
    <3>4. QED
      BY <1>2, <2>1, <3>2, <3>3 DEF Take, SameDevice, SameWiring, deviceVars, busVars
  <2>2. CASE Want(t)
    BY <1>2, <2>2, InHand DEF Want, Goto, SameDevice, SameWiring, Alive, deviceVars, busVars,
       TypeInv, LockInv, LockTypes, ThreadTypes
  <2>3. QED
    BY <2>1, <2>2
<1>4. QED
  BY <1>3, SameDeviceKeeps

(* A reference is let go: a device that dies has no wiring to agree on.    *)
LEMMA DroppingKeepsDevices ==
    ASSUME TypeInv, NEW t \in Threads, Released(t) \/ Hold(t) \/ Drop(t), NEW d \in Devices, DeviceInv(d)
    PROVE  DeviceInv(d)'
<1>1. pc[t] \in {"released", "hold", "drop"}
  BY DEF Released, Hold, Drop
<1>2. lock[d] # t
  BY <1>1, HolderIsThere DEF Locked
<1>3. /\ UNCHANGED <<source, producer, gen, lock, members, metrics, inbox, next_id, todo, at, stale>>
      /\ DropUnreferenced
  BY DEF Released, Hold, Drop
<1>4. \A u \in Threads \ {t} : pc'[u] = pc[u] /\ ctl'[u] = ctl[u] /\ old'[u] = old[u] /\ held'[u] = held[u]
  <2>1. CASE Released(t)
    BY <2>1 DEF Released, Goto, Done, TypeInv, LockInv, LockTypes
  <2>2. CASE Hold(t)
    BY <2>2 DEF Hold, Done, TypeInv, LockInv, LockTypes
  <2>3. CASE Drop(t)
    BY <2>3 DEF Drop, Done, TypeInv, LockInv, LockTypes
  <2>4. QED
    BY <2>1, <2>2, <2>3
<1>5. Alive(d, device, old, held)' => Alive(d, device, old, held)
  <2>1. CASE Released(t)
    BY <2>1, EngineCtlAssumption DEF Released, Alive, TypeInv, LockInv, LockTypes
  <2>2. CASE Hold(t)
    BY <2>2, EngineCtlAssumption DEF Hold, Alive, TypeInv, LockInv, LockTypes
  <2>3. CASE Drop(t)
    BY <2>3, EngineCtlAssumption DEF Drop, Alive, TypeInv, LockInv, LockTypes
  <2>4. QED
    BY <2>1, <2>2, <2>3
<1>6. CASE Alive(d, device, old, held)'
  <2>1. engine'[d] = engine[d] /\ mix'[d] = mix[d]
    BY <1>3, <1>6 DEF DropUnreferenced, TypeInv, DeviceTypes
  <2>2. SameDevice(d)
    BY <1>2, <1>3, <1>4, <1>5, <2>1 DEF SameDevice, SameWiring
  <2>3. QED
    BY <2>2, SameDeviceKeeps
<1>7. CASE ~Alive(d, device, old, held)'
  <2>1. lock'[d] = lock[d]
    BY <1>3
  <2>2. ASSUME NEW u \in Threads, lock[d] = u PROVE FALSE
    <3>1. u # t
      BY <1>2, <2>2
    <3>2. old[u] = d \/ held[u] = d
      BY <2>2, HolderIsThere DEF Place
    <3>3. QED
      BY <1>4, <1>7, <3>1, <3>2 DEF Alive
  <2>3. mix'[d] = mix[d] \/ mix'[d] = {}
    BY <1>3 DEF DropUnreferenced
  <2>4. InOrderIn(mix[d], inbox[d], next_id[d])'
    BY <1>3, <2>3 DEF DeviceInv, InOrderIn
  <2>5. RingsApart(d)'
    BY <1>3 DEF DeviceInv, RingsApart
  <2>6. QED
    BY <1>7, <2>1, <2>2, <2>4, <2>5 DEF DeviceInv
<1>8. QED
  BY <1>6, <1>7

(* The engine catches up.                                                  *)
LEMMA DrainKeepsDevices ==
    ASSUME TypeInv, NEW e \in Devices, EngineDrain(e), NEW d \in Devices, DeviceInv(d)
    PROVE  DeviceInv(d)'
<1>1. SameWiring(d)
  BY DEF EngineDrain, SameWiring, Alive, controllerVars, threadVars
<1>2. CASE d # e
  BY <1>1, <1>2, SameDeviceKeeps DEF EngineDrain, SameDevice, TypeInv, BusTypes
<1>3. CASE d = e
  <2>1. /\ inbox[d] # <<>> /\ inbox'[d] = Tail(inbox[d]) /\ next_id'[d] = next_id[d]
        /\ mix'[d] = IF Head(inbox[d]).kind = "join" THEN mix[d] \cup {Head(inbox[d]).id}
                                                     ELSE mix[d] \ {Head(inbox[d]).id}
    BY <1>3 DEF EngineDrain, TypeInv, BusTypes
  <2>2. inbox[d] \in Seq(Orders) /\ next_id[d] \in Nat
    BY DEF TypeInv, BusTypes
  <2>3. InOrderIn(mix[d], inbox[d], next_id[d])
    BY DEF DeviceInv
  <2> DEFINE mx == mix[d]  box == inbox[d]  n == next_id[d]
             my == IF Head(box).kind = "join" THEN mx \cup {Head(box).id} ELSE mx \ {Head(box).id}
  <2>3a. HeardIn(my, Tail(box), n) = HeardIn(mx, box, n) /\ InOrderIn(my, Tail(box), n)
    <3> HIDE DEF mx, n
    <3>1. box \in Seq(Orders) /\ box # <<>> /\ n \in Nat /\ InOrderIn(mx, box, n)
      BY <2>1, <2>2, <2>3 DEF mx, n
    <3> HIDE DEF box
    <3> QED
      BY <3>1, DrainIsNotHeard
  <2>4. /\ HeardIn(mix'[d], inbox'[d], next_id'[d]) = HeardIn(mix[d], inbox[d], next_id[d])
        /\ InOrderIn(mix'[d], inbox'[d], next_id'[d])
    BY <2>1, <2>3a
  <2>5. Heard(d)' = Heard(d)
    BY <2>4 DEF Heard, HeardIn, Queued
  <2>6. QED
    BY <1>1, <2>4, <2>5, SameWiringKeeps
<1>4. QED
  BY <1>2, <1>3

-----------------------------------------------------------------------------
(* Then those that work on one, under its lock or about to take it.        *)

(* The device a call has in hand, and the call's own controller.           *)
LEMMA LeavingOne ==
    ASSUME TypeInv, WhoInv, NEW t \in Threads, pc[t] \in Leaving
    PROVE  /\ ctl[t] \in Controllers /\ old[t] \in Devices /\ ctl[t] \in members[old[t]]
           /\ Alive(old[t], device, old, held)
<1>1. ctl[t] \in Controllers /\ old[t] \in Devices
  BY InHand DEF Leaving
<1>2. op[t] # "retune"
  BY DEF Leaving, WhoInv, CallShape
<1>3. BelongsVia(t, ctl[t], old[t])
  BY <1>2 DEF BelongsVia
<1>4. QED
  BY <1>1, <1>3 DEF WhoInv, Membership, Alive

LEMMA JoiningOne ==
    ASSUME TypeInv, WhoInv, NEW t \in Threads, pc[t] \in Holding
    PROVE  /\ ctl[t] \in Controllers /\ held[t] \in Devices
           /\ Alive(held[t], device, old, held)
<1>1. ctl[t] \in Controllers
  BY InHand DEF Holding, Joined
<1>2. held[t] \in Devices
  BY DEF WhoInv, CallShape, TypeInv, ThreadTypes
<1>3. QED
  BY <1>1, <1>2 DEF Alive

(* A member that leaves: first its ring goes.                              *)
LEMMA ReleaseSourceKeepsDevices ==
    ASSUME TypeInv, WhoInv, \A d \in Devices : DeviceInv(d), NEW t \in Threads, ReleaseSource(t)
    PROVE  \A d \in Devices : DeviceInv(d)'
<1> PICK c, e : c = ctl[t] /\ e = old[t]
  OBVIOUS
<1>1. /\ c \in Controllers /\ e \in Devices /\ c \in members[e] /\ Alive(e, device, old, held)
      /\ pc[t] = "release" /\ lock[e] = None
  BY LeavingOne DEF ReleaseSource, Leaving
<1>2. /\ DeviceInv(e) /\ Settled(e)
  BY <1>1 DEF DeviceInv
<1>3. /\ members[e] \subseteq Controllers /\ next_id[e] \in Nat /\ inbox[e] \in Seq(Orders)
      /\ \A m \in Controllers : source[m] \in Nat
  BY <1>1 DEF TypeInv, ControllerTypes, DeviceTypes, BusTypes
<1>4. source[c] \in Heard(e) /\ Heard(e) \subseteq 1 .. next_id[e]
  BY <1>1, <1>2 DEF Settled, Agrees, Heard
<1>5. source[c] \in 1 .. next_id[e] /\ source[c] # UNATTACHED
  BY <1>3, <1>4 DEF UNATTACHED
<1>6. /\ lock' = [lock EXCEPT ![e] = t] /\ source' = [source EXCEPT ![c] = UNATTACHED]
      /\ inbox' = [inbox EXCEPT ![e] = Append(@, Leave(source[c]))]
      /\ pc' = [pc EXCEPT ![t] = "release_member"]
      /\ UNCHANGED <<device, producer, gen, members, engine, metrics, next_id, mix, ctl, old, held, todo, at, stale>>
  BY <1>1, <1>5 DEF ReleaseSource, Goto
<1>7. /\ lock'[e] = t /\ pc'[t] = "release_member" /\ source'[c] = UNATTACHED
      /\ \A m \in Controllers \ {c} : source'[m] = source[m]
      /\ inbox'[e] = Append(inbox[e], Leave(source[c]))
  BY <1>1, <1>6 DEF TypeInv, LockInv, LockTypes, ControllerTypes, BusTypes
<1>8. /\ HeardIn(mix[e], Append(inbox[e], Leave(source[c])), next_id[e])
             = HeardIn(mix[e], inbox[e], next_id[e]) \ {source[c]}
      /\ InOrderIn(mix[e], Append(inbox[e], Leave(source[c])), next_id[e])
  BY <1>2, <1>3, <1>5, LeaveIsHeard DEF DeviceInv
<1>9. Heard(e)' = Heard(e) \ {source[c]}
  <2>1. mix'[e] = mix[e] /\ next_id'[e] = next_id[e]
    BY <1>6
  <2>2. Heard(e)' = HeardIn(mix'[e], inbox'[e], next_id'[e])
    BY DEF Heard, HeardIn, Queued
  <2>3. Heard(e) = HeardIn(mix[e], inbox[e], next_id[e])
    BY <1>1, HeardIsHeardIn
  <2>4. QED
    BY <1>7, <1>8, <2>1, <2>2, <2>3
<1>10. BeingLeft(e, t)'
  <2>1. engine'[e] /\ metrics'[e]
    BY <1>1, <1>2, <1>6 DEF Settled
  <2>2. Heard(e)' = {source[m] : m \in members[e] \ {c}}
    <3>1. Heard(e) = {source[m] : m \in members[e]}
      BY <1>2 DEF Settled, Agrees
    <3>2. \A m \in members[e] \ {c} : source[m] # source[c]
      BY <1>1, <1>2, <1>5 DEF DeviceInv, RingsApart
    <3>3. QED
      BY <1>1, <1>9, <3>1, <3>2
  <2>3. Heard(e)' = {source'[m] : m \in members[e] \ {c}}
    BY <1>3, <1>7, <2>2
  <2>4. \A m \in members[e] \ {c} : producer'[m] = RingOf(e, m)'
    BY <1>2, <1>3, <1>6, <1>7 DEF Settled, Agrees, RingOf
  <2>5. QED
    BY <1>1, <1>6, <1>7, <2>1, <2>3, <2>4 DEF BeingLeft, Agrees
<1>11. RingsApart(e)'
  BY <1>2, <1>3, <1>6, <1>7 DEF DeviceInv, RingsApart, UNATTACHED
<1>12. DeviceInv(e)'
  BY <1>6, <1>7, <1>8, <1>10, <1>11, EngineCtlAssumption DEF DeviceInv
<1>13. OnlyAt(t, e)
  BY <1>1, <1>6, <1>7 DEF OnlyAt, Alive, Locked, TypeInv, LockInv, LockTypes, BusTypes
<1>14. QED
  BY <1>1, <1>12, <1>13, ElsewhereKept

(* Then it goes itself, and the last one out turns the engine off.         *)
LEMMA ReleaseMemberKeepsDevices ==
    ASSUME TypeInv, WhoInv, \A d \in Devices : DeviceInv(d), NEW t \in Threads, ReleaseMember(t)
    PROVE  \A d \in Devices : DeviceInv(d)'
<1> PICK c, e : c = ctl[t] /\ e = old[t]
  OBVIOUS
<1>1. /\ c \in Controllers /\ e \in Devices /\ c \in members[e] /\ Alive(e, device, old, held)
      /\ pc[t] = "release_member" /\ Place(t) = e /\ lock[e] = t
  BY LeavingOne DEF ReleaseMember, Leaving, Place, Locked, TypeInv, LockInv, LocksKept
<1>2. DeviceInv(e) /\ BeingLeft(e, t)
  BY <1>1 DEF DeviceInv
<1>3. /\ members[e] \subseteq Controllers /\ next_id[e] \in Nat /\ inbox[e] \in Seq(Orders)
      /\ engine \in [Devices -> BOOLEAN] /\ metrics \in [Devices -> BOOLEAN]
  BY <1>1 DEF TypeInv, DeviceTypes, BusTypes
<1>4. /\ producer' = [producer EXCEPT ![c] = NoRing] /\ members' = [members EXCEPT ![e] = members[e] \ {c}]
      /\ engine' = [engine EXCEPT ![e] = @ /\ members[e] \ {c} # {}]
      /\ metrics' = [metrics EXCEPT ![e] = @ /\ members[e] \ {c} # {}]
      /\ mix' = [mix EXCEPT ![e] = IF members[e] \ {c} = {} THEN {} ELSE @]
      /\ lock' = [lock EXCEPT ![e] = None] /\ pc' = [pc EXCEPT ![t] = "released"]
      /\ UNCHANGED <<device, source, gen, inbox, next_id, ctl, old, held, todo, at, stale>>
  BY <1>1 DEF ReleaseMember, Goto
<1>5. /\ lock'[e] = None /\ members'[e] = members[e] \ {c}
      /\ \A m \in Controllers \ {c} : producer'[m] = producer[m]
      /\ mix'[e] = IF members[e] \ {c} = {} THEN {} ELSE mix[e]
  BY <1>1, <1>4 DEF TypeInv, LockInv, LockTypes, ControllerTypes, DeviceTypes, BusTypes
<1>6. (engine'[e] <=> members'[e] # {}) /\ metrics'[e] = engine'[e]
  <2>1. engine'[e] = (engine[e] /\ members[e] \ {c} # {}) /\ metrics'[e] = (metrics[e] /\ members[e] \ {c} # {})
    BY <1>1, <1>3, <1>4
  <2>2. QED
    BY <1>2, <1>5, <2>1 DEF BeingLeft
<1>7. /\ InOrderIn(mix[e], inbox[e], next_id[e])'
      /\ Heard(e)' = {source[m] : m \in members[e] \ {c}}
  <2>1. Heard(e) = {source[m] : m \in members[e] \ {c}} /\ InOrderIn(mix[e], inbox[e], next_id[e])
    BY <1>1, <1>2 DEF BeingLeft, Agrees, DeviceInv
  <2>2. CASE members[e] \ {c} # {}
    BY <1>4, <1>5, <2>1, <2>2 DEF Heard, Queued
  <2>3. CASE members[e] \ {c} = {}
    <3>1. HeardIn({}, inbox[e], next_id[e]) \subseteq HeardIn(mix[e], inbox[e], next_id[e])
          /\ InOrderIn({}, inbox[e], next_id[e])
      BY <1>3, <2>1, StopIsHeard
    <3>2. HeardIn(mix[e], inbox[e], next_id[e]) = {}
      BY <1>1, <2>1, <2>3, HeardIsHeardIn
    <3>3. Heard(e)' = {}
      BY <1>4, <1>5, <2>3, <3>1, <3>2 DEF Heard, HeardIn, Queued
    <3>4. QED
      BY <1>4, <1>5, <2>3, <3>1, <3>3
  <2>4. QED
    BY <2>2, <2>3
<1>8. Settled(e)'
  <2>1. \A m \in members[e] \ {c} : producer'[m] = RingOf(e, m)'
    <3>1. \A m \in members[e] \ {c} : producer[m] = RingOf(e, m)
      BY <1>1, <1>2 DEF BeingLeft, Agrees
    <3>2. gen' = gen /\ source' = source
      BY <1>4
    <3>3. QED
      BY <1>3, <1>5, <3>1, <3>2 DEF RingOf
  <2>2. QED
    BY <1>4, <1>5, <1>6, <1>7, <2>1 DEF Settled, Agrees
<1>9. RingsApart(e)'
  BY <1>2, <1>4, <1>5 DEF DeviceInv, RingsApart
<1>10. DeviceInv(e)'
  BY <1>5, <1>7, <1>8, <1>9, EngineCtlAssumption DEF DeviceInv
<1>11. OnlyAt(t, e)
  <2>1. \A d \in Devices \ {e} : engine'[d] = engine[d] /\ metrics'[d] = metrics[d]
    BY <1>1, <1>3, <1>4, Zenon
  <2>2. \A d \in Devices \ {e} : members'[d] = members[d] /\ lock'[d] = lock[d] /\ mix'[d] = mix[d]
    BY <1>1, <1>4 DEF TypeInv, LockInv, LockTypes, DeviceTypes, BusTypes
  <2>3. \A u \in Threads \ {t} : pc'[u] = pc[u]
    BY <1>4 DEF TypeInv, LockInv, LockTypes
  <2>4. \A d \in Devices : Alive(d, device, old, held)' <=> Alive(d, device, old, held)
    BY <1>4 DEF Alive
  <2>5. \A m \in Controllers : m \notin members[e] => source'[m] = source[m] /\ producer'[m] = producer[m]
    BY <1>1, <1>4, <1>5
  <2>6. QED
    BY <1>1, <1>4, <2>1, <2>2, <2>3, <2>4, <2>5 DEF OnlyAt
<1>12. QED
  BY <1>1, <1>10, <1>11, ElsewhereKept

(* A device that nobody holds starts anew; one that is alive is shared.    *)
LEMMA AdoptKeepsDevices ==
    ASSUME TypeInv, WhoInv, \A d \in Devices : DeviceInv(d), NEW t \in Threads, adopt(t), OnlyTheLivePlay
    PROVE  \A d \in Devices : DeviceInv(d)'
<1> PICK e : e = goal[t]
  OBVIOUS
<1>1. e \in Devices /\ pc[t] = "adopt"
  BY InHand DEF adopt
<1>2. /\ held' = [held EXCEPT ![t] = e] /\ pc' = [pc EXCEPT ![t] = "admit"]
      /\ UNCHANGED <<device, source, producer, lock, engine, ctl, old, todo, at, stale>>
  BY <1>1 DEF adopt, Goto, controllerVars
<1>3. /\ held'[t] = e
      /\ \A u \in Threads \ {t} : held'[u] = held[u] /\ pc'[u] = pc[u]
  BY <1>2 DEF TypeInv, LockInv, LockTypes
<1>4. \A d \in Devices \ {e} : Alive(d, device, old, held)' => Alive(d, device, old, held)
  BY <1>2, <1>3 DEF Alive
<1>5. CASE Alive(e, device, old, held)
  <2>1. UNCHANGED <<gen, members, metrics, inbox, next_id, mix>>
    BY <1>1, <1>5 DEF adopt, busVars
  <2>2. \A d \in Devices : lock[d] # t
    BY <1>1, HolderIsThere DEF Locked
  <2>3. \A d \in Devices : SameDevice(d)
    BY <1>2, <1>3, <1>4, <1>5, <2>1, <2>2 DEF SameDevice, SameWiring
  <2>4. QED
    BY <2>3, SameDeviceKeeps
<1>6. CASE ~Alive(e, device, old, held)
  <2>1. /\ gen' = [gen EXCEPT ![e] = @ + 1] /\ members' = [members EXCEPT ![e] = {}]
        /\ metrics' = [metrics EXCEPT ![e] = FALSE] /\ inbox' = [inbox EXCEPT ![e] = <<>>]
        /\ next_id' = [next_id EXCEPT ![e] = 0] /\ mix' = [mix EXCEPT ![e] = {}]
    BY <1>1, <1>6 DEF adopt
  <2>2. \A u \in Threads : lock[e] # u
    BY <1>1, <1>6, HolderIsThere DEF Place, Alive
  <2>3. lock'[e] = None
    BY <1>1, <1>2, <2>2 DEF TypeInv, LockInv, LockTypes
  <2>4. members'[e] = {} /\ inbox'[e] = <<>> /\ next_id'[e] = 0 /\ mix'[e] = {}
    BY <1>1, <2>1 DEF TypeInv, DeviceTypes, BusTypes
  <2>5. metrics'[e] = FALSE /\ engine'[e] = FALSE
    <3>1. engine \in [Devices -> BOOLEAN] /\ metrics \in [Devices -> BOOLEAN]
      BY DEF TypeInv, DeviceTypes
    <3>2. QED
      BY <1>1, <1>2, <1>6, <2>1, <3>1 DEF OnlyTheLivePlay
  <2>6. Heard(e)' = {}
    BY <2>4 DEF Heard
  <2>7. InOrderIn(mix[e], inbox[e], next_id[e])' /\ RingsApart(e)'
    BY <2>4 DEF InOrderIn, RingsApart
  <2>8. Settled(e)'
    BY <2>4, <2>5, <2>6 DEF Settled, Agrees
  <2>9. DeviceInv(e)'
    BY <2>3, <2>7, <2>8, EngineCtlAssumption DEF DeviceInv
  <2>10. OnlyAt(t, e)
    <3>1. \A d \in Devices \ {e} :
              /\ gen'[d] = gen[d] /\ members'[d] = members[d] /\ inbox'[d] = inbox[d]
              /\ next_id'[d] = next_id[d] /\ mix'[d] = mix[d]
      BY <1>1, <2>1 DEF TypeInv, DeviceTypes, BusTypes
    <3>2. \A d \in Devices \ {e} : metrics'[d] = metrics[d]
      <4>1. metrics \in [Devices -> BOOLEAN]
        BY DEF TypeInv, DeviceTypes
      <4>2. QED
        BY <1>1, <2>1, <4>1, Zenon
    <3>3. QED
      BY <1>1, <1>2, <1>3, <1>4, <3>1, <3>2 DEF OnlyAt, Locked
  <2>11. QED
    BY <1>1, <2>9, <2>10, ElsewhereKept
<1>7. QED
  BY <1>5, <1>6

(* One more member, yet without a ring.                                    *)
LEMMA AdmitKeepsDevices ==
    ASSUME TypeInv, WhoInv, Unwired, \A d \in Devices : DeviceInv(d), NEW t \in Threads, admit(t)
    PROVE  \A d \in Devices : DeviceInv(d)'
<1> PICK c, e : c = ctl[t] /\ e = held[t]
  OBVIOUS
<1>1. /\ c \in Controllers /\ e \in Devices /\ Alive(e, device, old, held)
      /\ pc[t] = "admit" /\ lock[e] = None
  BY JoiningOne DEF admit, Holding
<1>2. DeviceInv(e) /\ Settled(e)
  BY <1>1 DEF DeviceInv
<1>3. \A d \in Devices : c \notin members[d]
  <2>1. op[t] # "retune" /\ ctl[t] # None
    BY <1>1, EngineCtlAssumption DEF WhoInv, CallShape
  <2>2. device[c] = None
    BY <1>1, <2>1 DEF WhoInv, OneAtWork
  <2>3. \A u \in Threads, d \in Devices : ~BelongsVia(u, c, d)
    BY <1>1, <2>1 DEF BelongsVia, WhoInv, OneAtWork, Leaving, Joined
  <2>4. QED
    BY <1>1, <2>2, <2>3, EngineCtlAssumption DEF WhoInv, Membership
<1>4. source[c] = UNATTACHED
  BY <1>1, <1>3 DEF Unwired
<1>5. \E all \in BOOLEAN :
        /\ members[e] = {} => all
        /\ lock' = [lock EXCEPT ![e] = t] /\ members' = [members EXCEPT ![e] = members[e] \cup {c}]
        /\ todo' = [todo EXCEPT ![t] = IF all THEN members[e] \cup {c} ELSE {c}]
        /\ pc' = [pc EXCEPT ![t] = IF all THEN "restart" ELSE "wire"]
        /\ UNCHANGED <<device, source, producer, gen, engine, metrics, inbox, next_id, mix, ctl, old, held, at, stale>>
  BY <1>1 DEF admit, Goto, controllerVars, busVars
<1> PICK all \in BOOLEAN :
        /\ members[e] = {} => all
        /\ lock' = [lock EXCEPT ![e] = t] /\ members' = [members EXCEPT ![e] = members[e] \cup {c}]
        /\ todo' = [todo EXCEPT ![t] = IF all THEN members[e] \cup {c} ELSE {c}]
        /\ pc' = [pc EXCEPT ![t] = IF all THEN "restart" ELSE "wire"]
        /\ UNCHANGED <<device, source, producer, gen, engine, metrics, inbox, next_id, mix, ctl, old, held, at, stale>>
  BY <1>5
<1>6. /\ lock'[e] = t /\ members'[e] = members[e] \cup {c}
      /\ todo'[t] = (IF all THEN members[e] \cup {c} ELSE {c})
      /\ pc'[t] = (IF all THEN "restart" ELSE "wire")
  BY <1>1 DEF TypeInv, LockInv, LockTypes, DeviceTypes, ThreadTypes
<1>7. Heard(e)' = Heard(e)
  BY DEF Heard, Queued
<1>8. InOrderIn(mix[e], inbox[e], next_id[e])'
  BY <1>2 DEF DeviceInv
<1>9. RingsApart(e)'
  <2>1. next_id[e] \in Nat
    BY <1>1 DEF TypeInv, BusTypes
  <2>2. QED
    BY <1>2, <1>4, <1>6, <2>1 DEF DeviceInv, RingsApart, UNATTACHED
<1>10. BeingWired(e, t)'
  <2>1. stale'[t] = UNATTACHED
    BY <1>1 DEF WhoInv, CallShape
  <2>2. Heard(e) = {source[m] : m \in members[e]} /\ \A m \in members[e] : producer[m] = RingOf(e, m)
    BY <1>2 DEF Settled, Agrees
  <2>3. Heard(e) \subseteq {source[m] : m \in members[e] \cup {c}}
    BY <2>2
  <2>4. \A m \in members[e] \cup {c} : m \notin todo'[t] => source[m] \in Heard(e) /\ producer[m] = RingOf(e, m)
    BY <1>6, <2>2
  <2>5. ~all => engine[e] /\ metrics[e]
    BY <1>2 DEF Settled
  <2>6. todo'[t] \subseteq members[e] \cup {c}
    BY <1>6
  <2>7. \A m \in members[e] \cup {c} : RingOf(e, m)' = RingOf(e, m)
    BY DEF RingOf
  <2>8. CASE all
    <3>1. members'[e] # {} /\ todo'[t] = members'[e] /\ pc'[t] = "restart"
      BY <1>6, <2>8
    <3>2. Heard(e)' \subseteq {source'[m] : m \in members'[e]} \cup {stale'[t]}
      BY <1>6, <1>7, <2>3
    <3>3. QED
      BY <3>1, <3>2 DEF BeingWired
  <2>9. CASE ~all
    BY <1>6, <1>7, <2>1, <2>3, <2>4, <2>5, <2>6, <2>7, <2>9 DEF BeingWired
  <2>10. QED
    BY <2>8, <2>9
<1>11. DeviceInv(e)'
  <2>1. pc'[t] # "release_member"
    BY <1>6
  <2>2. QED
    BY <1>6, <1>8, <1>9, <1>10, <2>1, EngineCtlAssumption DEF DeviceInv
<1>12. OnlyAt(t, e)
  BY <1>1 DEF OnlyAt, Alive, Locked, TypeInv, LockInv, LockTypes, DeviceTypes, ThreadTypes
<1>13. QED
  BY <1>1, <1>11, <1>12, ElsewhereKept

(* Everybody is to be given a new ring.                                    *)
LEMMA ReshapeKeepsDevices ==
    ASSUME TypeInv, WhoInv, \A d \in Devices : DeviceInv(d), NEW t \in Threads, reshape(t)
    PROVE  \A d \in Devices : DeviceInv(d)'
<1> PICK e : e = held[t]
  OBVIOUS
<1>1. /\ e \in Devices /\ Alive(e, device, old, held) /\ pc[t] = "reshape" /\ lock[e] = None
  BY JoiningOne DEF reshape, Holding
<1>2. DeviceInv(e) /\ Settled(e)
  BY <1>1 DEF DeviceInv
<1>3. UNCHANGED <<device, source, producer, gen, members, engine, metrics, inbox, next_id, mix, ctl, old, held, at, stale>>
  BY DEF reshape, Goto, controllerVars, busVars
<1>4. CASE members[e] = {}
  <2>1. UNCHANGED <<lock, todo>> /\ pc' = [pc EXCEPT ![t] = "drop"]
    BY <1>1, <1>4 DEF reshape, Goto
  <2>2. \A d \in Devices : lock[d] # t
    BY <1>1, HolderIsThere DEF Locked
  <2>3. \A d \in Devices : SameDevice(d)
    BY <1>3, <2>1, <2>2 DEF SameDevice, SameWiring, Alive, TypeInv, LockInv, LockTypes
  <2>4. QED
    BY <2>3, SameDeviceKeeps
<1>5. CASE members[e] # {}
  <2>1. /\ lock' = [lock EXCEPT ![e] = t] /\ todo' = [todo EXCEPT ![t] = members[e]]
        /\ pc' = [pc EXCEPT ![t] = "restart"]
    BY <1>1, <1>5 DEF reshape, Goto
  <2>2. lock'[e] = t /\ todo'[t] = members[e] /\ pc'[t] = "restart"
    BY <1>1, <2>1 DEF TypeInv, LockInv, LockTypes, ThreadTypes
  <2>3. Heard(e)' = Heard(e) /\ InOrderIn(mix[e], inbox[e], next_id[e])' /\ RingsApart(e)'
    BY <1>2, <1>3 DEF Heard, Queued, DeviceInv, RingsApart
  <2>4. BeingWired(e, t)'
    BY <1>2, <1>3, <1>5, <2>2, <2>3 DEF Settled, Agrees, BeingWired
  <2>5. DeviceInv(e)'
    BY <2>2, <2>3, <2>4, EngineCtlAssumption DEF DeviceInv
  <2>6. OnlyAt(t, e)
    BY <1>1, <1>3, <2>1 DEF OnlyAt, Alive, Locked, TypeInv, LockInv, LockTypes, ThreadTypes
  <2>7. QED
    BY <1>1, <2>5, <2>6, ElsewhereKept
<1>6. QED
  BY <1>4, <1>5

(* What a thread that wires has: the lock, and its device half wired.      *)
LEMMA WiringOne ==
    ASSUME TypeInv, WhoInv, NEW t \in Threads, \A d \in Devices : DeviceInv(d),
           pc[t] \in {"restart", "wire", "rewire", "wire_producer", "rewire_producer"}
    PROVE  /\ held[t] \in Devices /\ Alive(held[t], device, old, held)
           /\ lock[held[t]] = t /\ Place(t) = held[t]
           /\ DeviceInv(held[t]) /\ BeingWired(held[t], t)
           /\ members[held[t]] \subseteq Controllers /\ todo[t] \subseteq Controllers
           /\ next_id[held[t]] \in Nat /\ inbox[held[t]] \in Seq(Orders) /\ stale[t] \in Nat
<1>1. held[t] \in Devices /\ Alive(held[t], device, old, held)
  BY JoiningOne DEF Holding, Joined
<1>2. Place(t) = held[t] /\ lock[held[t]] = t
  BY DEF TypeInv, LockInv, LocksKept, Place, Locked
<1>3. DeviceInv(held[t]) /\ BeingWired(held[t], t)
  BY <1>1, <1>2 DEF DeviceInv
<1>4. QED
  BY <1>1, <1>2, <1>3 DEF TypeInv, DeviceTypes, BusTypes, ThreadTypes

(* A restart takes the engine and its mixer, and nobody is wired any more. *)
LEMMA StopKeepsDevices ==
    ASSUME TypeInv, WhoInv, \A d \in Devices : DeviceInv(d), NEW t \in Threads, StopEngine(t)
    PROVE  \A d \in Devices : DeviceInv(d)'
<1> PICK e : e = held[t]
  OBVIOUS
<1>1. pc[t] = "restart"
  BY DEF StopEngine
<1>2. /\ e \in Devices /\ lock[e] = t /\ Place(t) = e /\ DeviceInv(e) /\ BeingWired(e, t)
      /\ next_id[e] \in Nat /\ inbox[e] \in Seq(Orders)
  BY <1>1, WiringOne
<1>3. /\ engine' = [engine EXCEPT ![e] = FALSE] /\ mix' = [mix EXCEPT ![e] = {}]
      /\ pc' = [pc EXCEPT ![t] = "rewire"]
      /\ UNCHANGED <<device, source, producer, gen, lock, members, metrics, inbox, next_id, ctl, old, held, todo, at, stale>>
  BY DEF StopEngine, Goto, controllerVars
<1>4. mix'[e] = {} /\ pc'[t] = "rewire"
  BY <1>2, <1>3 DEF TypeInv, LockInv, LockTypes, BusTypes
<1>5. InOrderIn(mix[e], inbox[e], next_id[e])' /\ Heard(e)' \subseteq Heard(e)
  <2>1. HeardIn({}, inbox[e], next_id[e]) \subseteq HeardIn(mix[e], inbox[e], next_id[e])
        /\ InOrderIn({}, inbox[e], next_id[e])
    BY <1>2, StopIsHeard DEF DeviceInv
  <2>2. Heard(e) = HeardIn(mix[e], inbox[e], next_id[e])
    BY <1>2, HeardIsHeardIn
  <2>3. Heard(e)' = HeardIn({}, inbox[e], next_id[e])
    BY <1>3, <1>4 DEF Heard, HeardIn, Queued
  <2>4. QED
    BY <1>3, <1>4, <2>1, <2>2, <2>3
<1>6. BeingWired(e, t)'
  <2>1. todo[t] = members[e]
    BY <1>1, <1>2 DEF BeingWired
  <2>2. Heard(e)' \subseteq {source[m] : m \in members[e]} \cup {stale[t]}
    BY <1>2, <1>5 DEF BeingWired
  <2>3. QED
    BY <1>2, <1>3, <1>4, <2>1, <2>2 DEF BeingWired
<1>7. DeviceInv(e)'
  BY <1>2, <1>3, <1>4, <1>5, <1>6, EngineCtlAssumption DEF DeviceInv, RingsApart
<1>8. OnlyAt(t, e)
  <2>1. \A d \in Devices \ {e} : engine'[d] = engine[d] /\ mix'[d] = mix[d]
    BY <1>2, <1>3 DEF TypeInv, DeviceTypes, BusTypes
  <2>2. QED
    BY <1>2, <1>3, <2>1 DEF OnlyAt, Alive, TypeInv, LockInv, LockTypes
<1>9. QED
  BY <1>2, <1>7, <1>8, ElsewhereKept

(* A new ring joins; what the member had before stays until its callback   *)
(* has the new one.                                                        *)
LEMMA WireSourceKeepsDevices ==
    ASSUME TypeInv, WhoInv, \A d \in Devices : DeviceInv(d), NEW t \in Threads, NEW m \in Controllers,
           WireSource(t, m)
    PROVE  \A d \in Devices : DeviceInv(d)'
<1> PICK e, id : e = held[t] /\ id = next_id[e] + 1
  OBVIOUS
<1>1. pc[t] \in {"wire", "rewire"} /\ m \in todo[t]
  BY DEF WireSource
<1>2. /\ e \in Devices /\ lock[e] = t /\ Place(t) = e /\ DeviceInv(e) /\ BeingWired(e, t)
      /\ members[e] \subseteq Controllers
      /\ next_id[e] \in Nat /\ inbox[e] \in Seq(Orders)
  BY <1>1, WiringOne
<1>3. m \in members[e] /\ todo[t] \subseteq members[e] /\ stale[t] = UNATTACHED
  BY <1>1, <1>2 DEF BeingWired, WhoInv, CallShape
<1>4. /\ next_id' = [next_id EXCEPT ![e] = id] /\ inbox' = [inbox EXCEPT ![e] = Append(@, Join(id))]
      /\ at' = [at EXCEPT ![t] = m] /\ stale' = [stale EXCEPT ![t] = source[m]]
      /\ source' = [source EXCEPT ![m] = id]
      /\ pc' = [pc EXCEPT ![t] = IF pc[t] = "wire" THEN "wire_producer" ELSE "rewire_producer"]
      /\ UNCHANGED <<device, producer, gen, lock, members, engine, metrics, mix, ctl, old, held, todo>>
  BY DEF WireSource, Goto
<1>5. /\ next_id'[e] = id /\ inbox'[e] = Append(inbox[e], Join(id)) /\ at'[t] = m
      /\ stale'[t] = source[m] /\ source'[m] = id
      /\ \A n \in Controllers \ {m} : source'[n] = source[n]
      /\ pc'[t] = IF pc[t] = "wire" THEN "wire_producer" ELSE "rewire_producer"
  BY <1>2, <1>4 DEF TypeInv, LockInv, LockTypes, ControllerTypes, BusTypes, ThreadTypes
<1>6. Heard(e)' = Heard(e) \cup {id} /\ InOrderIn(mix[e], inbox[e], next_id[e])'
  <2>1. /\ HeardIn(mix[e], Append(inbox[e], Join(id)), id) = HeardIn(mix[e], inbox[e], next_id[e]) \cup {id}
        /\ InOrderIn(mix[e], Append(inbox[e], Join(id)), id)
    BY <1>2, JoinIsHeard DEF DeviceInv
  <2>2. mix'[e] = mix[e] /\ next_id'[e] = id /\ inbox'[e] = Append(inbox[e], Join(id))
    BY <1>4, <1>5
  <2>3. Heard(e) = HeardIn(mix[e], inbox[e], next_id[e])
    BY <1>2, HeardIsHeardIn
  <2>4. Heard(e)' = HeardIn(mix'[e], inbox'[e], next_id'[e])
    BY DEF Heard, HeardIn, Queued
  <2>5. QED
    BY <2>1, <2>2, <2>3, <2>4
<1>7. \A n \in members[e] : source[n] \in Nat /\ source[n] < id
  BY <1>2 DEF DeviceInv, RingsApart, TypeInv, ControllerTypes
<1>8. \A n \in members[e] : n # m => (source[n] = source[m] => source[m] = UNATTACHED)
  BY <1>2, <1>3 DEF DeviceInv, RingsApart
<1>9. RingsApart(e)'
  <2>1. \A n \in members[e] : source'[n] <= id
    BY <1>2, <1>5, <1>7
  <2>2. \A n, k \in members[e] : n # k /\ source'[n] # UNATTACHED => source'[n] # source'[k]
    BY <1>2, <1>3, <1>5, <1>7 DEF DeviceInv, RingsApart
  <2>3. QED
    BY <1>4, <1>5, <2>1, <2>2 DEF RingsApart
<1>10. BeingWired(e, t)'
  <2>1. \A n \in members[e] \ todo[t] : source'[n] \in Heard(e)' /\ producer'[n] = RingOf(e, n)'
    <3>1. \A n \in members[e] \ todo[t] : n # m /\ source[n] \in Heard(e) /\ producer[n] = RingOf(e, n)
      BY <1>1, <1>2 DEF BeingWired
    <3>2. QED
      BY <1>2, <1>4, <1>5, <1>6, <3>1 DEF RingOf
  <2>2. Heard(e)' \subseteq {source'[n] : n \in members[e]} \cup {stale'[t]}
    <3>1. ASSUME NEW x \in Heard(e) PROVE x \in {source'[n] : n \in members[e]} \cup {stale'[t]}
      <4>1. x # UNATTACHED
        BY <1>2 DEF Heard, UNATTACHED
      <4>2. PICK n \in members[e] : x = source[n]
        BY <1>2, <1>3, <4>1 DEF BeingWired
      <4>3. QED
        BY <1>2, <1>5, <4>2
    <3>2. id \in {source'[n] : n \in members[e]}
      BY <1>3, <1>5
    <3>3. QED
      BY <1>6, <3>1, <3>2
  <2>3. /\ source'[m] = next_id'[e] /\ source'[m] \in Heard(e)' /\ stale'[t] < next_id'[e]
    BY <1>3, <1>5, <1>6, <1>7
  <2>4. \A n \in members[e] : source'[n] = stale'[t] => stale'[t] = UNATTACHED
    BY <1>2, <1>3, <1>5, <1>7, <1>8
  <2>5. pc[t] \in {"wire", "wire_producer"} => engine[e] /\ metrics[e]
    BY <1>2 DEF BeingWired
  <2>6. QED
    BY <1>1, <1>3, <1>4, <1>5, <2>1, <2>2, <2>3, <2>4, <2>5 DEF BeingWired
<1>11. DeviceInv(e)'
  <2>1. pc'[t] # "release_member" /\ lock'[e] = t
    BY <1>2, <1>4, <1>5
  <2>2. QED
    BY <1>6, <1>9, <1>10, <2>1, EngineCtlAssumption DEF DeviceInv
<1>12. OnlyAt(t, e)
  <2>1. \A d \in Devices \ {e} : next_id'[d] = next_id[d] /\ inbox'[d] = inbox[d]
    BY <1>2, <1>4 DEF TypeInv, BusTypes
  <2>2. QED
    BY <1>2, <1>3, <1>4, <1>5, <2>1 DEF OnlyAt, Alive, TypeInv, LockInv, LockTypes, ThreadTypes
<1>13. QED
  BY <1>2, <1>11, <1>12, ElsewhereKept

(* The callback has the new ring, and the old one leaves.                  *)
LEMMA WireProducerKeepsDevices ==
    ASSUME TypeInv, WhoInv, \A d \in Devices : DeviceInv(d), NEW t \in Threads, WireProducer(t)
    PROVE  \A d \in Devices : DeviceInv(d)'
<1> PICK e, m : e = held[t] /\ m = at[t]
  OBVIOUS
<1>1. pc[t] \in {"wire_producer", "rewire_producer"}
  BY DEF WireProducer
<1>2. /\ e \in Devices /\ lock[e] = t /\ Place(t) = e /\ DeviceInv(e) /\ BeingWired(e, t)
      /\ members[e] \subseteq Controllers
      /\ next_id[e] \in Nat /\ inbox[e] \in Seq(Orders) /\ stale[t] \in Nat
  BY <1>1, WiringOne
<1>3. /\ m \in todo[t] /\ todo[t] \subseteq members[e] /\ m \in Controllers
      /\ source[m] = next_id[e] /\ source[m] \in Heard(e) /\ stale[t] < next_id[e]
      /\ \A n \in members[e] : source[n] = stale[t] => stale[t] = UNATTACHED
  BY <1>1, <1>2 DEF BeingWired
<1>4. /\ producer' = [producer EXCEPT ![m] = [dev |-> e, gen |-> gen[e], id |-> next_id[e]]]
      /\ inbox' = (IF stale[t] = UNATTACHED THEN inbox ELSE [inbox EXCEPT ![e] = Append(@, Leave(stale[t]))])
      /\ todo' = [todo EXCEPT ![t] = @ \ {m}]
      /\ at' = [at EXCEPT ![t] = None] /\ stale' = [stale EXCEPT ![t] = UNATTACHED]
      /\ pc' = [pc EXCEPT ![t] = IF pc[t] = "wire_producer" THEN "wire" ELSE "rewire"]
      /\ UNCHANGED <<device, source, gen, lock, members, engine, metrics, next_id, mix, ctl, old, held>>
  BY DEF WireProducer, Goto
<1>5. /\ producer'[m] = RingOf(e, m) /\ todo'[t] = todo[t] \ {m} /\ stale'[t] = UNATTACHED
      /\ \A n \in Controllers \ {m} : producer'[n] = producer[n]
      /\ pc'[t] = IF pc[t] = "wire_producer" THEN "wire" ELSE "rewire"
  BY <1>2, <1>3, <1>4 DEF TypeInv, LockInv, LockTypes, ControllerTypes, ThreadTypes, RingOf
<1>6. Heard(e)' = Heard(e) \ {stale[t]} /\ InOrderIn(mix[e], inbox[e], next_id[e])'
  <2>1. CASE stale[t] = UNATTACHED
    <3>1. inbox' = inbox
      BY <1>4, <2>1
    <3>2. Heard(e)' = Heard(e) /\ UNATTACHED \notin Heard(e)
      BY <1>2, <1>4, <3>1 DEF Heard, Queued, UNATTACHED
    <3>3. QED
      BY <1>2, <1>4, <2>1, <3>1, <3>2 DEF DeviceInv
  <2>2. CASE stale[t] # UNATTACHED
    <3>1. inbox'[e] = Append(inbox[e], Leave(stale[t]))
      BY <1>2, <1>4, <2>2 DEF TypeInv, BusTypes
    <3>2. stale[t] \in 1 .. next_id[e]
      BY <1>2, <1>3, <2>2 DEF UNATTACHED
    <3>3. /\ HeardIn(mix[e], Append(inbox[e], Leave(stale[t])), next_id[e])
                 = HeardIn(mix[e], inbox[e], next_id[e]) \ {stale[t]}
          /\ InOrderIn(mix[e], Append(inbox[e], Leave(stale[t])), next_id[e])
      BY <1>2, <3>2, LeaveIsHeard DEF DeviceInv
    <3>4. QED
      BY <1>4, <3>1, <3>3 DEF Heard, HeardIn, Queued
  <2>3. QED
    BY <2>1, <2>2
<1>7. UNATTACHED \notin Heard(e)
  BY <1>2 DEF Heard, UNATTACHED
<1>8. RingsApart(e)'
  BY <1>2, <1>4 DEF DeviceInv, RingsApart
<1>9. BeingWired(e, t)'
  <2>1. \A n \in members[e] \ todo'[t] : source[n] \in Heard(e) /\ producer'[n] = RingOf(e, n)
    <3>1. \A n \in members[e] \ todo[t] : source[n] \in Heard(e) /\ producer[n] = RingOf(e, n)
      BY <1>2 DEF BeingWired
    <3>2. QED
      BY <1>2, <1>3, <1>5, <3>1
  <2>2. \A n \in members[e] : source[n] \in Heard(e) => source[n] \in Heard(e)'
    BY <1>3, <1>6, <1>7
  <2>3. \A n \in Controllers : RingOf(e, n)' = RingOf(e, n)
    BY <1>4 DEF RingOf
  <2>4. Heard(e)' \subseteq {source[n] : n \in members[e]}
    BY <1>2, <1>6 DEF BeingWired
  <2>5. todo'[t] \subseteq members[e] /\ members[e] # {}
    BY <1>2, <1>3, <1>5 DEF BeingWired
  <2>6. pc[t] \in {"wire", "wire_producer"} => engine[e] /\ metrics[e]
    BY <1>2 DEF BeingWired
  <2>7. \A n \in members[e] \ todo'[t] : source'[n] \in Heard(e)' /\ producer'[n] = RingOf(e, n)'
    BY <1>2, <1>4, <2>1, <2>2, <2>3
  <2>8. QED
    BY <1>1, <1>4, <1>5, <2>4, <2>5, <2>6, <2>7 DEF BeingWired
<1>10. DeviceInv(e)'
  <2>1. pc'[t] # "release_member" /\ lock'[e] = t
    BY <1>2, <1>4, <1>5
  <2>2. QED
    BY <1>6, <1>8, <1>9, <2>1, EngineCtlAssumption DEF DeviceInv
<1>11. OnlyAt(t, e)
  <2>1. \A d \in Devices \ {e} : inbox'[d] = inbox[d]
    BY <1>2, <1>4 DEF TypeInv, BusTypes
  <2>2. QED
    BY <1>2, <1>3, <1>4, <1>5, <2>1 DEF OnlyAt, Alive, TypeInv, LockInv, LockTypes, ThreadTypes
<1>12. QED
  BY <1>2, <1>10, <1>11, ElsewhereKept

(* Everybody is wired, and an engine runs: the lock can go.                *)
LEMMA WiredKeepsDevices ==
    ASSUME TypeInv, WhoInv, \A d \in Devices : DeviceInv(d), NEW t \in Threads, Wired(t) \/ StartEngine(t)
    PROVE  \A d \in Devices : DeviceInv(d)'
<1> PICK e : e = held[t]
  OBVIOUS
<1>1. pc[t] \in {"wire", "rewire"} /\ todo[t] = {}
  BY DEF Wired, StartEngine
<1>2. /\ e \in Devices /\ lock[e] = t /\ Place(t) = e /\ DeviceInv(e) /\ BeingWired(e, t)
      /\ stale[t] = UNATTACHED
  BY <1>1, WiringOne DEF WhoInv, CallShape
<1>3. /\ lock' = [lock EXCEPT ![e] = None]
      /\ \E l \in Labels : pc' = [pc EXCEPT ![t] = l]
      /\ UNCHANGED <<device, source, producer, gen, members, inbox, next_id, mix, ctl, old, held, todo, at, stale>>
  BY DEF Wired, StartEngine, Goto, After, Labels, controllerVars, busVars
<1>4. lock'[e] = None /\ \A u \in Threads \ {t} : pc'[u] = pc[u]
  BY <1>2, <1>3 DEF TypeInv, LockInv, LockTypes
<1>5. engine'[e] /\ metrics'[e] /\ \A d \in Devices \ {e} : engine'[d] = engine[d] /\ metrics'[d] = metrics[d]
  <2>1. engine \in [Devices -> BOOLEAN] /\ metrics \in [Devices -> BOOLEAN]
    BY DEF TypeInv, DeviceTypes
  <2>2. CASE Wired(t)
    BY <1>2, <2>2 DEF Wired, BeingWired
  <2>3. CASE StartEngine(t)
    <3>1. engine' = [engine EXCEPT ![e] = TRUE] /\ metrics' = [metrics EXCEPT ![e] = TRUE]
      BY <2>3 DEF StartEngine
    <3>2. QED
      BY <1>2, <2>1, <3>1, Zenon
  <2>4. QED
    BY <2>2, <2>3
<1>6. Heard(e) = {source[m] : m \in members[e]} /\ \A m \in members[e] : producer[m] = RingOf(e, m)
  <2>1. UNATTACHED \notin Heard(e)
    BY <1>2 DEF Heard, UNATTACHED
  <2>2. QED
    BY <1>1, <1>2, <2>1 DEF BeingWired
<1>7. Heard(e)' = Heard(e) /\ InOrderIn(mix[e], inbox[e], next_id[e])' /\ RingsApart(e)'
  BY <1>2, <1>3 DEF Heard, Queued, DeviceInv, RingsApart
<1>8. Settled(e)'
  <2>1. members[e] # {}
    BY <1>2 DEF BeingWired
  <2>2. metrics'[e] = engine'[e]
    <3>1. TypeInv'
      BY TypeStep DEF Next, Step
    <3>2. QED
      BY <1>2, <1>5, <3>1 DEF TypeInv, DeviceTypes
  <2>3. \A m \in members[e] : RingOf(e, m)' = RingOf(e, m)
    BY <1>3 DEF RingOf
  <2>4. QED
    BY <1>3, <1>5, <1>6, <1>7, <2>1, <2>2, <2>3 DEF Settled, Agrees
<1>9. DeviceInv(e)'
  BY <1>4, <1>7, <1>8, EngineCtlAssumption DEF DeviceInv
<1>10. OnlyAt(t, e)
  <2>1. \A d \in Devices \ {e} : lock'[d] = lock[d]
    BY <1>2, <1>3 DEF TypeInv, LockInv, LockTypes
  <2>2. \A d \in Devices : Alive(d, device, old, held)' <=> Alive(d, device, old, held)
    BY <1>3 DEF Alive
  <2>3. QED
    BY <1>2, <1>3, <1>4, <1>5, <2>1, <2>2 DEF OnlyAt
<1>11. QED
  BY <1>2, <1>9, <1>10, ElsewhereKept

-----------------------------------------------------------------------------
(* A controller that is a member nowhere has no ring.                      *)
LEMMA UnwiredKept ==
    ASSUME WiringInv, NEW t \in Threads, Step(t)
    PROVE  Unwired'
<1> USE DEF WiringInv, AllWired
<1>1. ASSUME UNCHANGED <<source, producer, members>> PROVE Unwired'
  BY <1>1 DEF Unwired
<1>2. CASE Take(t) \/ Released(t) \/ reshape(t) \/ StopEngine(t)
  BY <1>1, <1>2 DEF Take, Released, reshape, StopEngine, controllerVars, deviceVars
<1>3. CASE Wired(t) \/ StartEngine(t) \/ Want(t) \/ Hold(t) \/ Drop(t)
  BY <1>1, <1>3 DEF Wired, StartEngine, Want, Hold, Drop, controllerVars, deviceVars
<1>4. CASE ReleaseSource(t)
  <2>1. source' = [source EXCEPT ![ctl[t]] = UNATTACHED] /\ producer' = producer /\ members' = members
    BY <1>4 DEF ReleaseSource
  <2>2. QED
    BY <2>1 DEF Unwired, TypeInv, ControllerTypes
<1>5. CASE ReleaseMember(t)
  <2> PICK c, e : c = ctl[t] /\ e = old[t]
    OBVIOUS
  <2>1. /\ c \in Controllers /\ e \in Devices /\ pc[t] = "release_member" /\ Place(t) = e /\ lock[e] = t
    BY <1>5, LeavingOne DEF ReleaseMember, Leaving, Place, Locked, TypeInv, LockInv, LocksKept
  <2>2. source[c] = UNATTACHED
    BY <2>1 DEF DeviceInv, BeingLeft
  <2>3. producer' = [producer EXCEPT ![c] = NoRing] /\ members' = [members EXCEPT ![e] = @ \ {c}] /\ source' = source
    BY <1>5 DEF ReleaseMember
  <2>4. producer'[c] = NoRing /\ \A b \in Controllers \ {c} : producer'[b] = producer[b]
    BY <2>1, <2>3 DEF TypeInv, ControllerTypes
  <2>5. \A b \in Controllers \ {c}, d \in Devices : b \in members[d] <=> b \in members'[d]
    <3>1. members \in [Devices -> SUBSET Controllers]
      BY DEF TypeInv, DeviceTypes
    <3>2. members'[e] = members[e] \ {c} /\ \A d \in Devices \ {e} : members'[d] = members[d]
      BY <2>1, <2>3, <3>1
    <3>3. QED
      BY <2>1, <3>2
  <2>6. QED
    BY <2>2, <2>3, <2>4, <2>5 DEF Unwired
<1>6. CASE adopt(t)
  <2>1. goal[t] \in Devices /\ UNCHANGED <<source, producer>>
    BY <1>6, InHand DEF adopt, controllerVars
  <2>2. ~Alive(goal[t], device, old, held) => members[goal[t]] = {}
    BY <2>1, OnlyTheLiveHaveMembers DEF WhoInv
  <2>3. members' = members
    <3>1. members' = members \/ (members' = [members EXCEPT ![goal[t]] = {}] /\ members[goal[t]] = {})
      BY <1>6, <2>2 DEF adopt
    <3>2. members \in [Devices -> SUBSET Controllers]
      BY DEF TypeInv, DeviceTypes
    <3>3. CASE members' = [members EXCEPT ![goal[t]] = {}] /\ members[goal[t]] = {}
      <4>1. DOMAIN members' = Devices /\ \A d \in Devices : members'[d] = members[d]
        BY <2>1, <3>2, <3>3
      <4>2. members' \in [Devices -> SUBSET Controllers]
        BY <3>2, <3>3
      <4>3. QED
        BY <3>2, <4>1, <4>2
    <3>4. QED
      BY <3>1, <3>3
  <2>4. QED
    BY <1>1, <2>1, <2>3
<1>7. CASE admit(t)
  <2>1. held[t] \in Devices /\ members' = [members EXCEPT ![held[t]] = @ \cup {ctl[t]}] /\ UNCHANGED <<source, producer>>
    BY <1>7, InHand DEF admit, controllerVars
  <2>2. \A d \in Devices : members[d] \subseteq members'[d]
    BY <2>1 DEF TypeInv, DeviceTypes
  <2>3. QED
    BY <2>1, <2>2 DEF Unwired
<1>8. ASSUME NEW m \in Controllers, WireSource(t, m) PROVE Unwired'
  <2>1. held[t] \in Devices /\ m \in members[held[t]]
    BY <1>8, WiringOne DEF WireSource, BeingWired
  <2>2. producer' = producer /\ members' = members /\ \A b \in Controllers \ {m} : source'[b] = source[b]
    BY <1>8 DEF WireSource, TypeInv, ControllerTypes
  <2>3. QED
    BY <2>1, <2>2 DEF Unwired
<1>9. CASE WireProducer(t)
  <2>1. held[t] \in Devices /\ at[t] \in members[held[t]]
    BY <1>9, WiringOne DEF WireProducer, BeingWired
  <2>2. source' = source /\ members' = members /\ \A b \in Controllers \ {at[t]} : producer'[b] = producer[b]
    BY <1>9 DEF WireProducer, TypeInv, ControllerTypes
  <2>3. QED
    BY <2>1, <2>2 DEF Unwired
<1>10. QED
  BY <1>2, <1>3, <1>4, <1>5, <1>6, <1>7, <1>8, <1>9 DEF Step

(* An engine starts only on a device that is held, and goes with its last  *)
(* holder.                                                                 *)
LEMMA OnlyTheLivePlayKept ==
    ASSUME WiringInv, NEW t \in Threads, Step(t)
    PROVE  OnlyTheLivePlay'
<1> USE DEF WiringInv, AllWired
<1>0. engine \in [Devices -> BOOLEAN]
  BY DEF TypeInv, DeviceTypes
<1>1. ASSUME \A d \in Devices : engine'[d] => engine[d],
             \A d \in Devices : Alive(d, device, old, held) => Alive(d, device, old, held)'
      PROVE  OnlyTheLivePlay'
  BY <1>1 DEF OnlyTheLivePlay
<1>2. ASSUME DropUnreferenced PROVE OnlyTheLivePlay'
  <2>1. \A d \in Devices : engine'[d] => engine[d] /\ (~engine[d] \/ Alive(d, device', old', held'))
    BY <1>2, Zenon DEF DropUnreferenced
  <2>2. QED
    BY <2>1 DEF OnlyTheLivePlay, Alive
<1>3. CASE Released(t) \/ Hold(t) \/ Drop(t)
  BY <1>2, <1>3 DEF Released, Hold, Drop
<1>4. ASSUME UNCHANGED <<device, old, held>>, \A d \in Devices : engine'[d] => engine[d] PROVE OnlyTheLivePlay'
  BY <1>1, <1>4 DEF Alive
<1>5. CASE ReleaseSource(t) \/ admit(t) \/ reshape(t) \/ WireProducer(t) \/ Wired(t)
  BY <1>4, <1>5 DEF ReleaseSource, admit, reshape, WireProducer, Wired, controllerVars, deviceVars
<1>6. ASSUME NEW m \in Controllers, WireSource(t, m) PROVE OnlyTheLivePlay'
  BY <1>4, <1>6 DEF WireSource
<1>7. CASE ReleaseMember(t) \/ StopEngine(t)
  <2>1. UNCHANGED <<device, old, held>>
    BY <1>7 DEF ReleaseMember, StopEngine, controllerVars
  <2>2. \A d \in Devices : engine'[d] => engine[d]
    <3>1. \E e, x : engine' = [engine EXCEPT ![e] = x /\ engine[e]]
      <4>1. CASE ReleaseMember(t)
        <5>1. engine' = [engine EXCEPT ![old[t]] = (members[old[t]] \ {ctl[t]} # {}) /\ engine[old[t]]]
          BY <4>1, <1>0, LeavingOne DEF ReleaseMember, Leaving
        <5>2. QED
          BY <5>1
      <4>2. CASE StopEngine(t)
        <5>1. engine' = [engine EXCEPT ![held[t]] = FALSE /\ engine[held[t]]]
          BY <4>2 DEF StopEngine
        <5>2. QED
          BY <5>1
      <4>3. QED
        BY <1>7, <4>1, <4>2
    <3>2. QED
      BY <1>0, <3>1, Zenon
  <2>3. QED
    BY <1>4, <2>1, <2>2
<1>8. CASE Take(t) \/ Want(t) \/ adopt(t)
  <2>1. engine' = engine
    BY <1>8 DEF Take, Want, adopt, deviceVars
  <2>2. \A d \in Devices : Alive(d, device, old, held) => Alive(d, device, old, held)'
    <3>1. CASE Take(t)
      <4>1. ctl[t] \in Controllers /\ old[t] = None
        BY <3>1, InHand DEF Take, WhoInv, CallShape, Leaving
      <4>2. device' = [device EXCEPT ![ctl[t]] = None] /\ old' = [old EXCEPT ![t] = device[ctl[t]]] /\ held' = held
        BY <3>1 DEF Take
      <4>3. QED
        BY <4>1, <4>2, EngineCtlAssumption DEF Alive, TypeInv, LockInv, LockTypes
    <3>2. CASE Want(t)
      BY <3>2 DEF Want, Alive
    <3>3. CASE adopt(t)
      <4>1. held[t] = None
        BY <3>3 DEF adopt, WhoInv, CallShape, Holding, Joined
      <4>2. device' = device /\ old' = old /\ held' = [held EXCEPT ![t] = goal[t]]
        BY <3>3 DEF adopt, controllerVars
      <4>3. QED
        BY <4>1, <4>2, EngineCtlAssumption DEF Alive, TypeInv, LockInv, LockTypes
    <3>4. QED
      BY <1>8, <3>1, <3>2, <3>3
  <2>3. QED
    BY <1>1, <2>1, <2>2
<1>9. CASE StartEngine(t)
  <2>1. held[t] \in Devices /\ Alive(held[t], device, old, held)
    BY <1>9, JoiningOne DEF StartEngine, Holding, Joined
  <2>2. UNCHANGED <<device, old, held>> /\ engine' = [engine EXCEPT ![held[t]] = TRUE]
    BY <1>9 DEF StartEngine, controllerVars
  <2>3. \A d \in Devices \ {held[t]} : engine'[d] = engine[d]
    BY <1>0, <2>2, Zenon
  <2>4. \A d \in Devices : Alive(d, device, old, held)' <=> Alive(d, device, old, held)
    BY <2>2 DEF Alive
  <2>5. QED
    BY <2>1, <2>3, <2>4 DEF OnlyTheLivePlay
<1>10. QED
  BY <1>3, <1>5, <1>6, <1>7, <1>8, <1>9 DEF Step

-----------------------------------------------------------------------------
(* The invariant, and what it says of a device and of a controller.        *)

LEMMA WiringInit == Init => WiringInv
<1> SUFFICES ASSUME Init PROVE WiringInv
  OBVIOUS
<1>1. \A d \in Devices : ~Alive(d, device, old, held) /\ ~engine[d] /\ members[d] = {} /\ lock[d] = None
  BY EngineCtlAssumption DEF Init, Alive
<1>2. \A d \in Devices : InOrderIn(mix[d], inbox[d], next_id[d])
  BY DEF Init, InOrderIn
<1>3. \A d \in Devices : DeviceInv(d)
  BY <1>1, <1>2, EngineCtlAssumption DEF DeviceInv, RingsApart
<1>4. Unwired
  BY DEF Init, Unwired
<1>5. QED
  BY <1>1, <1>3, <1>4, TypeInit, WhoInit DEF WiringInv, AllWired, OnlyTheLivePlay

LEMMA DevicesKept ==
    ASSUME WiringInv, NEW t \in Threads, Step(t)
    PROVE  \A d \in Devices : DeviceInv(d)'
<1> USE DEF WiringInv, AllWired
<1>1. CASE Take(t) \/ Want(t)
  BY <1>1, QuietKeepsDevices
<1>2. CASE Released(t) \/ Hold(t) \/ Drop(t)
  BY <1>2, DroppingKeepsDevices
<1>3. CASE ReleaseSource(t) \/ ReleaseMember(t)
  BY <1>3, ReleaseSourceKeepsDevices, ReleaseMemberKeepsDevices
<1>4. CASE adopt(t) \/ admit(t) \/ reshape(t)
  BY <1>4, AdoptKeepsDevices, AdmitKeepsDevices, ReshapeKeepsDevices
<1>5. CASE StopEngine(t) \/ WireProducer(t) \/ Wired(t) \/ StartEngine(t)
  BY <1>5, StopKeepsDevices, WireProducerKeepsDevices, WiredKeepsDevices
<1>6. ASSUME NEW m \in Controllers, WireSource(t, m) PROVE \A d \in Devices : DeviceInv(d)'
  BY <1>6, WireSourceKeepsDevices
<1>7. QED
  BY <1>1, <1>2, <1>3, <1>4, <1>5, <1>6 DEF Step

LEMMA WiringStep == "set_device" \notin Overlap /\ WiringInv /\ [Next]_vars => WiringInv'
<1> SUFFICES ASSUME "set_device" \notin Overlap, WiringInv, [Next]_vars PROVE WiringInv'
  OBVIOUS
<1>1. TypeInv' /\ WhoInv'
  BY TypeStep, WhoStep DEF WiringInv, AllWired
<1>2. AllWired'
  <2>1. ASSUME NEW t \in Threads, Call(t) PROVE AllWired'
    <3>1. /\ UNCHANGED <<device, source, producer, members, engine>>
          /\ \A d \in Devices : Alive(d, device, old, held) => Alive(d, device, old, held)'
      <4>1. \A d \in Devices : DeviceInv(d)'
        BY <2>1, CallKeepsDevices DEF WiringInv, AllWired
      <4>2. held[t] = None
        BY <2>1, CallBegins DEF WiringInv, AllWired, WhoInv, CallShape, Holding, Joined
      <4>3. QED
        BY <2>1, <4>2, CallBegins, EngineCtlAssumption
           DEF controllerVars, deviceVars, Alive, WiringInv, AllWired, TypeInv, LockInv, LockTypes
    <3>2. QED
      BY <2>1, <3>1, CallKeepsDevices DEF WiringInv, AllWired, Unwired, OnlyTheLivePlay
  <2>2. ASSUME NEW t \in Threads, Step(t) PROVE AllWired'
    BY <2>2, DevicesKept, UnwiredKept, OnlyTheLivePlayKept DEF AllWired
  <2>3. ASSUME NEW d \in Devices, EngineDrain(d) PROVE AllWired'
    <3>1. UNCHANGED <<controllerVars, threadVars, members, engine>>
      BY <2>3 DEF EngineDrain
    <3>2. QED
      BY <2>3, <3>1, DrainKeepsDevices DEF WiringInv, AllWired, Unwired, OnlyTheLivePlay, Alive, controllerVars, threadVars
  <2>4. CASE UNCHANGED vars
    <3>1. \A d \in Devices : SameDevice(d)
      BY <2>4 DEF SameDevice, SameWiring, Alive, vars, controllerVars, deviceVars, busVars, threadVars
    <3>2. QED
      BY <2>4, <3>1, SameDeviceKeeps
         DEF WiringInv, AllWired, Unwired, OnlyTheLivePlay, Alive, vars, controllerVars, deviceVars, busVars, threadVars
  <2>5. QED
    BY <2>1, <2>2, <2>3, <2>4 DEF Next, Rest
<1>3. QED
  BY <1>1, <1>2 DEF WiringInv, AllWired

LEMMA InvWires == WiringInv => WiringAgrees
<1> SUFFICES ASSUME WiringInv, NEW d \in Devices, lock[d] = None, Alive(d, device, old, held)
             PROVE  Settled(d)
  BY DEF WiringAgrees, Settled, Agrees, RingOf
<1>1. QED
  BY DEF WiringInv, AllWired, DeviceInv

LEMMA InvLeavesNothing == WiringInv => NothingLeftBehind
  BY OnlyTheLiveHaveMembers DEF WiringInv, AllWired, WhoInv, OnlyTheLivePlay, NothingLeftBehind

LEMMA InvPlays == WiringInv => PlaysWhereSelected
<1> SUFFICES ASSUME WiringInv, NEW c \in Controllers, Busy(c) = {}
             PROVE  /\ \A d \in Devices : c \in members[d] <=> device[c] = d
                    /\ device[c] # None =>
                          LET d == device[c] IN
                          lock[d] = None => /\ engine[d]
                                            /\ producer[c].dev = d /\ producer[c].gen = gen[d]
                                            /\ producer[c].id \in Heard(d)
                    /\ device[c] = None => producer[c] = NoRing /\ source[c] = UNATTACHED
  BY DEF PlaysWhereSelected
<1> USE DEF WiringInv, AllWired
<1>1. \A t \in Threads, d \in Devices : ~BelongsVia(t, c, d)
  BY DEF Busy, BelongsVia
<1>2. \A d \in Devices : c \in members[d] <=> device[c] = d
  BY <1>1 DEF WhoInv, Membership
<1>3. ASSUME NEW d \in Devices, d = device[c], lock[d] = None
      PROVE  /\ engine[d] /\ producer[c].dev = d /\ producer[c].gen = gen[d]
             /\ producer[c].id \in Heard(d)
  <2>1. Alive(d, device, old, held)
    BY <1>3 DEF Alive
  <2>2. Settled(d) /\ c \in members[d]
    BY <1>2, <1>3, <2>1 DEF DeviceInv
  <2>3. producer[c] = RingOf(d, c) /\ source[c] \in Heard(d) /\ engine[d]
    BY <2>2 DEF Settled, Agrees
  <2>4. QED
    BY <2>3 DEF RingOf
<1>4. device[c] = None => producer[c] = NoRing /\ source[c] = UNATTACHED
  BY <1>2, EngineCtlAssumption DEF Unwired
<1>5. device[c] # None => device[c] \in Devices
  BY DEF TypeInv, ControllerTypes
<1>6. QED
  BY <1>2, <1>3, <1>4, <1>5

(* As long as nobody switches the device of a track while another call is  *)
(* at work on it: whenever nobody is rewiring a device, its engine hears   *)
(* its members' rings and no others and runs exactly as long as it has     *)
(* members, however many tracks share it, join, leave, retune and restart  *)
(* it meanwhile; and nothing plays on a device that nobody holds.          *)
THEOREM DevicesStayWired == ASSUME "set_device" \notin Overlap PROVE Spec => []DevicesAgree
<1>1. Init => WiringInv
  BY WiringInit
<1>2. WiringInv /\ [Next]_vars => WiringInv'
  BY WiringStep
<1>3. WiringInv => DevicesAgree
  BY TypeInvIsEnough, InvWires, InvLeavesNothing DEF WiringInv, DevicesAgree
<1>4. QED
  BY <1>1, <1>2, <1>3, PTL DEF Spec

(* Under the same assumption a track at rest plays where it says, and only *)
(* there: nobody else's call takes it off the air.                         *)
THEOREM TracksPlayWhereSelected == ASSUME "set_device" \notin Overlap PROVE Spec => []PlaysWhereSelected
<1>1. Init => WiringInv
  BY WiringInit
<1>2. WiringInv /\ [Next]_vars => WiringInv'
  BY WiringStep
<1>3. WiringInv => PlaysWhereSelected
  BY InvPlays
<1>4. QED
  BY <1>1, <1>2, <1>3, PTL DEF Spec

-----------------------------------------------------------------------------
(* The settings: what every editor's choice comes to.                      *)

(* A target below the floor is one that was clamped to the floor before.   *)
FloorTold ==
    /\ \A c \in sharing : HostBlock[c] <= host_block
    /\ dev.target < dev.floor => late

(* The engine runs with the settings, unless a job that has stored its     *)
(* choice is yet to restart it.                                            *)
RunsOrWill ==
    sharing # {} =>
        /\ running.on
        /\ \/ running.target = dev.target /\ running.queue = dev.queue
           \/ \E j \in jobs : j.at = "reshape"

TuningInv == TuningTypeOK /\ FloorTold /\ RunsOrWill

LEMMA LargerOfTwo ==
    ASSUME NEW a \in Int, NEW b \in Int
    PROVE  Max({a, b}) = IF a >= b THEN a ELSE b
<1>1. \E x \in {a, b} : \A y \in {a, b} : x >= y
  BY SMT
<1>2. Max({a, b}) \in {a, b} /\ \A y \in {a, b} : Max({a, b}) >= y
  BY <1>1 DEF Max
<1>3. QED
  BY <1>2

LEMMA SmallerOfTwo ==
    ASSUME NEW a \in Int, NEW b \in Int
    PROVE  Min({a, b}) = IF a <= b THEN a ELSE b
<1>1. \E x \in {a, b} : \A y \in {a, b} : x <= y
  BY SMT
<1>2. Min({a, b}) \in {a, b} /\ \A y \in {a, b} : Min({a, b}) <= y
  BY <1>1 DEF Min
<1>3. QED
  BY <1>2

LEMMA Clamped ==
    ASSUME NEW x \in Nat, NEW a \in Nat, NEW b \in Nat
    PROVE  Clamp(x, a, b) \in Nat /\ a <= Clamp(x, a, b)
<1>1. Min({x, b}) = (IF x <= b THEN x ELSE b) /\ Min({x, b}) \in Nat
  BY SmallerOfTwo
<1>2. Max({a, Min({x, b})}) = IF a >= Min({x, b}) THEN a ELSE Min({x, b})
  BY <1>1, LargerOfTwo
<1>3. QED
  BY <1>1, <1>2 DEF Clamp

(* A target that is clamped is not below the floor it was clamped to.      *)
LEMMA TargetClamped ==
    ASSUME NEW ms \in Nat, NEW floor \in Nat
    PROVE  clamp_target_ms(ms, floor) \in Nat /\ floor <= clamp_target_ms(ms, floor)
<1> DEFINE f == Max({floor, 1})
           most == Max({MAX_TARGET, f})
<1>1. f \in Nat /\ floor <= f
  BY LargerOfTwo
<1> HIDE DEF f
<1>2. MAX_TARGET \in Nat
  BY TuningAssumption
<1>3. most \in Nat
  BY <1>1, <1>2, LargerOfTwo
<1> HIDE DEF most
<1>4. Clamp(ms, f, most) \in Nat /\ f <= Clamp(ms, f, most)
  BY <1>1, <1>3, Clamped
<1>5. clamp_target_ms(ms, floor) = Clamp(ms, f, most)
  BY DEF clamp_target_ms, f, most
<1>6. QED
  BY <1>1, <1>4, <1>5

LEMMA QueueClamped == ASSUME NEW n \in Nat PROVE clamp_queue_periods(n) \in Nat
<1>1. PICK least \in Queues, most \in Queues : \A q \in Queues : least <= q /\ q <= most
  BY TuningAssumption
<1>2. Queues \subseteq Nat
  BY TuningAssumption
<1>3. Min(Queues) \in Queues /\ Max(Queues) \in Queues
  <2>1. \E x \in Queues : \A y \in Queues : x <= y
    BY <1>1
  <2>2. \E x \in Queues : \A y \in Queues : x >= y
    BY <1>1, <1>2
  <2>3. QED
    BY <2>1, <2>2 DEF Min, Max
<1>4. Min(Queues) \in Nat /\ Max(Queues) \in Nat
  BY <1>2, <1>3
<1>5. QED
  BY <1>4, Clamped DEF clamp_queue_periods

LEMMA TuningStarts == TuningInit => TuningInv
<1> SUFFICES ASSUME TuningInit PROVE TuningInv
  OBVIOUS
<1>1. DEFAULT_TARGET \in Nat /\ DEFAULT_QUEUE \in Nat /\ MaxRequests \in Nat
  BY TuningAssumption
<1>2. dev \in Settings /\ slot \in Metrics /\ running \in [ on : BOOLEAN, target : Nat, queue : Nat, exclusive : BOOLEAN ]
  BY DEF TuningInit, Settings, Metrics, NoEngine, NoMetrics
<1>3. snap \in [Instances -> Metrics]
  BY DEF TuningInit, Metrics, NoMetrics
<1>4. params \in [Instances -> [ target : Nat, queue : Nat, exclusive : BOOLEAN ]]
  BY <1>1 DEF TuningInit
<1>5. TuningTypeOK
  <2>1. /\ host_block \in Nat /\ sharing \subseteq Instances /\ jobs = {} /\ untried \in BOOLEAN
        /\ late \in BOOLEAN /\ restarting \in Instances \union {"job", Nobody}
    BY DEF TuningInit
  <2>2. requests \in 0..MaxRequests
    BY <1>1 DEF TuningInit
  <2>3. QED
    BY <1>2, <1>3, <1>4, <2>1, <2>2 DEF TuningTypeOK
<1>6. FloorTold /\ RunsOrWill
  BY DEF TuningInit, FloorTold, RunsOrWill
<1>7. QED
  BY <1>5, <1>6 DEF TuningInv

(* The floor for the host blocks of an instance.                           *)
LEMMA FloorOf == ASSUME TuningInv, NEW c \in Instances PROVE min_target_ms(HostBlock[c], params[c].queue) \in Nat
<1>1. HostBlock[c] \in Nat /\ params[c].queue \in Nat
  BY TuningAssumption DEF TuningInv, TuningTypeOK
<1>2. QED
  BY <1>1 DEF min_target_ms

LEMMA Admitted ==
    ASSUME TuningInv, NEW c \in Instances, NEW floor \in Nat
    PROVE  /\ admitted(c, floor) \in Settings
           /\ admitted(c, floor) # dev => admitted(c, floor).floor <= admitted(c, floor).target
<1>1. dev \in Settings /\ dev.target \in Nat /\ dev.floor \in Nat
      /\ params[c].target \in Nat /\ params[c].queue \in Nat /\ params[c].exclusive \in BOOLEAN
  BY DEF TuningInv, TuningTypeOK, Settings
<1>2. CASE sharing = {}
  <2>1. PICK t \in Nat : t = clamp_target_ms(params[c].target, floor) /\ floor <= t
    BY <1>1, TargetClamped
  <2>2. PICK q \in Nat : q = clamp_queue_periods(params[c].queue)
    BY <1>1, QueueClamped
  <2>3. admitted(c, floor) = [ target |-> t, floor |-> floor, queue |-> q, exclusive |-> params[c].exclusive ]
    BY <1>2, <2>1, <2>2 DEF admitted
  <2>4. QED
    BY <1>1, <2>1, <2>3 DEF Settings
<1>3. CASE sharing # {} /\ HostBlock[c] > host_block
  <2>1. PICK raised \in Nat : raised = Max({dev.floor, floor})
    BY <1>1, LargerOfTwo
  <2>2. PICK t \in Nat : t = clamp_target_ms(dev.target, raised) /\ raised <= t
    BY <1>1, TargetClamped
  <2>3. admitted(c, floor) = [dev EXCEPT !.floor = raised, !.target = t]
    BY <1>3, <2>1, <2>2 DEF admitted, raise_floor
  <2>4. QED
    BY <1>1, <2>2, <2>3 DEF Settings
<1>4. CASE sharing # {} /\ ~(HostBlock[c] > host_block)
  BY <1>1, <1>4 DEF admitted
<1>5. QED
  BY <1>2, <1>3, <1>4

-----------------------------------------------------------------------------
LEMMA RestartTypes ==
    ASSUME TuningInv, NEW d \in Settings, NEW who \in Instances \union {"job"},
           RestartWith(d, who) \/ UNCHANGED <<restarting, running>>
    PROVE  /\ restarting' \in Instances \union {"job", Nobody}
           /\ running' \in [ on : BOOLEAN, target : Nat, queue : Nat, exclusive : BOOLEAN ]
<1>1. CASE RestartWith(d, who)
  <2>1. d.target \in Nat /\ d.queue \in Nat /\ d.exclusive \in BOOLEAN
    BY DEF Settings
  <2>2. restarting' = who /\ running' = [ on |-> TRUE, target |-> d.target, queue |-> d.queue, exclusive |-> d.exclusive ]
    BY <1>1 DEF RestartWith
  <2>3. running' \in [ on : BOOLEAN, target : Nat, queue : Nat, exclusive : BOOLEAN ]
    BY <2>1, <2>2
  <2>4. QED
    BY <2>2, <2>3
<1>2. CASE UNCHANGED <<restarting, running>>
  BY <1>2 DEF TuningInv, TuningTypeOK
<1>3. QED
  BY <1>1, <1>2

LEMMA JoinsKeeps == ASSUME TuningInv, NEW c \in Instances, joins(c) PROVE TuningInv'
<1> DEFINE restarts == sharing = {} \/ HostBlock[c] > host_block
<1>1. PICK floor \in Nat : floor = min_target_ms(HostBlock[c], params[c].queue)
  BY FloorOf
<1>2. PICK after \in Settings : after = admitted(c, floor) /\ (after # dev => after.floor <= after.target)
  BY Admitted
<1>3. /\ dev' = after /\ sharing' = sharing \union {c} /\ UNCHANGED <<slot, snap, jobs, untried, late, requests>>
      /\ host_block' = IF restarts THEN HostBlock[c] ELSE host_block
      /\ params' = [params EXCEPT ![c].target = after.target, ![c].queue = after.queue]
      /\ IF restarts THEN RestartWith(after, c) ELSE UNCHANGED <<restarting, running>>
  BY <1>1, <1>2 DEF joins
<1>4. /\ after.target \in Nat /\ after.queue \in Nat /\ after.floor \in Nat /\ after.exclusive \in BOOLEAN
      /\ HostBlock[c] \in Nat /\ host_block \in Nat /\ HostBlock \in [Instances -> Nat] /\ sharing \subseteq Instances
  BY TuningAssumption DEF Settings, TuningInv, TuningTypeOK
<1>5. TuningTypeOK'
  <2>1. params' \in [Instances -> [ target : Nat, queue : Nat, exclusive : BOOLEAN ]]
    <3>1. PICK p : p = [params EXCEPT ![c].target = after.target]
      OBVIOUS
    <3>2. p \in [Instances -> [ target : Nat, queue : Nat, exclusive : BOOLEAN ]]
      BY <1>4, <3>1 DEF TuningInv, TuningTypeOK
    <3>3. params' = [p EXCEPT ![c].queue = after.queue]
      BY <1>3, <3>1
    <3>4. QED
      BY <1>4, <3>2, <3>3
  <2>2. /\ restarting' \in Instances \union {"job", Nobody}
        /\ running' \in [ on : BOOLEAN, target : Nat, queue : Nat, exclusive : BOOLEAN ]
    BY <1>3, RestartTypes
  <2>3. dev' \in Settings /\ host_block' \in Nat /\ sharing' \subseteq Instances
    BY <1>3, <1>4
  <2>4. QED
    BY <1>3, <2>1, <2>2, <2>3 DEF TuningInv, TuningTypeOK
<1>6. FloorTold'
  <2>1. ASSUME NEW d \in sharing' PROVE HostBlock[d] <= host_block'
    <3>1. d \in Instances /\ HostBlock[d] \in Nat /\ d \in sharing \union {c}
      BY <1>3, <1>4
    <3>2. d \in sharing => HostBlock[d] <= host_block
      BY DEF TuningInv, FloorTold
    <3>3. CASE restarts
      BY <1>3, <1>4, <3>1, <3>2, <3>3
    <3>4. CASE ~restarts
      BY <1>3, <1>4, <3>1, <3>2, <3>4
    <3>5. QED
      BY <3>3, <3>4
  <2>2. dev'.target < dev'.floor => late'
    BY <1>2, <1>3, <1>4 DEF TuningInv, FloorTold
  <2>3. QED
    BY <2>1, <2>2 DEF FloorTold
<1>7. RunsOrWill'
  <2>1. CASE restarts
    <3>1. running' = [ on |-> TRUE, target |-> after.target, queue |-> after.queue, exclusive |-> after.exclusive ]
      BY <1>3, <2>1 DEF RestartWith
    <3>2. QED
      BY <1>3, <3>1 DEF RunsOrWill
  <2>2. CASE ~restarts
    <3>1. admitted(c, floor) = dev /\ running' = running /\ sharing # {} /\ dev' = dev /\ jobs' = jobs
      BY <1>2, <1>3, <2>2 DEF admitted
    <3>2. QED
      BY <3>1 DEF TuningInv, RunsOrWill
  <2>3. QED
    BY <2>1, <2>2
<1>8. QED
  BY <1>5, <1>6, <1>7 DEF TuningInv

LEMMA LeavesKeeps == ASSUME TuningInv, NEW c \in Instances, leaves(c) PROVE TuningInv'
<1>1. /\ sharing' = sharing \ {c} /\ snap' = [snap EXCEPT ![c] = NoMetrics]
      /\ UNCHANGED <<dev, host_block, restarting, params, jobs, untried, late, requests>>
      /\ IF sharing = {c} THEN running' = NoEngine /\ slot' = NoMetrics ELSE UNCHANGED <<running, slot>>
  BY DEF leaves
<1>2. NoMetrics \in Metrics /\ NoEngine \in [ on : BOOLEAN, target : Nat, queue : Nat, exclusive : BOOLEAN ]
  BY DEF NoMetrics, NoEngine, Metrics
<1>3. snap' \in [Instances -> Metrics] /\ slot' \in Metrics
      /\ running' \in [ on : BOOLEAN, target : Nat, queue : Nat, exclusive : BOOLEAN ]
  BY <1>1, <1>2 DEF TuningInv, TuningTypeOK
<1>4. TuningTypeOK'
  BY <1>1, <1>3 DEF TuningInv, TuningTypeOK
<1>5. FloorTold'
  BY <1>1 DEF TuningInv, FloorTold
<1>6. RunsOrWill'
  BY <1>1 DEF TuningInv, RunsOrWill
<1>7. QED
  BY <1>4, <1>5, <1>6 DEF TuningInv

LEMMA RestartEndKeeps == ASSUME TuningInv, RestartEnds PROVE TuningInv'
<1>1. restarting' = Nobody /\ UNCHANGED <<dev, host_block, sharing, running, params, snap, jobs, untried, late, requests>>
  BY DEF RestartEnds
<1>2. slot' \in Metrics
  <2>1. PICK opens \in BOOLEAN, got \in {FALSE, running.exclusive} :
          slot' = [ rated |-> opens, exclusive |-> opens /\ got, asked |-> running.exclusive,
                    floor |-> IF opens THEN min_target_ms(host_block, running.queue) ELSE 0 ]
    BY DEF RestartEnds
  <2>2. running.exclusive \in BOOLEAN /\ host_block \in Nat /\ running.queue \in Nat
    BY DEF TuningInv, TuningTypeOK
  <2>3. (IF opens THEN min_target_ms(host_block, running.queue) ELSE 0) \in Nat
    BY <2>2 DEF min_target_ms
  <2>4. QED
    BY <2>1, <2>2, <2>3 DEF Metrics
<1>3. TuningTypeOK'
  BY <1>1, <1>2 DEF TuningInv, TuningTypeOK
<1>4. FloorTold' /\ RunsOrWill'
  BY <1>1 DEF TuningInv, FloorTold, RunsOrWill
<1>5. QED
  BY <1>3, <1>4 DEF TuningInv

(* A job stores its choice: from here on it is to restart the engine.      *)
LEMMA JobSetsKeeps == ASSUME TuningInv, NEW j \in jobs, JobSets(j) PROVE TuningInv'
<1>1. /\ j.at = "set" /\ dev' = [dev EXCEPT ![j.what] = j.value]
      /\ jobs' = (jobs \ {j}) \union {[j EXCEPT !.at = "reshape"]}
      /\ late' = (late \/ (j.what = "target" /\ j.value < dev.floor))
      /\ UNCHANGED <<host_block, sharing, restarting, running, slot, params, snap, untried, requests>>
  BY DEF JobSets
<1>2. /\ j = [ n |-> j.n, what |-> j.what, value |-> j.value, at |-> j.at ]
      /\ j.n \in Nat /\ j.what \in {"target", "queue", "exclusive"}
      /\ IF j.what = "exclusive" THEN j.value \in BOOLEAN ELSE j.value \in Nat
  BY DEF TuningInv, TuningTypeOK
<1>3. PICK k : k = [j EXCEPT !.at = "reshape"]
  OBVIOUS
<1>4. k = [ n |-> j.n, what |-> j.what, value |-> j.value, at |-> "reshape" ]
  BY <1>2, <1>3
<1>5. /\ k = [ n |-> k.n, what |-> k.what, value |-> k.value, at |-> k.at ] /\ k.at = "reshape"
      /\ k.n = j.n /\ k.what = j.what /\ k.value = j.value
  BY <1>4
<1>6. jobs' = (jobs \ {j}) \union {k}
  BY <1>1, <1>3
<1>7. dev \in Settings
  BY DEF TuningInv, TuningTypeOK
<1>8. dev' \in Settings /\ (dev'.target < dev'.floor => late')
  <2>1. dev.target < dev.floor => late
    BY DEF TuningInv, FloorTold
  <2>2. CASE j.what = "target"
    BY <1>1, <1>2, <1>7, <2>2 DEF Settings
  <2>3. CASE j.what = "queue"
    BY <1>1, <1>2, <1>7, <2>1, <2>3 DEF Settings
  <2>4. CASE j.what = "exclusive"
    BY <1>1, <1>2, <1>7, <2>1, <2>4 DEF Settings
  <2>5. QED
    BY <1>2, <2>2, <2>3, <2>4
<1>9. late' \in BOOLEAN
  BY <1>1 DEF TuningInv, TuningTypeOK
<1>10. TuningTypeOK'
  <2>1. ASSUME NEW i \in jobs'
        PROVE  /\ i = [ n |-> i.n, what |-> i.what, value |-> i.value, at |-> i.at ]
               /\ i.n \in Nat /\ i.what \in {"target", "queue", "exclusive"} /\ i.at \in {"set", "reshape"}
               /\ IF i.what = "exclusive" THEN i.value \in BOOLEAN ELSE i.value \in Nat
    <3>1. CASE i = k
      BY <1>2, <1>5, <3>1
    <3>2. CASE i \in jobs
      BY <3>2 DEF TuningInv, TuningTypeOK
    <3>3. QED
      BY <1>6, <3>1, <3>2
  <2>2. QED
    BY <1>1, <1>8, <1>9, <2>1 DEF TuningInv, TuningTypeOK
<1>11. FloorTold'
  BY <1>1, <1>8 DEF TuningInv, FloorTold
<1>12. RunsOrWill'
  <2>1. k \in jobs' /\ k.at = "reshape"
    BY <1>5, <1>6
  <2>2. QED
    BY <1>1, <2>1 DEF TuningInv, RunsOrWill
<1>13. QED
  BY <1>10, <1>11, <1>12 DEF TuningInv

LEMMA RestartForKeeps == ASSUME TuningInv, NEW j \in jobs, restart_for(j) PROVE TuningInv'
<1>1. /\ j.at = "reshape" /\ jobs' = jobs \ {j}
      /\ IF sharing = {} THEN UNCHANGED <<restarting, running>> ELSE RestartWith(dev, "job")
      /\ UNCHANGED <<dev, host_block, sharing, slot, params, snap, untried, late, requests>>
  BY DEF restart_for
<1>2. dev \in Settings /\ "job" \in Instances \union {"job"}
  BY DEF TuningInv, TuningTypeOK
<1>3. /\ restarting' \in Instances \union {"job", Nobody}
      /\ running' \in [ on : BOOLEAN, target : Nat, queue : Nat, exclusive : BOOLEAN ]
  BY <1>1, <1>2, RestartTypes
<1>4. TuningTypeOK'
  BY <1>1, <1>3 DEF TuningInv, TuningTypeOK
<1>5. FloorTold'
  BY <1>1 DEF TuningInv, FloorTold
<1>6. RunsOrWill'
  BY <1>1 DEF RunsOrWill, RestartWith
<1>7. QED
  BY <1>4, <1>5, <1>6 DEF TuningInv

-----------------------------------------------------------------------------
(* A row that starts no job, or one that has not stored its choice.        *)
LEMMA RowKeeps ==
    ASSUME TuningInv, UNCHANGED <<dev, host_block, sharing, restarting, running, slot, snap, late>>,
           params' \in [Instances -> [ target : Nat, queue : Nat, exclusive : BOOLEAN ]],
           untried' \in BOOLEAN, requests' \in 0..MaxRequests,
           NEW what \in {"target", "queue", "exclusive"}, NEW value,
           IF what = "exclusive" THEN value \in BOOLEAN ELSE value \in Nat,
           UNCHANGED jobs \/ start_retune(what, value)
    PROVE  TuningInv'
<1>1. PICK k : k = [ n |-> requests, what |-> what, value |-> value, at |-> "set" ]
  OBVIOUS
<1>2. jobs' = jobs \/ jobs' = jobs \union {k}
  BY <1>1 DEF start_retune, Job
<1>3. requests \in Nat
  BY TuningAssumption DEF TuningInv, TuningTypeOK
<1>4. /\ k = [ n |-> k.n, what |-> k.what, value |-> k.value, at |-> k.at ]
      /\ k.n \in Nat /\ k.what \in {"target", "queue", "exclusive"} /\ k.at = "set"
      /\ IF k.what = "exclusive" THEN k.value \in BOOLEAN ELSE k.value \in Nat
  BY <1>1, <1>3
<1>5. TuningTypeOK'
  <2>1. ASSUME NEW i \in jobs'
        PROVE  /\ i = [ n |-> i.n, what |-> i.what, value |-> i.value, at |-> i.at ]
               /\ i.n \in Nat /\ i.what \in {"target", "queue", "exclusive"} /\ i.at \in {"set", "reshape"}
               /\ IF i.what = "exclusive" THEN i.value \in BOOLEAN ELSE i.value \in Nat
    <3>1. CASE i = k
      BY <1>4, <3>1
    <3>2. CASE i \in jobs
      BY <3>2 DEF TuningInv, TuningTypeOK
    <3>3. QED
      BY <1>2, <3>1, <3>2
  <2>2. QED
    BY <2>1 DEF TuningInv, TuningTypeOK
<1>6. FloorTold'
  BY DEF TuningInv, FloorTold
<1>7. RunsOrWill'
  BY <1>2 DEF TuningInv, RunsOrWill
<1>8. QED
  BY <1>5, <1>6, <1>7 DEF TuningInv

LEMMA Asked == ASSUME TuningInv, NEW c \in Instances, MayAsk(c) PROVE requests' \in 0..MaxRequests
BY TuningAssumption DEF TuningInv, TuningTypeOK, MayAsk

LEMMA TargetRequestKeeps ==
    ASSUME TuningInv, NEW c \in Instances, NEW ms \in Nat, MayAsk(c), request_target_ms(c, ms),
           UNCHANGED <<dev, host_block, sharing, restarting, running, slot, snap, untried, late>>
    PROVE  TuningInv'
<1>1. target_floor_ms \in Nat
  BY DEF TuningInv, TuningTypeOK, Settings, Metrics, target_floor_ms
<1>2. PICK w \in Nat : w = clamp_target_ms(ms, target_floor_ms)
  BY <1>1, TargetClamped
<1>3. params' = [params EXCEPT ![c].target = w] /\ (UNCHANGED jobs \/ start_retune("target", w))
  BY <1>2 DEF request_target_ms
<1>4. params' \in [Instances -> [ target : Nat, queue : Nat, exclusive : BOOLEAN ]] /\ untried' \in BOOLEAN
  BY <1>3 DEF TuningInv, TuningTypeOK
<1>5. requests' \in 0..MaxRequests
  BY Asked
<1>6. QED
  BY <1>3, <1>4, <1>5, RowKeeps

LEMMA QueueRowKeeps == ASSUME TuningInv, NEW c \in Instances, queue_row(c) PROVE TuningInv'
<1>1. PICK n \in Queues : /\ params' = [params EXCEPT ![c].queue = clamp_queue_periods(n)]
                          /\ start_retune("queue", clamp_queue_periods(n))
  BY DEF queue_row
<1>2. MayAsk(c) /\ UNCHANGED <<dev, host_block, sharing, restarting, running, slot, snap, untried, late>>
  BY DEF queue_row
<1>3. n \in Nat
  BY TuningAssumption
<1>4. PICK w \in Nat : w = clamp_queue_periods(n)
  BY <1>3, QueueClamped
<1>5. params' \in [Instances -> [ target : Nat, queue : Nat, exclusive : BOOLEAN ]] /\ untried' \in BOOLEAN
  BY <1>1, <1>2, <1>4 DEF TuningInv, TuningTypeOK
<1>6. requests' \in 0..MaxRequests
  BY <1>2, Asked
<1>7. start_retune("queue", w)
  BY <1>1, <1>4
<1>8. QED
  BY <1>2, <1>5, <1>6, <1>7, RowKeeps

LEMMA ExclusiveRowKeeps == ASSUME TuningInv, NEW c \in Instances, exclusive_row(c) PROVE TuningInv'
<1>1. PICK shown : shown = IF snap[c].rated THEN snap[c].exclusive ELSE dev.exclusive
  OBVIOUS
<1>2. /\ MayAsk(c) /\ params' = [params EXCEPT ![c].exclusive = ~shown]
      /\ UNCHANGED jobs \/ start_retune("exclusive", ~shown)
      /\ UNCHANGED <<dev, host_block, sharing, restarting, running, slot, snap, untried, late>>
  BY <1>1 DEF exclusive_row
<1>3. PICK w \in BOOLEAN : w = ~shown
  OBVIOUS
<1>4. params' \in [Instances -> [ target : Nat, queue : Nat, exclusive : BOOLEAN ]] /\ untried' \in BOOLEAN
  BY <1>2, <1>3 DEF TuningInv, TuningTypeOK
<1>5. requests' \in 0..MaxRequests
  BY <1>2, Asked
<1>6. UNCHANGED jobs \/ start_retune("exclusive", w)
  BY <1>2, <1>3
<1>7. QED
  BY <1>2, <1>4, <1>5, <1>6, RowKeeps

LEMMA ClearExclusiveKeeps == ASSUME TuningInv, NEW c \in Instances, clear_exclusive(c) PROVE TuningInv'
<1>1. /\ dev' = [dev EXCEPT !.exclusive = FALSE] /\ params' = [params EXCEPT ![c].exclusive = FALSE]
      /\ untried' = (untried \/ ~snap[c].asked)
      /\ UNCHANGED <<host_block, sharing, restarting, running, slot, snap, jobs, late, requests>>
  BY DEF clear_exclusive
<1>2. dev' \in Settings /\ dev'.target = dev.target /\ dev'.floor = dev.floor /\ dev'.queue = dev.queue
  BY <1>1 DEF TuningInv, TuningTypeOK, Settings
<1>3. params' \in [Instances -> [ target : Nat, queue : Nat, exclusive : BOOLEAN ]]
  BY <1>1 DEF TuningInv, TuningTypeOK
<1>4. untried' \in BOOLEAN
  BY <1>1 DEF TuningInv, TuningTypeOK
<1>5. TuningTypeOK'
  BY <1>1, <1>2, <1>3, <1>4 DEF TuningInv, TuningTypeOK
<1>6. FloorTold' /\ RunsOrWill'
  BY <1>1, <1>2 DEF TuningInv, FloorTold, RunsOrWill
<1>7. QED
  BY <1>5, <1>6 DEF TuningInv

LEMMA SnapshotKeeps == ASSUME TuningInv, NEW c \in Instances, snapshot(c) PROVE TuningInv'
<1>1. snap' = [snap EXCEPT ![c] = slot]
      /\ UNCHANGED <<dev, host_block, sharing, restarting, running, slot, params, jobs, untried, late, requests>>
  BY DEF snapshot
<1>2. snap' \in [Instances -> Metrics]
  BY <1>1 DEF TuningInv, TuningTypeOK
<1>3. TuningTypeOK' /\ FloorTold' /\ RunsOrWill'
  BY <1>1, <1>2 DEF TuningInv, TuningTypeOK, FloorTold, RunsOrWill
<1>4. QED
  BY <1>3 DEF TuningInv

LEMMA FrameKeeps == ASSUME TuningInv, NEW c \in Instances, Frame(c) PROVE TuningInv'
<1>1. CASE raise_target(c)
  <2>1. dev.target \in Nat
    BY DEF TuningInv, TuningTypeOK, Settings
  <2>2. QED
    BY <1>1, <2>1, TargetRequestKeeps DEF raise_target
<1>2. CASE target_row(c)
  <2>1. PICK ms \in Targets : request_target_ms(c, ms)
    BY <1>2 DEF target_row
  <2>2. ms \in Nat
    BY TuningAssumption
  <2>3. QED
    BY <1>2, <2>1, <2>2, TargetRequestKeeps DEF target_row
<1>3. QED
  BY <1>1, <1>2, QueueRowKeeps, ClearExclusiveKeeps, ExclusiveRowKeeps DEF Frame

LEMMA TuningStep == ASSUME TuningInv, [TuningNext]_tuning_vars PROVE TuningInv'
<1>1. CASE UNCHANGED tuning_vars
  <2>1. TuningTypeOK'
    BY <1>1 DEF TuningInv, TuningTypeOK, tuning_vars
  <2>2. FloorTold' /\ RunsOrWill'
    BY <1>1 DEF TuningInv, FloorTold, RunsOrWill, tuning_vars
  <2>3. QED
    BY <2>1, <2>2 DEF TuningInv
<1>2. QED
  BY <1>1, RestartEndKeeps, JoinsKeeps, LeavesKeeps, SnapshotKeeps, FrameKeeps, JobSetsKeeps, RestartForKeeps
     DEF TuningNext

(* For any instances, blocks, targets and choices, however joins, leaves,  *)
(* the editors' jobs and the engine's restarts meet: at rest the engine    *)
(* runs with the settings of its device, and only a choice that was        *)
(* clamped before a roomier instance came is below the floor               *)
(* (engine_ctl.rs: request_target_ms, raise_floor, reshape).               *)
THEOREM SettingsAreRun == TuningSpec => []SettingsApply
<1>1. TuningInv => SettingsApply
  BY DEF TuningInv, FloorTold, RunsOrWill, SettingsApply, EngineRunsTheSettings, FloorHolds, AtRest
<1>2. TuningInv /\ [TuningNext]_tuning_vars => TuningInv'
  BY TuningStep
<1>3. QED
  BY <1>1, <1>2, TuningStarts, PTL DEF TuningSpec
=============================================================================
