------------------------------ MODULE EngineCtl ------------------------------
(***************************************************************************)
(* Who plays where (crates/deviceout-plugin/src/engine_ctl.rs): every      *)
(* plugin instance has an EngineController, the instances that chose the   *)
(* same device share one Device object with one engine, and each instance  *)
(* is a member of its device, with a ring of its own on the device's bus.  *)
(*                                                                         *)
(* Calls come from host threads (initialize, deactivate) and from the      *)
(* detached threads the editor spawns (set_device, retune); each is a      *)
(* sequence of steps here, one between any two locks it takes.  The wiring *)
(* lock belongs to a device; what a controller keeps (device, wanted, and  *)
(* the member's source and producer) is guarded only while it is touched.  *)
(*                                                                         *)
(* The engine is its life on the bus: started, draining the inbox into its *)
(* sources one order at a time, stopped.  Engine.tla and Mixer.tla have    *)
(* the rest.  An engine that could not open its device never drains.       *)
(***************************************************************************)
EXTENDS Integers, Sequences, FiniteSets

CONSTANTS
    Controllers,  \* plugin instances
    Devices,      \* device ids
    Threads,      \* host threads and detached jobs that may be at work at once
    None,         \* no device, no thread
    Block,        \* the host's max_block_frames for each controller
    DefaultBlock, \* that of EngineConfig::default()
    Overlap,      \* calls that may be under way together on one controller
    MaxCalls      \* bound: calls made

ASSUME EngineCtlAssumption ==
    /\ None \notin Controllers \cup Devices \cup Threads
    /\ Block \in [Controllers -> Nat] /\ DefaultBlock \in Nat
    /\ Overlap \subseteq {"initialize", "deactivate", "set_device"}
    /\ MaxCalls \in Nat

UNATTACHED == 0

VARIABLES
    (* each controller *)
    device,      \* the Device it holds
    wanted,      \* the device id of its last join
    source,      \* Member.source: its id on the bus
    producer,    \* Member.producer: where the audio callback pushes
    (* each Device object; the one alive for an id, or the one last alive *)
    gen,         \* which object of this id it is
    lock,        \* who holds its wiring
    members, block, engine,
    metrics,     \* it has metrics to show
    inbox, next_id,
    mix,         \* sources in its engine's mixer
    (* each thread *)
    pc, op, ctl,
    goal,        \* the device id it is to join
    old,         \* the Device it took from the controller
    held,        \* the Device it adopted or retunes
    todo,        \* members it has yet to wire
    at,          \* the member being wired
    stale,       \* the source the member being wired had before
    calls

controllerVars == <<device, wanted, source, producer>>
busVars    == <<inbox, next_id, mix>>
deviceVars == <<gen, lock, members, block, engine, metrics, busVars>>
threadVars == <<pc, op, ctl, goal, old, held, todo, at, stale>>
vars == <<controllerVars, deviceVars, threadVars, calls>>

Join(id)  == [kind |-> "join",  id |-> id]
Leave(id) == [kind |-> "leave", id |-> id]

NoRing == [dev |-> None, gen |-> 0, id |-> UNATTACHED]

Init ==
    /\ device = [c \in Controllers |-> None]
    /\ wanted = [c \in Controllers |-> None]
    /\ source = [c \in Controllers |-> UNATTACHED]
    /\ producer = [c \in Controllers |-> NoRing]
    /\ gen = [d \in Devices |-> 0]
    /\ lock = [d \in Devices |-> None]
    /\ members = [d \in Devices |-> {}]
    /\ block = [d \in Devices |-> DefaultBlock]
    /\ engine = [d \in Devices |-> FALSE] /\ metrics = [d \in Devices |-> FALSE]
    /\ inbox = [d \in Devices |-> <<>>] /\ next_id = [d \in Devices |-> 0]
    /\ mix = [d \in Devices |-> {}]
    /\ pc = [t \in Threads |-> "idle"] /\ op = [t \in Threads |-> "none"]
    /\ ctl = [t \in Threads |-> None] /\ goal = [t \in Threads |-> None]
    /\ old = [t \in Threads |-> None] /\ held = [t \in Threads |-> None]
    /\ todo = [t \in Threads |-> {}] /\ at = [t \in Threads |-> None]
    /\ stale = [t \in Threads |-> UNATTACHED]
    /\ calls = 0

(* Arc<Device>: who keeps d alive, in a state where dv, ol and he are the  *)
(* controllers' and the threads' references.  The hub only has a Weak.     *)
Alive(d, dv, ol, he) == \/ \E c \in Controllers : dv[c] = d
                        \/ \E t \in Threads : ol[t] = d \/ he[t] = d

(* With the last reference an engine still running is dropped, which stops *)
(* it and frees its mixer.                                                 *)
DropUnreferenced ==
    LET dead == {d \in Devices : engine[d] /\ ~Alive(d, device', old', held')} IN
    /\ engine' = [d \in Devices |-> engine[d] /\ d \notin dead]
    /\ mix' = [d \in Devices |-> IF d \in dead THEN {} ELSE mix[d]]

Done(t) ==
    /\ pc' = [pc EXCEPT ![t] = "idle"] /\ op' = [op EXCEPT ![t] = "none"]
    /\ ctl' = [ctl EXCEPT ![t] = None] /\ goal' = [goal EXCEPT ![t] = None]
Goto(t, label) == pc' = [pc EXCEPT ![t] = label] /\ UNCHANGED <<op, ctl, goal>>

-----------------------------------------------------------------------------
(* A call begins.                                                          *)

HostOps == {"initialize", "deactivate"}
Busy(c) == {t \in Threads : ctl[t] = c /\ op[t] # "retune"}

(* The host makes one call at a time on an instance.  Nothing in the code  *)
(* keeps the editor from switching during another switch or a host's call: *)
(* Overlap says which of them a run lets meet.                             *)
MayCall(c, kind) ==
    /\ calls < MaxCalls
    /\ \/ kind = "retune"
       \/ Busy(c) = {}
       \/ kind \in Overlap /\ \A t \in Busy(c) : op[t] \in Overlap
    /\ kind \in HostOps => \A t \in Busy(c) : op[t] \notin HostOps

Begin(t, c, kind, d, label) ==
    /\ pc[t] = "idle" /\ MayCall(c, kind)
    /\ calls' = calls + 1
    /\ pc' = [pc EXCEPT ![t] = label] /\ op' = [op EXCEPT ![t] = kind]
    /\ ctl' = [ctl EXCEPT ![t] = c] /\ goal' = [goal EXCEPT ![t] = d]
    /\ UNCHANGED <<controllerVars, deviceVars, old, todo, at, stale>>

initialize(t, c, d) ==
    Begin(t, c, "initialize", d, "take") /\ UNCHANGED held

deactivate(t, c) ==
    Begin(t, c, "deactivate", None, "take") /\ UNCHANGED held

set_device(t, c, d) ==
    /\ wanted[c] \notin {None, d}
    /\ Begin(t, c, "set_device", d, "take") /\ UNCHANGED held

(* request_target_ms, request_queue_periods and request_exclusive.         *)
retune(t, c) ==
    /\ device[c] # None
    /\ Begin(t, c, "retune", None, "reshape")
    /\ held' = [held EXCEPT ![t] = device[c]]

-----------------------------------------------------------------------------
(* EngineController::leave and Device::release.                            *)

Take(t) ==
    /\ pc[t] = "take"
    /\ LET c == ctl[t] IN
       /\ old' = [old EXCEPT ![t] = device[c]]
       /\ device' = [device EXCEPT ![c] = None]
       /\ IF device[c] # None THEN Goto(t, "release")
          ELSE IF goal[t] # None THEN Goto(t, "adopt") ELSE Done(t)
    /\ UNCHANGED <<wanted, source, producer, deviceVars, held, todo, at, stale, calls>>

ReleaseSource(t) ==
    /\ pc[t] = "release"
    /\ LET c == ctl[t]  d == old[t] IN
       /\ lock[d] = None
       /\ lock' = [lock EXCEPT ![d] = t]
       /\ source' = [source EXCEPT ![c] = UNATTACHED]
       /\ inbox' = IF source[c] = UNATTACHED THEN inbox
                   ELSE [inbox EXCEPT ![d] = Append(@, Leave(source[c]))]
    /\ Goto(t, "release_member")
    /\ UNCHANGED <<device, wanted, producer, gen, members, block, engine, metrics,
                   next_id, mix, old, held, todo, at, stale, calls>>

(* Slips the properties are tried against stand before what they change.   *)
ReleaseMemberAlwaysStops(t) ==
    /\ pc[t] = "release_member"
    /\ LET c == ctl[t]  d == old[t] IN
       /\ producer' = [producer EXCEPT ![c] = NoRing]
       /\ members' = [members EXCEPT ![d] = @ \ {c}]
       /\ engine' = [engine EXCEPT ![d] = FALSE]
       /\ mix' = [mix EXCEPT ![d] = {}]
       /\ metrics' = [metrics EXCEPT ![d] = FALSE]
       /\ lock' = [lock EXCEPT ![d] = None]
    /\ Goto(t, "released")
    /\ UNCHANGED <<device, wanted, source, gen, block, inbox, next_id, old, held,
                   todo, at, stale, calls>>

ReleaseMember(t) ==
    /\ pc[t] = "release_member"
    /\ LET c == ctl[t]  d == old[t]  left == members[d] \ {c} IN
       /\ producer' = [producer EXCEPT ![c] = NoRing]
       /\ members' = [members EXCEPT ![d] = left]
       /\ engine' = [engine EXCEPT ![d] = @ /\ left # {}]
       /\ mix' = [mix EXCEPT ![d] = IF left = {} THEN {} ELSE @]
       /\ metrics' = [metrics EXCEPT ![d] = @ /\ left # {}]
       /\ lock' = [lock EXCEPT ![d] = None]
    /\ Goto(t, "released")
    /\ UNCHANGED <<device, wanted, source, gen, block, inbox, next_id, old, held,
                   todo, at, stale, calls>>

Released(t) ==
    /\ pc[t] = "released"
    /\ old' = [old EXCEPT ![t] = None]
    /\ IF goal[t] # None THEN Goto(t, "adopt") ELSE Done(t)
    /\ UNCHANGED <<device, held>> /\ DropUnreferenced
    /\ UNCHANGED <<wanted, source, producer, gen, lock, members, block, metrics,
                   inbox, next_id, todo, at, stale, calls>>

-----------------------------------------------------------------------------
(* adopt: the Device of this id that is alive, or a new one.               *)

adopt(t) ==
    /\ pc[t] = "adopt"
    /\ LET d == goal[t] IN
       /\ held' = [held EXCEPT ![t] = d]
       /\ IF Alive(d, device, old, held)
          THEN UNCHANGED <<gen, members, block, metrics, busVars>>
          ELSE /\ gen' = [gen EXCEPT ![d] = @ + 1]
               /\ members' = [members EXCEPT ![d] = {}]
               /\ block' = [block EXCEPT ![d] = DefaultBlock]
               /\ metrics' = [metrics EXCEPT ![d] = FALSE]
               /\ inbox' = [inbox EXCEPT ![d] = <<>>]
               /\ next_id' = [next_id EXCEPT ![d] = 0]
               /\ mix' = [mix EXCEPT ![d] = {}]
    /\ Goto(t, "admit")
    /\ UNCHANGED <<controllerVars, lock, engine, old, todo, at, stale, calls>>

(* Device::admit: the first member and one with larger blocks restart the  *)
(* engine with everybody on a new ring; any other is only wired.           *)
admit(t) ==
    /\ pc[t] = "admit"
    /\ LET c == ctl[t]  d == held[t]
           first == members[d] = {}
           own == IF first THEN Block[c] ELSE block[d]
           roomier == Block[c] > own
           all == members[d] \cup {c}
       IN  /\ lock[d] = None
           /\ lock' = [lock EXCEPT ![d] = t]
           /\ block' = [block EXCEPT ![d] = IF roomier THEN Block[c] ELSE own]
           /\ members' = [members EXCEPT ![d] = all]
           /\ todo' = [todo EXCEPT ![t] = IF first \/ roomier THEN all ELSE {c}]
           /\ Goto(t, IF first \/ roomier THEN "restart" ELSE "wire")
    /\ UNCHANGED <<controllerVars, gen, engine, metrics, busVars, old, held, at, stale,
                   calls>>

(* Device::reshape: nothing to do once everybody has left.                 *)
reshape(t) ==
    /\ pc[t] = "reshape"
    /\ LET d == held[t] IN
       /\ lock[d] = None
       /\ IF members[d] = {}
          THEN UNCHANGED <<lock, todo>> /\ Goto(t, "drop")
          ELSE /\ lock' = [lock EXCEPT ![d] = t]
               /\ todo' = [todo EXCEPT ![t] = members[d]]
               /\ Goto(t, "restart")
    /\ UNCHANGED <<controllerVars, gen, members, block, engine, metrics, busVars,
                   old, held, at, stale, calls>>

-----------------------------------------------------------------------------
(* Device::restart and Device::wire, under the wiring lock throughout.     *)

StopEngine(t) ==
    /\ pc[t] = "restart"
    /\ engine' = [engine EXCEPT ![held[t]] = FALSE]
    /\ mix' = [mix EXCEPT ![held[t]] = {}]
    /\ Goto(t, "rewire")
    /\ UNCHANGED <<controllerVars, gen, lock, members, block, metrics, inbox,
                   next_id, old, held, todo, at, stale, calls>>

(* The new ring joins the bus and the member takes its id.                 *)
WireSource(t, m) ==
    /\ pc[t] \in {"wire", "rewire"} /\ m \in todo[t]
    /\ LET d == held[t]  id == next_id[d] + 1 IN
       /\ next_id' = [next_id EXCEPT ![d] = id]
       /\ inbox' = [inbox EXCEPT ![d] = Append(@, Join(id))]
       /\ at' = [at EXCEPT ![t] = m] /\ stale' = [stale EXCEPT ![t] = source[m]]
       /\ source' = [source EXCEPT ![m] = id]
       /\ producer' = producer
    /\ Goto(t, IF pc[t] = "wire" THEN "wire_producer" ELSE "rewire_producer")
    /\ UNCHANGED <<device, wanted, gen, lock, members, block, engine, metrics, mix,
                   old, held, todo, calls>>

(* Its audio callback is given the ring, and the ring it had leaves.       *)
WireProducerKeepsStale(t) ==
    /\ pc[t] \in {"wire_producer", "rewire_producer"}
    /\ LET d == held[t] IN
       producer' = [producer EXCEPT ![at[t]] =
           [dev |-> d, gen |-> gen[d], id |-> next_id[d]]]
    /\ todo' = [todo EXCEPT ![t] = @ \ {at[t]}]
    /\ at' = [at EXCEPT ![t] = None] /\ stale' = [stale EXCEPT ![t] = UNATTACHED]
    /\ Goto(t, IF pc[t] = "wire_producer" THEN "wire" ELSE "rewire")
    /\ UNCHANGED <<device, wanted, source, deviceVars, old, held, calls>>

WireProducer(t) ==
    /\ pc[t] \in {"wire_producer", "rewire_producer"}
    /\ LET d == held[t]  m == at[t] IN
       /\ producer' = [producer EXCEPT ![m] =
              [dev |-> d, gen |-> gen[d], id |-> next_id[d]]]
       /\ inbox' = IF stale[t] = UNATTACHED THEN inbox
                   ELSE [inbox EXCEPT ![d] = Append(@, Leave(stale[t]))]
    /\ todo' = [todo EXCEPT ![t] = @ \ {at[t]}]
    /\ at' = [at EXCEPT ![t] = None] /\ stale' = [stale EXCEPT ![t] = UNATTACHED]
    /\ Goto(t, IF pc[t] = "wire_producer" THEN "wire" ELSE "rewire")
    /\ UNCHANGED <<device, wanted, source, gen, lock, members, block, engine,
                   metrics, next_id, mix, old, held, calls>>

After(t) == IF op[t] = "retune" THEN "drop" ELSE "want"

WiredKeepsLock(t) ==
    /\ pc[t] = "wire" /\ todo[t] = {}
    /\ Goto(t, After(t))
    /\ UNCHANGED <<controllerVars, deviceVars, old, held, todo, at, stale, calls>>

Wired(t) ==
    /\ pc[t] = "wire" /\ todo[t] = {}
    /\ lock' = [lock EXCEPT ![held[t]] = None]
    /\ Goto(t, After(t))
    /\ UNCHANGED <<controllerVars, gen, members, block, engine, metrics, busVars,
                   old, held, todo, at, stale, calls>>

(* start() returns once the engine is ready or has failed; either way its  *)
(* metrics are the ones to show.                                           *)
StartEngine(t) ==
    /\ pc[t] = "rewire" /\ todo[t] = {}
    /\ engine' = [engine EXCEPT ![held[t]] = TRUE]
    /\ metrics' = [metrics EXCEPT ![held[t]] = TRUE]
    /\ lock' = [lock EXCEPT ![held[t]] = None]
    /\ Goto(t, After(t))
    /\ UNCHANGED <<controllerVars, gen, members, block, busVars, old, held, todo, at,
                   stale, calls>>

(* The end of EngineController::join, after the wiring lock is gone.       *)
Want(t) ==
    /\ pc[t] = "want"
    /\ wanted' = [wanted EXCEPT ![ctl[t]] = goal[t]]
    /\ Goto(t, "hold")
    /\ UNCHANGED <<device, source, producer, deviceVars, old, held, todo, at, stale,
                   calls>>

Hold(t) ==
    /\ pc[t] = "hold"
    /\ device' = [device EXCEPT ![ctl[t]] = held[t]]
    /\ held' = [held EXCEPT ![t] = None]
    /\ old' = old /\ DropUnreferenced
    /\ Done(t)
    /\ UNCHANGED <<wanted, source, producer, gen, lock, members, block, metrics,
                   inbox, next_id, todo, at, stale, calls>>

Drop(t) ==
    /\ pc[t] = "drop"
    /\ held' = [held EXCEPT ![t] = None]
    /\ UNCHANGED <<device, old>> /\ DropUnreferenced
    /\ Done(t)
    /\ UNCHANGED <<wanted, source, producer, gen, lock, members, block, metrics,
                   inbox, next_id, todo, at, stale, calls>>

-----------------------------------------------------------------------------
(* Mixer::sync on the engine thread, one order at a time.                  *)
EngineDrain(d) ==
    /\ engine[d] /\ inbox[d] # <<>>
    /\ LET order == Head(inbox[d]) IN
       mix' = [mix EXCEPT ![d] = IF order.kind = "join" THEN @ \cup {order.id}
                                                        ELSE @ \ {order.id}]
    /\ inbox' = [inbox EXCEPT ![d] = Tail(@)]
    /\ UNCHANGED <<controllerVars, gen, lock, members, block, engine, metrics,
                   next_id, threadVars, calls>>

-----------------------------------------------------------------------------
Call(t) == \E c \in Controllers :
    \/ \E d \in Devices : initialize(t, c, d) \/ set_device(t, c, d)
    \/ deactivate(t, c) \/ retune(t, c)

Step(t) ==
    \/ Take(t) \/ ReleaseSource(t) \/ ReleaseMember(t) \/ Released(t)
    \/ adopt(t) \/ admit(t) \/ reshape(t) \/ StopEngine(t)
    \/ WireProducer(t) \/ \E m \in Controllers : WireSource(t, m)
    \/ Wired(t) \/ StartEngine(t) \/ Want(t) \/ Hold(t) \/ Drop(t)

Resting == (\A t \in Threads : pc[t] = "idle") /\ \A d \in Devices :
              engine[d] => inbox[d] = <<>>

(* Nothing more is asked of a settled system.                              *)
Rest == Resting /\ UNCHANGED vars

Next == \/ \E t \in Threads : Call(t) \/ Step(t)
        \/ \E d \in Devices : EngineDrain(d)
        \/ Rest

Spec == Init /\ [][Next]_vars

-----------------------------------------------------------------------------
Orders == [kind : {"join", "leave"}, id : Nat]

(* Where a thread is inside a device's wiring lock.                        *)
Locked == {"release_member", "restart", "wire", "rewire", "wire_producer",
           "rewire_producer"}

TypeOK ==
    /\ device \in [Controllers -> Devices \cup {None}]
    /\ wanted \in [Controllers -> Devices \cup {None}]
    /\ source \in [Controllers -> Nat]
    /\ producer \in [Controllers -> [dev : Devices \cup {None}, gen : Nat, id : Nat]]
    /\ gen \in [Devices -> Nat] /\ lock \in [Devices -> Threads \cup {None}]
    /\ \A d \in Devices : lock[d] # None => pc[lock[d]] \in Locked
    /\ members \in [Devices -> SUBSET Controllers] /\ block \in [Devices -> Nat]
    /\ engine \in [Devices -> BOOLEAN] /\ metrics \in [Devices -> BOOLEAN]
    /\ inbox \in [Devices -> Seq(Orders)]
    /\ next_id \in [Devices -> Nat] /\ mix \in [Devices -> SUBSET Nat]
    /\ op \in [Threads -> {"none", "initialize", "deactivate", "set_device", "retune"}]
    /\ ctl \in [Threads -> Controllers \cup {None}]
    /\ goal \in [Threads -> Devices \cup {None}]
    /\ old \in [Threads -> Devices \cup {None}]
    /\ held \in [Threads -> Devices \cup {None}]
    /\ todo \in [Threads -> SUBSET Controllers]
    /\ at \in [Threads -> Controllers \cup {None}] /\ stale \in [Threads -> Nat]
    /\ calls \in Nat

Queued(d, order) == \E i \in 1 .. Len(inbox[d]) : inbox[d][i] = order

(* The sources the mixer of d has, or will have once it has caught up.     *)
Heard(d) == {id \in 1 .. next_id[d] :
                /\ id \in mix[d] \/ Queued(d, Join(id))
                /\ ~Queued(d, Leave(id))}

(* What a bus says and what its members hold agree whenever nobody is      *)
(* rewiring the device: the engine hears each member's ring and no other,  *)
(* and it runs exactly as long as somebody is a member.                    *)
WiringAgrees ==
    \A d \in Devices : lock[d] = None /\ Alive(d, device, old, held) =>
       /\ engine[d] <=> members[d] # {}
       /\ metrics[d] = engine[d]
       /\ engine[d] => Heard(d) = {source[m] : m \in members[d]}
       /\ \A m \in members[d] : producer[m] = [dev |-> d, gen |-> gen[d], id |-> source[m]]

(* A controller that no call is busy with plays exactly where it says: the *)
(* ring its audio callback fills is the one its device's engine hears, and *)
(* it is a member of no other device.  In particular nobody else's join,   *)
(* leave, retune or restart takes it off the air.                          *)
PlaysWhereSelected ==
    \A c \in Controllers : Busy(c) = {} =>
       /\ \A d \in Devices : c \in members[d] <=> device[c] = d
       /\ device[c] # None =>
             LET d == device[c] IN
             lock[d] = None => /\ engine[d]
                               /\ producer[c].dev = d /\ producer[c].gen = gen[d]
                               /\ producer[c].id \in Heard(d)
       /\ device[c] = None => producer[c] = NoRing /\ source[c] = UNATTACHED

(* The last one out turns the engine off: no engine, and no member, is     *)
(* left on a device nobody holds.                                          *)
NothingLeftBehind ==
    \A d \in Devices : ~Alive(d, device, old, held) => ~engine[d] /\ members[d] = {}

(* When nobody is at work on a device, its engine runs exactly as long as  *)
(* somebody is a member and hears the members' rings and no others;        *)
(* nothing is left on a device nobody holds (Device::restart, release).    *)
DevicesAgree == TypeOK /\ WiringAgrees /\ NothingLeftBehind

(* Once every call has returned and the engines have caught up, the audio  *)
(* of a track whose device was picked reaches that device.                 *)
AudioReachesTheDevice ==
    Resting => \A c \in Controllers : device[c] # None =>
        LET d == device[c] IN
        engine[d] /\ producer[c].dev = d /\ producer[c].gen = gen[d]
                  /\ producer[c].id \in mix[d]

(* A thread holds the wiring lock of the one device it works on, and none  *)
(* while it waits for one (release, admit, reshape) or has returned: the   *)
(* locks of two devices are never waited for in a circle.  Calls being     *)
(* finite sequences of steps, without a deadlock each of them returns.     *)
LocksDoNotCross ==
    \A t \in Threads :
        LET mine == {d \in Devices : lock[d] = t} IN
        mine = IF pc[t] \notin Locked THEN {}
               ELSE IF pc[t] = "release_member" THEN {old[t]} ELSE {held[t]}
=============================================================================
