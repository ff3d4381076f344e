------------------------------- MODULE Tuning -------------------------------
(***************************************************************************)
(* The tuning of one device by the editors of the instances on it: target  *)
(* latency, device buffer and exclusive mode.  engine_ctl.rs keeps them in *)
(* atomics of the device.  The editor (editor/mod.rs) reads them in each   *)
(* frame beside a snapshot of the engine's metrics, and changes them       *)
(* through jobs on threads of their own.  EngineCtl.tla has who is on      *)
(* which device.                                                           *)
(***************************************************************************)
EXTENDS Integers, FiniteSets, FiniteSetsExt

CONSTANTS
    Instances,      \* plugin instances on the device, or to be
    HostBlock,      \* host block of each, in steps of latency
    Targets,        \* latencies a user may ask for
    DEFAULT_TARGET, MAX_TARGET,
    Queues,         \* QUEUE_PERIOD_STEPS
    DEFAULT_QUEUE,
    MaxRequests     \* changes the users make

ASSUME TuningAssumption ==
    /\ HostBlock \in [Instances -> Nat] /\ Targets \subseteq Nat
    /\ {DEFAULT_TARGET, MAX_TARGET, DEFAULT_QUEUE, MaxRequests} \subseteq Nat
    /\ Queues \subseteq Nat /\ \E least, most \in Queues : \A n \in Queues : least <= n /\ n <= most

VARIABLES
    dev,        \* the Device's atomics: target, floor, queue, exclusive
    host_block, \* wiring.config.max_block_frames
    sharing,    \* the instances on the device
    restarting, \* the wiring lock's holder: a restart under way, by a join or a job
    running,    \* what the engine was started with
    slot,       \* the metrics the slot shows: rated = it has opened its device
    params,     \* what each instance's project saves
    snap,       \* each editor's snapshot of the frame
    jobs,       \* retunes under way
    untried,    \* an editor has told of a fall back of an engine that was not asked
    late,       \* a retune stored its target after a roomier instance had joined
    requests

tuning_vars == <<dev, host_block, sharing, restarting, running, slot, params, snap, jobs, untried, late,
                 requests>>

Clamp(x, a, b) == Max({a, Min({x, b})})
clamp_target_ms(ms, floor) == LET f == Max({floor, 1}) IN Clamp(ms, f, Max({MAX_TARGET, f}))
clamp_queue_periods(n) == Clamp(n, Min(Queues), Max(Queues))

\* Block and device buffer add up (min_total_ms, worker.rs).
min_target_ms(b, queue) == b + queue

NoEngine == [ on |-> FALSE, target |-> 0, queue |-> 0, exclusive |-> FALSE ]
NoMetrics == [ rated |-> FALSE, exclusive |-> FALSE, asked |-> FALSE, floor |-> 0 ]
Nobody == "nobody"

TuningInit ==
    /\ dev = [ target |-> 0, floor |-> 0, queue |-> 0, exclusive |-> FALSE ]
    /\ host_block = 0
    /\ sharing = {}
    /\ restarting = Nobody
    /\ running = NoEngine
    /\ slot = NoMetrics
    /\ params = [c \in Instances |-> [ target |-> DEFAULT_TARGET, queue |-> DEFAULT_QUEUE, exclusive |-> FALSE ]]
    /\ snap = [c \in Instances |-> NoMetrics]
    /\ jobs = {}
    /\ untried = FALSE
    /\ late = FALSE
    /\ requests = 0

\* What the editor and the jobs read: the device's setting once there is one.
target_floor_ms == IF slot.floor > 0 THEN slot.floor ELSE dev.floor

-----------------------------------------------------------------------------
(* A restart under the lock: the engine before is stopped, the settings are *)
(* read, and the new one's metrics are shown when its start has returned.   *)
RestartWith(d, who) ==
    /\ restarting' = who
    /\ running' = [ on |-> TRUE, target |-> d.target, queue |-> d.queue, exclusive |-> d.exclusive ]

\* The device may refuse exclusive mode, and may not open at all.
RestartEnds ==
    /\ restarting # Nobody
    /\ restarting' = Nobody
    /\ \E opens \in BOOLEAN, got \in {FALSE, running.exclusive} :
          slot' = [ rated |-> opens, exclusive |-> opens /\ got, asked |-> running.exclusive,
                    floor |-> IF opens THEN min_target_ms(host_block, running.queue) ELSE 0 ]
    /\ UNCHANGED <<dev, host_block, sharing, running, params, snap, jobs, untried, late, requests>>

\* A slip: leaves the target where it is.
raise_floor_only(floor) == [dev EXCEPT !.floor = Max({dev.floor, floor})]

\* The settings of a device that c joins: the first instance brings its own, a
\* roomier one raises the floor and the target with it.
raise_floor(floor) ==
    LET raised == Max({dev.floor, floor})
    IN  [dev EXCEPT !.floor = raised, !.target = clamp_target_ms(dev.target, raised)]

admitted(c, floor) ==
    IF sharing = {}
    THEN [ target |-> clamp_target_ms(params[c].target, floor), floor |-> floor,
           queue |-> clamp_queue_periods(params[c].queue), exclusive |-> params[c].exclusive ]
    ELSE IF HostBlock[c] > host_block THEN raise_floor(floor) ELSE dev

joins(c) ==
    /\ restarting = Nobody
    /\ c \notin sharing
    /\ LET after == admitted(c, min_target_ms(HostBlock[c], params[c].queue))
           restarts == sharing = {} \/ HostBlock[c] > host_block
       IN  /\ dev' = after
           /\ host_block' = IF restarts THEN HostBlock[c] ELSE host_block
           /\ params' = [params EXCEPT ![c].target = after.target, ![c].queue = after.queue]
           /\ IF restarts THEN RestartWith(after, c) ELSE UNCHANGED <<restarting, running>>
    /\ sharing' = sharing \union {c}
    /\ UNCHANGED <<slot, snap, jobs, untried, late, requests>>

\* deactivate and release: with the last the engine and its metrics go.
leaves(c) ==
    /\ restarting = Nobody
    /\ c \in sharing
    /\ sharing' = sharing \ {c}
    /\ snap' = [snap EXCEPT ![c] = NoMetrics]
    /\ IF sharing = {c}
       THEN running' = NoEngine /\ slot' = NoMetrics
       ELSE UNCHANGED <<running, slot>>
    /\ UNCHANGED <<dev, host_block, restarting, params, jobs, untried, late, requests>>

-----------------------------------------------------------------------------
(* A retune: the device's setting and the restart, by a job.  (A controller *)
(* keeps copies, which it only reads while it has no device.)               *)
Job(what, value) == [ n |-> requests, what |-> what, value |-> value, at |-> "set" ]

start_retune(what, value) == jobs' = jobs \union {Job(what, value)}

JobSets(j) ==
    /\ j \in jobs /\ j.at = "set"
    /\ dev' = [dev EXCEPT ![j.what] = j.value]
    /\ jobs' = (jobs \ {j}) \union {[j EXCEPT !.at = "reshape"]}
    /\ late' = (late \/ (j.what = "target" /\ j.value < dev.floor))
    /\ UNCHANGED <<host_block, sharing, restarting, running, slot, params, snap, untried, requests>>

restart_for(j) ==
    /\ j \in jobs /\ j.at = "reshape"
    /\ restarting = Nobody
    /\ jobs' = jobs \ {j}
    /\ IF sharing = {} THEN UNCHANGED <<restarting, running>> ELSE RestartWith(dev, "job")
    /\ UNCHANGED <<dev, host_block, sharing, slot, params, snap, untried, late, requests>>

\* request_target_ms: what is set already is not asked for again.
request_target_ms(c, ms) ==
    LET wanted == clamp_target_ms(ms, target_floor_ms)
    IN  /\ params' = [params EXCEPT ![c].target = wanted]
        /\ IF wanted = dev.target THEN UNCHANGED jobs ELSE start_retune("target", wanted)

-----------------------------------------------------------------------------
(* An editor's frame.  The snapshot is taken first, the rows read the       *)
(* settings later.                                                          *)
snapshot(c) ==
    /\ c \in sharing
    /\ snap' = [snap EXCEPT ![c] = slot]
    /\ UNCHANGED <<dev, host_block, sharing, restarting, running, slot, params, jobs, untried, late, requests>>

MayAsk(c) == c \in sharing /\ requests < MaxRequests /\ requests' = requests + 1

\* A target below the floor is raised before the user's choice is looked at.
raise_target(c) ==
    /\ c \in sharing
    /\ dev.target < target_floor_ms
    /\ MayAsk(c)
    /\ request_target_ms(c, dev.target)
    /\ UNCHANGED <<dev, host_block, sharing, restarting, running, slot, snap, untried, late>>

target_row(c) ==
    /\ MayAsk(c)
    /\ dev.target >= target_floor_ms
    /\ \E ms \in Targets : request_target_ms(c, ms)
    /\ UNCHANGED <<dev, host_block, sharing, restarting, running, slot, snap, untried, late>>

queue_row(c) ==
    /\ MayAsk(c)
    /\ \E n \in Queues :
          /\ n # dev.queue
          /\ params' = [params EXCEPT ![c].queue = clamp_queue_periods(n)]
          /\ start_retune("queue", clamp_queue_periods(n))
    /\ UNCHANGED <<dev, host_block, sharing, restarting, running, slot, snap, untried, late>>

\* An engine that shows shared mode while exclusive is wanted counts as refused.
clear_exclusive(c) ==
    /\ c \in sharing
    /\ dev.exclusive /\ snap[c].rated /\ ~snap[c].exclusive
    /\ dev' = [dev EXCEPT !.exclusive = FALSE]
    /\ params' = [params EXCEPT ![c].exclusive = FALSE]
    /\ untried' = (untried \/ ~snap[c].asked)
    /\ UNCHANGED <<host_block, sharing, restarting, running, slot, snap, jobs, late, requests>>

\* The switch shows what runs, or what is wanted while nothing does.
exclusive_row(c) ==
    LET shown == IF snap[c].rated THEN snap[c].exclusive ELSE dev.exclusive
    IN  /\ MayAsk(c)
        /\ ~(dev.exclusive /\ snap[c].rated /\ ~snap[c].exclusive)
        /\ params' = [params EXCEPT ![c].exclusive = ~shown]
        /\ IF ~shown = dev.exclusive THEN UNCHANGED jobs ELSE start_retune("exclusive", ~shown)
        /\ UNCHANGED <<dev, host_block, sharing, restarting, running, slot, snap, untried, late>>

Frame(c) == raise_target(c) \/ target_row(c) \/ queue_row(c) \/ clear_exclusive(c) \/ exclusive_row(c)

TuningNext ==
    \/ RestartEnds
    \/ \E c \in Instances : joins(c) \/ leaves(c) \/ snapshot(c) \/ Frame(c)
    \/ \E j \in jobs : JobSets(j) \/ restart_for(j)

TuningSpec == TuningInit /\ [][TuningNext]_tuning_vars

-----------------------------------------------------------------------------
Settings == [ target : Nat, floor : Nat, queue : Nat, exclusive : BOOLEAN ]
Metrics == [ rated : BOOLEAN, exclusive : BOOLEAN, asked : BOOLEAN, floor : Nat ]

TuningTypeOK ==
    /\ dev \in Settings /\ host_block \in Nat /\ sharing \subseteq Instances
    /\ restarting \in Instances \union {"job", Nobody}
    /\ running \in [ on : BOOLEAN, target : Nat, queue : Nat, exclusive : BOOLEAN ]
    /\ slot \in Metrics /\ snap \in [Instances -> Metrics]
    /\ params \in [Instances -> [ target : Nat, queue : Nat, exclusive : BOOLEAN ]]
    /\ \A j \in jobs :
          /\ j = [ n |-> j.n, what |-> j.what, value |-> j.value, at |-> j.at ]
          /\ j.n \in Nat /\ j.what \in {"target", "queue", "exclusive"} /\ j.at \in {"set", "reshape"}
          /\ IF j.what = "exclusive" THEN j.value \in BOOLEAN ELSE j.value \in Nat
    /\ untried \in BOOLEAN /\ late \in BOOLEAN /\ requests \in 0..MaxRequests

AtRest == restarting = Nobody /\ jobs = {}

\* When every change has been carried out, the engine runs with the device's
\* settings, however the changes of several editors and the joins have met.
EngineRunsTheSettings ==
    AtRest /\ sharing # {} =>
        running.on /\ running.target = dev.target /\ running.queue = dev.queue

\* The floor is that of the roomiest instance, and the target is not below it
\* unless a change stored the target it had clamped to the floor before
\* (raise_floor holds the wiring lock, a retune's store does not).
FloorHolds ==
    sharing # {} =>
        /\ \A c \in sharing : HostBlock[c] <= host_block
        /\ dev.target < dev.floor => late

\* At rest the engine runs with the settings of its device, and the target is
\* not below the floor of the roomiest instance (raise_floor, reshape).
SettingsApply == TuningTypeOK /\ EngineRunsTheSettings /\ FloorHolds

\* No editor tells of an exclusive mode that was refused ("Exclusive mode
\* unavailable, using shared mode", deviceout-i18n's en.rs) unless the engine
\* it looked at had asked for it.
FellBackWasTried == ~untried
=============================================================================
