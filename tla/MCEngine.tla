------------------------------ MODULE MCEngine ------------------------------
(***************************************************************************)
(* The engine's thread with two recoverable faults, one fatal, a device    *)
(* that may go away twice and fail twice while it is there; and the two    *)
(* loops inside of it that wait for something, the sink for room and the   *)
(* drift loop for its target.  A behaviour runs one part under that part's *)
(* fairness; the others stand in an initial state.                         *)
(***************************************************************************)
EXTENDS Engine

VARIABLES
    part,
    client, stream, wanted, queue, event, device, writer, given, played,
    skew, level, filtered, integral, correction, smoothing, ratio, clamp_events, turn, settling, found, disturbed

sink_vars == <<client, stream, wanted, queue, event, device, writer, given, played>>
drift_vars == <<skew, level, filtered, integral, correction, smoothing, ratio, clamp_events, turn, settling, found, disturbed>>

-----------------------------------------------------------------------------
\* Writes of more frames than a period and than the exclusive buffer has.
S == INSTANCE Sink WITH
    Devices <- { [exclusive |-> FALSE, period |-> 2, buffer |-> 5], [exclusive |-> TRUE, period |-> 2, buffer |-> 2] },
    MIN_QUEUE_PERIODS <- 1, MAX_QUEUE_PERIODS <- 4, QueuePeriods <- {2, 9}, Writes <- {2, 3}, MaxFrames <- 7,
    sink <- client

\* Clocks apart by up to three quarters of the authority, the level empty or at
\* its target, and a remembered drift that is wrong or absurd.
D == INSTANCE Drift WITH
    TargetLevel <- 16384, RingFrames <- 40960, Skews <- {-1500, 1500}, Seeds <- {-2048, 5000},
    Levels <- {0, 16384}, MAX_CORRECTION <- 2048, KP <- 8, KI <- 256, LAG <- 4, WARMUP <- 4,
    SETTLE_CHECK <- 10, SETTLE_MIN <- 50, SETTLE_TOL <- 2, SETTLE_STABLE_CHECKS <- 3,
    SETTLE_COLD <- 50, SETTLE_WARM <- 50, TOLERANCE <- 512, MaxDisturbed <- 1, MIN_CAPACITY_FRAMES <- 2048,
    Ms <- {0}, HostBlocks <- {16}, Periods <- {48}, Rates <- {441},
    period <- turn, watch <- settling

-----------------------------------------------------------------------------
EngineInit ==
    /\ part \in {"engine", "sink", "drift"}
    /\ Init /\ S!SinkInit /\ D!DriftInit
    /\ part # "engine" => plugged
    /\ part # "sink" => ~wanted
    /\ part # "drift" => skew = 1500 /\ level = 0 /\ settling.seed = 5000

\* A sink that was closed or lost its device is not opened again.
Closed == part = "sink" /\ ~ENABLED S!SinkNext /\ UNCHANGED <<vars, sink_vars, drift_vars>>

EngineNext ==
    /\ UNCHANGED part
    /\ \/ part = "engine" /\ Next /\ UNCHANGED <<sink_vars, drift_vars>>
       \/ part = "sink" /\ S!SinkNext /\ UNCHANGED <<vars, drift_vars>>
       \/ part = "drift" /\ D!DriftNext /\ UNCHANGED <<vars, sink_vars>>
       \/ Closed

\* The fairness of each part, as its module states and justifies it.
EngineFairness ==
    /\ WF_vars(part = "engine" /\ Thread)
    /\ WF_vars(part = "engine" /\ StartReturns)
    /\ WF_vars(part = "engine" /\ Joined)
    /\ WF_sink_vars(part = "sink" /\ S!Step)
    /\ WF_sink_vars(part = "sink" /\ S!DevicePlays)
    /\ WF_drift_vars(part = "drift" /\ D!Play)

EngineSpec == EngineInit /\ [][EngineNext]_<<part, vars, sink_vars, drift_vars>> /\ EngineFairness

-----------------------------------------------------------------------------
\* The owner's calls return, and a device that comes back is played to again
\* (worker.rs, lib.rs of the engine).
ComesBack == OwnerReturns /\ Recovers

\* The loops inside come to an end: every write to the device ends (render.rs),
\* and whatever the clocks differ by, the level comes to its target and stays
\* there (clock.rs).
LoopsSettle ==
    /\ S!WriteEnds
    /\ part = "drift" => D!Converges
=============================================================================
