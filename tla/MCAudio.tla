------------------------------- MODULE MCAudio -------------------------------
(***************************************************************************)
(* The parts of the audio path, each with a small instance of its own: the *)
(* ring, the mixer, the sink, the drift loop and the gauges.  A behaviour  *)
(* runs one part; the others stand in an initial state.                    *)
(*                                                                         *)
(* The mixer has two tracks, rings that hold a target and one block, pulls *)
(* of one frame, and a QUIET_S of two pulls.                               *)
(*                                                                         *)
(* The ring is of two stereo frames; blocks and pulls of 2, 3 and 6 samples*)
(* are whole frames, half a frame too many, and more than the ring holds,  *)
(* so that every call meets every fill level and the indices go around more*)
(* than once.  The drift loop's deadlines are in periods, and its authority*)
(* is an eighth of the target.                                             *)
(***************************************************************************)
EXTENDS Mixer, Ring, Sink, Drift, Gauges

VARIABLE part

\* Writes of two and three frames are more than a period, and more than the
\* exclusive buffer.
MCDevices == { [exclusive |-> FALSE, period |-> 2, buffer |-> 5], [exclusive |-> TRUE, period |-> 2, buffer |-> 2] }

\* The source's clock is slower and faster; a remembered drift is at the limit,
\* absent or beyond it.
MCSkews == {-1500, 300, 1500}
MCSeeds == {-2048, 0, 5000}

-----------------------------------------------------------------------------
AudioInit ==
    /\ part \in {"mixer", "ring", "sink", "drift", "gauges"}
    /\ Init /\ RingInit /\ SinkInit /\ DriftInit /\ GaugesInit
    /\ part # "sink" => ~wanted
    /\ part # "drift" => skew = 300 /\ level = 0 /\ watch.seed = 0

\* The sink ends with its device or its worker, the gauges with their periods.
Stops == part \in {"sink", "gauges"} /\ UNCHANGED <<sink_vars, gauge_vars>>

AudioNext ==
    /\ UNCHANGED part
    /\ \/ part = "mixer" /\ Next /\ UNCHANGED <<ring_vars, sink_vars, drift_vars, gauge_vars>>
       \/ part = "ring" /\ RingNext /\ UNCHANGED <<vars, sink_vars, drift_vars, gauge_vars>>
       \/ part = "sink" /\ SinkNext /\ UNCHANGED <<vars, ring_vars, drift_vars, gauge_vars>>
       \/ part = "drift" /\ DriftNext /\ UNCHANGED <<vars, ring_vars, sink_vars, gauge_vars>>
       \/ part = "gauges" /\ GaugesNext /\ UNCHANGED <<vars, ring_vars, sink_vars, drift_vars>>
       \/ Stops /\ UNCHANGED <<vars, ring_vars, drift_vars>>

AudioSpec == AudioInit /\ [][AudioNext]_<<part, vars, ring_vars, sink_vars, drift_vars, gauge_vars>>

-----------------------------------------------------------------------------
\* The properties are the parts' own: LedgerCountsOnce, OrdersTakeEffectOnce,
\* NeverStranded and OnlyTheQuietAreDropped of the mixer, BridgeSound and
\* ImplementsFifo of the ring, SinkSound, DriftHeld, and RangesTell of the gauges.
=============================================================================
