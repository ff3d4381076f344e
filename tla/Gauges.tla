------------------------------- MODULE Gauges -------------------------------
(***************************************************************************)
(* The fill gauge of an engine and the log that samples it                 *)
(* (deviceout-engine metrics.rs and trace.rs).  With every period the      *)
(* engine thread lowers one cell and raises another; once a second the     *)
(* trace thread takes the lowest and the highest fill since the last time, *)
(* with a swap each, and writes a line.  No lock is involved: a period may *)
(* be published around a taking, or stall between its two stores.          *)
(***************************************************************************)
EXTENDS Integers, FiniteSetsExt

CONSTANTS
    Fills,          \* what a period may measure
    NOTHING,        \* u64::MAX, of a minimum nobody has stored into
    MaxPeriods

ASSUME GaugesAssumption == NOTHING \in Nat \ {0} /\ Fills \subseteq 0..(NOTHING - 1) /\ MaxPeriods \in Nat

VARIABLES
    low, high,  \* fill_low, fill_high
    wat, measured,  \* the engine thread: its step, and what it measured
    periods,
    trace_at,         \* the trace thread's step
    taken,      \* the low end it has taken
    told,       \* the range of its line
    stopping,       \* Trace::stop
    owed        \* the fills published, each with the ranges told since that began

gauge_vars == <<low, high, wat, measured, periods, trace_at, taken, told, stopping, owed>>

GaugesInit ==
    /\ low = NOTHING /\ high = 0
    /\ wat = "idle" /\ measured = 0 /\ periods = 0
    /\ trace_at = "none" /\ taken = 0 /\ told = [lo |-> 0, hi |-> 0]
    /\ stopping = FALSE
    /\ owed = {}

EngineSide == <<wat, measured, periods>>
Line == <<taken, told>>

-----------------------------------------------------------------------------
(* The engine thread. *)

\* The trace's thread is made once the device is open; making it may fail.
spawn ==
    /\ trace_at = "none" /\ wat = "idle"
    /\ trace_at' \in {"opens", "joined"}
    /\ UNCHANGED <<low, high, EngineSide, Line, stopping, owed>>

publish ==
    /\ wat = "idle" /\ trace_at # "none" /\ ~stopping /\ periods < MaxPeriods
    /\ \E f \in Fills :
         /\ measured' = f
         /\ owed' = owed \union {[fill |-> f, done |-> "no", lo |-> NOTHING, hi |-> 0]}
    /\ wat' = "min" /\ periods' = periods + 1
    /\ UNCHANGED <<low, high, trace_at, Line, stopping>>

fetch_min ==
    /\ wat = "min" /\ wat' = "max"
    /\ low' = Min({low, measured})
    /\ UNCHANGED <<high, measured, periods, trace_at, Line, stopping, owed>>

fetch_max ==
    /\ wat = "max" /\ wat' = "idle"
    /\ high' = Max({high, measured})
    /\ owed' = {[r EXCEPT !.done = IF @ = "no" THEN "yes" ELSE @] : r \in owed}
    /\ UNCHANGED <<low, measured, periods, trace_at, Line, stopping>>

\* The thread ends: it tells the trace to stop and waits for it.
drop ==
    /\ wat = "idle" /\ trace_at # "none"
    /\ \/ ~stopping /\ stopping' = TRUE /\ UNCHANGED trace_at
       \/ stopping /\ trace_at = "ended" /\ trace_at' = "joined" /\ UNCHANGED stopping
    /\ UNCHANGED <<low, high, EngineSide, Line, owed>>

-----------------------------------------------------------------------------
(* The trace thread. *)

\* The file may not open, and a line may not be written: then it ends.
open_trace ==
    /\ trace_at \in {"opens", "writes"} /\ trace_at' \in {"waits", "ended"}
    /\ UNCHANGED <<low, high, EngineSide, Line, stopping, owed>>

\* A second has passed, or it is told to stop.
wait ==
    /\ trace_at = "waits"
    /\ trace_at' = (IF stopping THEN "ended" ELSE "low")
    /\ UNCHANGED <<low, high, EngineSide, Line, stopping, owed>>

\* A slip: resets the low end to zero.
SwapLowToZero ==
    /\ trace_at = "low" /\ trace_at' = "high"
    /\ taken' = low /\ low' = 0
    /\ owed' = {[r EXCEPT !.done = IF @ = "yes" THEN "due" ELSE @] : r \in owed}
    /\ UNCHANGED <<high, EngineSide, told, stopping>>

\* What was published by now is due in this line.
SwapLow ==
    /\ trace_at = "low" /\ trace_at' = "high"
    /\ taken' = low /\ low' = NOTHING
    /\ owed' = {[r EXCEPT !.done = IF @ = "yes" THEN "due" ELSE @] : r \in owed}
    /\ UNCHANGED <<high, EngineSide, told, stopping>>

SwapHigh ==
    /\ trace_at = "high" /\ trace_at' = "told"
    /\ told' = [lo |-> Min({taken, high}), hi |-> high]
    /\ high' = 0
    /\ owed' = {[r EXCEPT !.lo = Min({@, told'.lo}), !.hi = Max({@, told'.hi})] : r \in owed}
    /\ UNCHANGED <<low, EngineSide, taken, stopping>>

take_fill_range ==
    /\ trace_at = "told" /\ trace_at' = "writes"
    /\ owed' = {r \in owed : r.done # "due"}
    /\ UNCHANGED <<low, high, EngineSide, Line, stopping>>

GaugesNext ==
    \/ spawn \/ publish \/ fetch_min \/ fetch_max \/ drop
    \/ open_trace \/ wait \/ SwapLow \/ SwapHigh \/ take_fill_range

GaugesSpec == GaugesInit /\ [][GaugesNext]_gauge_vars

-----------------------------------------------------------------------------
\* The first line begun after a fill was published tells a range it lies in,
\* together with the lines written while it was being published; and both ends
\* of a range are fills that were measured, or nothing was published whole.
RangesTell ==
    trace_at = "told" =>
        /\ \A r \in owed : r.done = "due" => r.lo <= r.fill /\ r.fill <= r.hi
        /\ {told.lo, told.hi} \subseteq {r.fill : r \in owed} \/ told = [lo |-> 0, hi |-> 0]
=============================================================================
