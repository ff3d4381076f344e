-------------------------------- MODULE Sink --------------------------------
(***************************************************************************)
(* The WASAPI sink of deviceout-sink (render.rs, wasapi.rs, device.rs and  *)
(* error.rs) and the device behind it: opening with the fall back from     *)
(* exclusive to shared mode, the prefill, the write loop that waits for    *)
(* room, and the frames in the device's buffer.  Frames are numbered; 0 is *)
(* silence.  The device is external: it plays a period and sets the event, *)
(* stops advancing, or goes away.                                          *)
(***************************************************************************)
EXTENDS Integers, Sequences, FiniteSetsExt

CONSTANTS
    Devices,        \* what each mode gets: [exclusive : BOOLEAN, period, buffer]
    MIN_QUEUE_PERIODS, MAX_QUEUE_PERIODS,
    QueuePeriods,   \* what the options ask for
    Writes,         \* frames of a write
    MaxFrames

ASSUME SinkAssumption ==
    /\ Devices \subseteq [exclusive : BOOLEAN, period : Nat, buffer : Nat]
    /\ {MIN_QUEUE_PERIODS, MAX_QUEUE_PERIODS, MaxFrames} \subseteq Nat
    /\ QueuePeriods \subseteq Nat /\ Writes \subseteq Nat \ {0}

VARIABLES
    sink,       \* "none" | "open" | "running" | "stopped", or why it ended
    stream,     \* the stream that was opened
    wanted,     \* whether exclusive mode was asked for
    queue,      \* the device's buffer
    event,      \* the event the device sets
    device,     \* "well" | "stuck" | "gone"
    writer,     \* the write under way
    given,      \* frames the worker has handed over
    played      \* frames the device has played, silence left out

sink_vars == <<sink, stream, wanted, queue, event, device, writer, given, played>>

Limited(x, a, b) == Max({a, Min({x, b})})

\* A slip: asks for more than the buffer holds.
device_queue_unclamped(period, buffer, periods) ==
    Max({1, period * Limited(periods, MIN_QUEUE_PERIODS, MAX_QUEUE_PERIODS)})

device_queue_limit(period, buffer, periods) ==
    Limited(period * Limited(periods, MIN_QUEUE_PERIODS, MAX_QUEUE_PERIODS), 1, Max({1, buffer}))

NoStream == [ exclusive |-> FALSE, period |-> 1, buffer |-> 0, limit |-> 0 ]

\* at: "out" | "look" | "wait" | "put"; from, to: the frames of the write that
\* are left; padding: what the last look found.
NoWrite == [ at |-> "out", from |-> 1, to |-> 0, padding |-> 0 ]

\* Which errors are worth another attempt (SinkError::is_recoverable).
Endings == {"DeviceLost", "StreamInit"}

-----------------------------------------------------------------------------
(* The device's mix format, and what the sink takes it for (parse_format). *)
Layouts ==
    { [ tag |-> t, bits |-> b, whole |-> w, sub |-> s ] :
      t \in {"extensible", "float", "pcm", "else"}, b \in {8, 16, 24, 32}, w \in BOOLEAN,
      s \in {"float", "pcm", "else"} }

IsFloat(l) == l.tag = "float" \/ (l.tag = "extensible" /\ l.whole /\ l.sub = "float")
IsPcm(l) == l.tag = "pcm" \/ (l.tag = "extensible" /\ l.whole /\ l.sub = "pcm")

int_format(bits) == CASE bits = 16 -> "I16" [] bits = 32 -> "I32" [] OTHER -> "UnsupportedFormat"

parse_format(l) ==
    IF IsFloat(l) THEN "F32" ELSE IF IsPcm(l) THEN int_format(l.bits) ELSE "UnsupportedFormat"

bytes(format) == IF format = "I16" THEN 2 ELSE 4

-----------------------------------------------------------------------------
SinkInit ==
    /\ sink = "none"
    /\ stream = NoStream
    /\ wanted \in BOOLEAN
    /\ queue = <<>>
    /\ event = FALSE
    /\ device = "well"
    /\ writer = NoWrite
    /\ given = 0
    /\ played = 0

\* WasapiSink::open: exclusive mode if wanted and shared mode when that fails,
\* whatever it failed of; the error of the last attempt is the caller's.
Opens(s, periods) ==
    /\ stream' = [ exclusive |-> s.exclusive, period |-> s.period, buffer |-> s.buffer,
                   limit |-> device_queue_limit(s.period, s.buffer, periods) ]
    /\ sink' = "open"

open ==
    /\ sink = "none"
    /\ \/ /\ device # "gone"
          /\ \E s \in Devices, q \in QueuePeriods : (s.exclusive => wanted) /\ Opens(s, q)
       \/ sink' = (IF device = "gone" THEN "DeviceLost" ELSE "StreamInit") /\ UNCHANGED stream
    /\ UNCHANGED <<wanted, queue, event, device, writer, given, played>>

Room == Max({0, stream.limit - Len(queue)})

\* Before the start the queue is filled with silence up to its limit.
prefill_silence ==
    /\ sink = "open"
    /\ IF device = "gone"
       THEN sink' = "DeviceLost" /\ UNCHANGED queue
       ELSE queue' = queue \o [i \in 1..Room |-> 0] /\ sink' = "filled"
    /\ UNCHANGED <<stream, wanted, event, device, writer, given, played>>

start ==
    /\ sink = "filled"
    /\ sink' = IF device = "gone" THEN "DeviceLost" ELSE "running"
    /\ UNCHANGED <<stream, wanted, queue, event, device, writer, given, played>>

-----------------------------------------------------------------------------
(* write: look at the padding, wait if there is no room, put what fits. *)
WriteBegin ==
    /\ sink = "running" /\ writer.at = "out"
    /\ \E n \in Writes :
          /\ given + n <= MaxFrames
          /\ given' = given + n
          /\ writer' = [ at |-> "look", from |-> given + 1, to |-> given + n, padding |-> 0 ]
    /\ UNCHANGED <<sink, stream, wanted, queue, event, device, played>>

Fails == sink' = "DeviceLost" /\ writer' = NoWrite

Look ==
    /\ writer.at = "look"
    /\ IF device = "gone" THEN Fails
       ELSE /\ writer' = [writer EXCEPT !.padding = Len(queue), !.at = IF Room = 0 THEN "wait" ELSE "put"]
            /\ UNCHANGED sink
    /\ UNCHANGED <<stream, wanted, queue, event, device, given, played>>

\* The event resets itself; it may have been set before the wait.
Wait ==
    /\ writer.at = "wait"
    /\ event
    /\ event' = FALSE
    /\ writer' = [writer EXCEPT !.at = "look"]
    /\ UNCHANGED <<sink, stream, wanted, queue, device, given, played>>

\* A slip: takes a timeout for an event.
TimesOutLooksAgain ==
    /\ writer.at = "wait" /\ ~event
    /\ device # "well"
    /\ writer' = [writer EXCEPT !.at = "look"]
    /\ UNCHANGED <<sink, stream, wanted, queue, event, device, given, played>>

\* Two seconds without an event: only a device that does not advance takes so long.
TimesOut ==
    /\ writer.at = "wait"
    /\ ~event
    /\ device # "well" \/ sink # "running"
    /\ Fails
    /\ UNCHANGED <<stream, wanted, queue, event, device, given, played>>

\* GetBuffer and ReleaseBuffer for what fitted at the look.
Put ==
    /\ writer.at = "put"
    /\ LET n == Min({ stream.limit - writer.padding, writer.to - writer.from + 1 })
           last == writer.from + n - 1
       IN  IF device = "gone" THEN Fails /\ UNCHANGED queue
           ELSE /\ queue' = queue \o [i \in 1..n |-> writer.from + i - 1]
                /\ writer' = IF last = writer.to THEN NoWrite
                             ELSE [writer EXCEPT !.from = last + 1, !.at = "look"]
                /\ UNCHANGED sink
    /\ UNCHANGED <<stream, wanted, event, device, given, played>>

\* The end of the worker's loop, or the drop of the sink.  A client that fails to
\* stop goes on as it is, which is this step not taken.
stop ==
    /\ sink = "running" /\ writer.at = "out"
    /\ sink' = "stopped"
    /\ UNCHANGED <<stream, wanted, queue, event, device, writer, given, played>>

-----------------------------------------------------------------------------
\* A period is played, or what there is of it.
DevicePlays ==
    /\ sink = "running" /\ device = "well"
    /\ LET n == Min({stream.period, Len(queue)})
       IN  /\ queue' = SubSeq(queue, n + 1, Len(queue))
           /\ played' = Max({played} \union { queue[i] : i \in 1..n })
    /\ event' = TRUE
    /\ UNCHANGED <<sink, stream, wanted, device, writer, given>>

DeviceStops ==
    /\ device = "well"
    /\ device' \in {"stuck", "gone"}
    /\ UNCHANGED <<sink, stream, wanted, queue, event, writer, given, played>>

Step == open \/ prefill_silence \/ start \/ Look \/ Wait \/ TimesOut \/ Put

SinkNext == Step \/ WriteBegin \/ stop \/ DevicePlays \/ DeviceStops

SinkSpec == SinkInit /\ [][SinkNext]_sink_vars

\* The worker's thread runs on; a well device goes on playing.
SinkLiveSpec == SinkSpec /\ WF_sink_vars(Step) /\ WF_sink_vars(DevicePlays)

-----------------------------------------------------------------------------
SinkTypeOK ==
    /\ sink \in {"none", "open", "filled", "running", "stopped"} \union Endings
    /\ stream \in [exclusive : BOOLEAN, period : Nat, buffer : Nat, limit : Nat] /\ wanted \in BOOLEAN
    /\ queue \in Seq(Nat)
    /\ event \in BOOLEAN /\ device \in {"well", "stuck", "gone"}
    /\ writer \in [at : {"out", "look", "wait", "put"}, from : Nat, to : Nat, padding : Nat]
    /\ played \in 0..given /\ given \in 0..MaxFrames

\* What is asked of GetBuffer fits into the device's buffer and the queue stays
\* within its limit, although the device plays between the look and the put
\* (room, render.rs).
QueueBounded ==
    /\ Len(queue) <= stream.limit
    /\ stream.limit <= Max({1, stream.buffer})
    /\ writer.at = "put" => stream.limit - writer.padding \in 1..(stream.limit - Len(queue))

\* The device has played, and will play, every frame handed over so far, once
\* and in order; silence comes before all of them.
InOrder ==
    LET done == IF writer.at = "out" THEN given ELSE writer.from - 1
    IN  sink \notin Endings =>
            \E silence \in 0..Len(queue) :
                /\ \A i \in 1..Len(queue) : queue[i] = IF i <= silence THEN 0 ELSE played + i - silence
                /\ played + Len(queue) - silence = done

\* A loss is only reported of a device that has stopped: the first write does
\* not wait for a device that was not started, and no wait overlooks an event.
LostOnlyWhenGone == sink = "DeviceLost" => device # "well"

\* A sample written has the size of the device's samples, for every layout that
\* is accepted; Windows mixes floats of 32 bits only.
SamplesFit ==
    \A l \in Layouts :
        parse_format(l) # "UnsupportedFormat" /\ (IsFloat(l) => l.bits = 32) =>
            8 * bytes(parse_format(l)) = l.bits

\* A stream is only exclusive where that was asked for.
ModeAsAsked == stream.exclusive => wanted

\* The WASAPI sink (render.rs, wasapi.rs): the device's queue keeps its bound and
\* plays every frame once and in order, a loss is reported of a device that has
\* stopped, and mode and samples are what was agreed.
SinkSound == SinkTypeOK /\ QueueBounded /\ InOrder /\ LostOnlyWhenGone /\ ModeAsAsked /\ SamplesFit

\* Every write comes to its end, with all its frames or with the loss.
WriteEnds == writer.at # "out" ~> writer.at = "out"
=============================================================================
