-------------------------------- MODULE Engine --------------------------------
(***************************************************************************)
(* The life of one output engine (crates/deviceout-engine/src/worker.rs):  *)
(* the owner's EngineHandle, the deviceout-output thread with its loop of  *)
(* open, prime, run, lose the device, back off and open again, and the     *)
(* EngineMetrics the editor reads at any moment from another thread.       *)
(*                                                                         *)
(* set_running, set_reconnecting and set_failed write last_error and then  *)
(* the state: two steps, with the reader in between.  The device comes and *)
(* goes by itself.  What flows through the engine is Mixer.tla's business. *)
(***************************************************************************)
EXTENDS Integers

CONSTANTS
    Recoverable,  \* faults EngineError::is_recoverable accepts
    Fatal,        \* the others
    SettleAfter,  \* periods before SettleWatch may settle (SETTLE_MIN_S; the deadline is no sooner)
    MaxUnplugs,   \* bound: times the device goes away
    MaxGlitches   \* bound: faults of a device that is there

Faults == Recoverable \cup Fatal
Absent == "none"     \* last_error: None

ASSUME EngineAssumption ==
    /\ Recoverable # {} /\ Recoverable \cap Fatal = {}
    /\ Absent \notin Faults
    /\ SettleAfter \in Nat \ {0}
    /\ MaxUnplugs \in Nat /\ MaxGlitches \in Nat

VARIABLES
    (* the owner of the EngineHandle *)
    owner,      \* where it stands
    stop,       \* the stop flag
    ready,      \* the ready channel has been signalled or dropped
    (* the engine thread: run() and Worker::run() *)
    pc,
    fault,      \* the error being reported
    saw_device_loss, attempt,
    period,     \* periods of this worker, up to SettleAfter
    watch,      \* SettleWatch.settled
    sink,       \* the audio client: closed, open or started
    (* EngineMetrics *)
    state, last_error, settled, reconnects,
    (* the device *)
    plugged,    \* it is there
    valid,      \* the open client still belongs to it
    unplugs, glitches,
    (* history *)
    losses      \* workers that ended with a recoverable error

ownerVars  == <<owner, stop>>
threadVars == <<ready, pc, fault, saw_device_loss, attempt, period, watch, sink>>
metricVars == <<state, last_error, settled, reconnects>>
deviceVars == <<plugged, valid, unplugs, glitches>>
vars == <<ownerVars, threadVars, metricVars, deviceVars, losses>>

Init ==
    /\ owner = "new" /\ stop = FALSE /\ ready = FALSE
    /\ pc = "none" /\ fault = Absent /\ saw_device_loss = FALSE /\ attempt = 0
    /\ period = 0 /\ watch = FALSE /\ sink = "closed"
    /\ state = "Priming" /\ last_error = Absent /\ settled = FALSE
    /\ reconnects = 0
    /\ plugged \in BOOLEAN /\ valid = FALSE /\ unplugs = 0 /\ glitches = 0
    /\ losses = 0

-----------------------------------------------------------------------------
(* The owner: start_with blocks until the thread is ready; stop (or Drop)  *)
(* raises the flag and joins the thread.                                   *)

(* validate() refused the configuration, or the thread could not be made.  *)
StartRefused ==
    /\ owner = "new"
    /\ \E f \in Fatal : last_error' = f
    /\ state' = "Failed"
    /\ owner' = "held"
    /\ UNCHANGED <<stop, threadVars, settled, reconnects, deviceVars, losses>>

StartThread ==
    /\ owner = "new"
    /\ owner' = "starting" /\ pc' = "loop"
    /\ UNCHANGED <<stop, ready, fault, saw_device_loss, attempt, period, watch,
                   sink, metricVars, deviceVars, losses>>

StartReturns ==
    /\ owner = "starting" /\ ready
    /\ owner' = "held"
    /\ UNCHANGED <<stop, threadVars, metricVars, deviceVars, losses>>

Stop ==
    /\ owner = "held"
    /\ stop' = TRUE
    /\ owner' = "joining"
    /\ UNCHANGED <<threadVars, metricVars, deviceVars, losses>>

Joined ==
    /\ owner = "joining" /\ pc \in {"none", "ended"}
    /\ owner' = "done"
    /\ UNCHANGED <<stop, threadVars, metricVars, deviceVars, losses>>

-----------------------------------------------------------------------------
(* The device.                                                             *)

Unplug ==
    /\ plugged /\ unplugs < MaxUnplugs
    /\ plugged' = FALSE /\ valid' = FALSE /\ unplugs' = unplugs + 1
    /\ UNCHANGED <<ownerVars, threadVars, metricVars, glitches, losses>>

Plug ==
    /\ ~plugged
    /\ plugged' = TRUE
    /\ UNCHANGED <<ownerVars, threadVars, metricVars, valid, unplugs, glitches,
                   losses>>

(* What a call on the device may answer: a device that is gone answers     *)
(* with a recoverable fault, one that is there may still fail in any way.  *)
Fails(there, f) ==
    \/ /\ ~there /\ f \in Recoverable
       /\ glitches' = glitches
    \/ /\ there /\ f \in Faults
       /\ glitches < MaxGlitches /\ glitches' = glitches + 1

-----------------------------------------------------------------------------
(* backoff_delay doubles up to its fifth shift and is capped from there on,*)
(* so attempts past AttemptCap are all alike.                              *)
AttemptCap     == 6
NextAttempt(n) == IF n < AttemptCap THEN n + 1 ELSE n

(* run(): the loop head and OpenSink::open with Worker::new.               *)

LoopHeadForever ==      \* a slip: the flag is not looked at between attempts
    /\ pc = "loop"
    /\ pc' = "open"
    /\ UNCHANGED <<ownerVars, ready, fault, saw_device_loss, attempt, period,
                   watch, sink, metricVars, deviceVars, losses>>

LoopHead ==
    /\ pc = "loop"
    /\ pc' = IF stop THEN "stopped" ELSE "open"
    /\ UNCHANGED <<ownerVars, ready, fault, saw_device_loss, attempt, period,
                   watch, sink, metricVars, deviceVars, losses>>

OpenOk ==
    /\ pc = "open" /\ plugged
    /\ sink' = "open" /\ valid' = TRUE
    /\ period' = 0 /\ watch' = FALSE
    /\ pc' = "opened"
    /\ UNCHANGED <<ownerVars, ready, fault, saw_device_loss, attempt, metricVars,
                   plugged, unplugs, glitches, losses>>

(* A client that Worker::new refuses is closed again with it.              *)
OpenFails ==
    /\ pc = "open"
    /\ \E f \in Faults :
       /\ Fails(plugged, f)
       /\ fault' = f
       /\ IF saw_device_loss /\ f \in Recoverable
          THEN pc' = "lost" /\ attempt' = NextAttempt(attempt)
          ELSE pc' = "failed" /\ attempt' = attempt
    /\ UNCHANGED <<ownerVars, ready, saw_device_loss, period, watch, sink,
                   metricVars, plugged, valid, unplugs, losses>>

OpenedCountsAll ==      \* a slip: the first opening counts as a reconnect
    /\ pc = "opened"
    /\ reconnects' = reconnects + 1 /\ attempt' = 0
    /\ ready' = TRUE
    /\ pc' = "prime"
    /\ UNCHANGED <<ownerVars, fault, saw_device_loss, period, watch, sink, state,
                   last_error, settled, deviceVars, losses>>

Opened ==
    /\ pc = "opened"
    /\ IF saw_device_loss
       THEN reconnects' = reconnects + 1 /\ attempt' = 0
       ELSE UNCHANGED <<reconnects, attempt>>
    /\ ready' = TRUE
    /\ pc' = "prime"
    /\ UNCHANGED <<ownerVars, fault, saw_device_loss, period, watch, sink, state,
                   last_error, settled, deviceVars, losses>>

-----------------------------------------------------------------------------
(* Worker::run: prime, start the client, then one write per period.        *)

Prime ==
    /\ pc = "prime"
    /\ state' = "Priming"
    /\ pc' = "priming"
    /\ UNCHANGED <<ownerVars, ready, fault, saw_device_loss, attempt, period,
                   watch, sink, last_error, settled, reconnects, deviceVars, losses>>

(* The ring is full enough, the deadline has passed or a stop is seen.     *)
PrimeEnds ==
    /\ pc = "priming"
    /\ pc' = IF stop THEN "stopped" ELSE "startup"
    /\ UNCHANGED <<ownerVars, ready, fault, saw_device_loss, attempt, period,
                   watch, sink, metricVars, deviceVars, losses>>

(* prefill_silence()?; start()?; and the first half of set_running().      *)
Startup ==
    /\ pc = "startup" /\ valid
    /\ sink' = "started"
    /\ last_error' = Absent
    /\ pc' = "set_running"
    /\ UNCHANGED <<ownerVars, ready, fault, saw_device_loss, attempt, period,
                   watch, state, settled, reconnects, deviceVars, losses>>

SetRunning ==
    /\ pc = "set_running"
    /\ state' = "Running"
    /\ pc' = "running"
    /\ UNCHANGED <<ownerVars, ready, fault, saw_device_loss, attempt, period,
                   watch, sink, last_error, settled, reconnects, deviceVars, losses>>

Write ==
    /\ pc = "running" /\ ~stop /\ valid
    /\ period' = IF period < SettleAfter THEN period + 1 ELSE period
    /\ pc' = "publish"
    /\ UNCHANGED <<ownerVars, ready, fault, saw_device_loss, attempt, watch,
                   sink, metricVars, deviceVars, losses>>

(* SettleWatch::update: settled for good once the drift has held still for *)
(* three checks or its deadline has passed, never before SETTLE_MIN_S.     *)
SettleUpdate == IF watch THEN {TRUE}
                ELSE IF period < SettleAfter THEN {FALSE} ELSE BOOLEAN

Publish ==
    /\ pc = "publish"
    /\ watch' \in SettleUpdate
    /\ settled' = watch'
    /\ pc' = "running"
    /\ UNCHANGED <<ownerVars, ready, fault, saw_device_loss, attempt, period,
                   sink, state, last_error, reconnects, deviceVars, losses>>

StopSink ==
    /\ pc = "running" /\ stop /\ valid
    /\ sink' = "open"
    /\ pc' = "stopped"
    /\ UNCHANGED <<ownerVars, ready, fault, saw_device_loss, attempt, period,
                   watch, metricVars, deviceVars, losses>>

(* prefill_silence, start, process, write and stop all end Worker::run     *)
(* with their error.                                                       *)
WorkerFails ==
    /\ pc \in {"startup", "running"}
    /\ \E f \in Faults :
       /\ Fails(valid, f)
       /\ fault' = f
       /\ IF f \in Recoverable
          THEN pc' = "lost" /\ saw_device_loss' = TRUE /\ losses' = losses + 1
          ELSE pc' = "failed" /\ UNCHANGED <<saw_device_loss, losses>>
    /\ UNCHANGED <<ownerVars, ready, attempt, period, watch, sink, metricVars,
                   plugged, valid, unplugs>>

-----------------------------------------------------------------------------
(* set_reconnecting and set_failed, each in its two halves, and what       *)
(* follows them in run().                                                  *)

SetErrorLast ==         \* a slip: the state first, its reason after
    /\ pc \in {"lost", "failed"}
    /\ state' = IF pc = "lost" THEN "Reconnecting" ELSE "Failed"
    /\ pc' = IF pc = "lost" THEN "set_reconnecting" ELSE "set_failed"
    /\ UNCHANGED <<ownerVars, ready, fault, saw_device_loss, attempt, period,
                   watch, sink, last_error, settled, reconnects, deviceVars, losses>>

SetError ==
    /\ pc \in {"lost", "failed"}
    /\ last_error' = fault
    /\ pc' = IF pc = "lost" THEN "set_reconnecting" ELSE "set_failed"
    /\ UNCHANGED <<ownerVars, ready, fault, saw_device_loss, attempt, period,
                   watch, sink, state, settled, reconnects, deviceVars, losses>>

(* The worker, if there was one, is dropped before the back-off.           *)
SetReconnectingHolds == \* a slip: the worker lives on through the back-off
    /\ pc = "set_reconnecting"
    /\ state' = "Reconnecting"
    /\ ready' = TRUE
    /\ fault' = Absent
    /\ pc' = "sleep"
    /\ UNCHANGED <<ownerVars, saw_device_loss, attempt, period, watch, sink,
                   last_error, settled, reconnects, deviceVars, losses>>

SetReconnecting ==
    /\ pc = "set_reconnecting"
    /\ state' = "Reconnecting"
    /\ sink' = "closed" /\ valid' = FALSE
    /\ ready' = TRUE
    /\ fault' = Absent
    /\ pc' = "sleep"
    /\ UNCHANGED <<ownerVars, saw_device_loss, attempt, period, watch, last_error,
                   settled, reconnects, plugged, unplugs, glitches, losses>>

SetFailed ==
    /\ pc = "set_failed"
    /\ state' = "Failed"
    /\ ready' = TRUE
    /\ fault' = Absent
    /\ pc' = "ending"
    /\ UNCHANGED <<ownerVars, saw_device_loss, attempt, period, watch, sink,
                   last_error, settled, reconnects, deviceVars, losses>>

(* sleep_interruptible(backoff_delay(attempt)): the delay is over, or a    *)
(* stop cut it short; the loop head looks at the flag in either case.      *)

Awake ==
    /\ pc = "sleep"
    /\ pc' = "loop"
    /\ UNCHANGED <<ownerVars, ready, fault, saw_device_loss, attempt, period,
                   watch, sink, metricVars, deviceVars, losses>>

SetStopped ==
    /\ pc = "stopped"
    /\ state' = "Stopped"
    /\ pc' = "ending"
    /\ UNCHANGED <<ownerVars, ready, fault, saw_device_loss, attempt, period,
                   watch, sink, last_error, settled, reconnects, deviceVars, losses>>

(* run() returns: the worker and the ready channel are dropped.            *)
ThreadEnds ==
    /\ pc = "ending"
    /\ sink' = "closed" /\ valid' = FALSE
    /\ ready' = TRUE
    /\ pc' = "ended"
    /\ UNCHANGED <<ownerVars, fault, saw_device_loss, attempt, period, watch,
                   metricVars, plugged, unplugs, glitches, losses>>

-----------------------------------------------------------------------------
Owner == StartRefused \/ StartThread \/ StartReturns \/ Stop \/ Joined

Thread == \/ LoopHead \/ OpenOk \/ OpenFails \/ Opened
          \/ Prime \/ PrimeEnds \/ Startup \/ SetRunning
          \/ Write \/ Publish \/ StopSink \/ WorkerFails
          \/ SetError \/ SetReconnecting \/ SetFailed
          \/ Awake \/ SetStopped \/ ThreadEnds

Device == Unplug \/ Plug

(* The owner is done with the engine; nothing more has to happen.          *)
Rest == owner = "done" /\ UNCHANGED vars

Next == Owner \/ Thread \/ Device \/ Rest

(* The thread is scheduled and its calls return: open and write have their *)
(* own timeouts, priming a deadline, the back-off a cap.  The owner's two  *)
(* waits end when they can.  Nobody has to stop, nothing has to be plugged.*)
Fairness == WF_vars(Thread) /\ WF_vars(StartReturns) /\ WF_vars(Joined)

Spec     == Init /\ [][Next]_vars
FairSpec == Spec /\ Fairness

-----------------------------------------------------------------------------
TypeOK ==
    /\ owner \in {"new", "starting", "held", "joining", "done"}
    /\ stop \in BOOLEAN /\ ready \in BOOLEAN
    /\ pc \in {"none", "loop", "open", "opened", "prime", "priming", "startup",
              "set_running", "running", "publish", "lost", "set_reconnecting",
              "failed", "set_failed", "sleep", "stopped", "ending", "ended"}
    /\ fault \in Faults \cup {Absent}
    /\ saw_device_loss \in BOOLEAN /\ attempt \in 0 .. AttemptCap
    /\ period \in 0 .. SettleAfter /\ watch \in BOOLEAN
    /\ sink \in {"closed", "open", "started"}
    /\ state \in {"Priming", "Running", "Reconnecting", "Stopped", "Failed"}
    /\ last_error \in Faults \cup {Absent}
    /\ settled \in BOOLEAN /\ reconnects \in Nat
    /\ plugged \in BOOLEAN /\ valid \in BOOLEAN
    /\ unplugs \in Nat /\ glitches \in Nat /\ losses \in Nat

(* An engine that has failed or is reconnecting says why, at every instant *)
(* a reader may look, between the two halves of an update included; and an *)
(* engine that runs has no reason of an earlier loss left.  The engine     *)
(* thread is the only writer, and the order of its two writes is what this *)
(* rests on.                                                               *)
FaultVisible ==
    /\ state \in {"Failed", "Reconnecting"} => last_error # Absent
    /\ state = "Running" /\ pc \in {"running", "publish", "lost", "failed"} =>
          last_error = Absent

(* Each loss a worker met is followed by exactly one reconnect on the      *)
(* books, counted before the new worker runs, however often opening fails  *)
(* in between.                                                             *)
ReconnectsCountLosses ==
    /\ saw_device_loss <=> losses > 0
    /\ pc \in {"prime", "priming", "startup", "set_running", "running", "publish"} =>
          reconnects = losses
    /\ reconnects <= losses /\ losses <= reconnects + 1

(* No client of a device is open while another is being opened or while    *)
(* the thread backs off, and none survives the thread: a device held in    *)
(* exclusive mode could not be opened again otherwise.                     *)
OneClientAtATime == pc \in {"loop", "open", "sleep", "ended"} => sink = "closed"

(* What has failed stays failed, with its reason; what has stopped stays   *)
(* stopped.                                                                *)
EndsAreFinal ==
    [][/\ state = "Failed" => state' = "Failed" /\ last_error' = last_error
       /\ state = "Stopped" => state' = "Stopped"]_vars

(* After the first period of a worker the editor shows a drift as settled  *)
(* only if this worker has run long enough to know it.                     *)
SettledIsEarned ==
    state = "Running" /\ settled /\ period > 0 /\ pc = "running" =>
        period = SettleAfter

(* The same at every instant the engine is running.                        *)
NeverSettledEarly == state = "Running" /\ settled => period = SettleAfter

(* start_with returns, and stop returns: the owner is a host thread.       *)
OwnerReturns ==
    /\ owner = "starting" ~> owner = "held"
    /\ owner = "joining" ~> owner = "done"

(* A device that comes back and stays is played to again, unless the       *)
(* engine is stopped or fails for another reason.                          *)
Recovers ==
    <>[]plugged => (state = "Reconnecting" ~> state \in {"Running", "Failed", "Stopped"})
=============================================================================
