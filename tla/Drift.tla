------------------------------- MODULE Drift -------------------------------
(***************************************************************************)
(* The loop that holds the ring at its target although host and device run *)
(* on different clocks: deviceout-core's clock.rs (the PI controller) and  *)
(* resample.rs (the ratio), with the period, the target level and the      *)
(* settling watch of deviceout-engine's worker.rs.                         *)
(*                                                                         *)
(* Floating point is fixed point here: levels and corrections are integers *)
(* in one unit, the change of level that a unit of correction makes in one *)
(* period.  The integral is kept times ki, so that its limit is the largest*)
(* correction (integral_limit, clock.rs).                                  *)
(***************************************************************************)
EXTENDS Integers, FiniteSets, FiniteSetsExt

CONSTANTS
    TargetLevel, RingFrames,
    Skews,              \* what the source's clock may add to the level in a period
    Seeds,              \* remembered drifts the controller may start from
    Levels,             \* levels at the first period
    MAX_CORRECTION,
    KP, KI, LAG,        \* divisors: err / KP, err / KI, and the lowpass 1 / LAG
    WARMUP,             \* periods before the first correction (warmup_periods)
    SETTLE_CHECK, SETTLE_MIN, SETTLE_TOL, SETTLE_STABLE_CHECKS,
    SETTLE_COLD, SETTLE_WARM,       \* periods until it counts as settled anyhow
    TOLERANCE,          \* how near the target counts as held
    MIN_CAPACITY_FRAMES,
    Ms, HostBlocks, Periods, Rates,     \* the configurations LevelFits looks at
    MaxDisturbed        \* periods in which the host is silent or the device late

PowersOfTwo ==
    {1, 2, 4, 8, 16, 32, 64, 128, 256, 512, 1024, 2048, 4096, 8192, 16384, 32768, 65536, 131072,
     262144, 524288, 1048576}

CAPACITY_FACTOR == 4

frames_for_ms(ms, rate) == Max({ 1, (ms * rate + 5) \div 10 })      \* rate: frames in 10 ms

\* What the ring must hold before its size is rounded up to a power of two.
asked_capacity(ms, block, rate) ==
    Max({ CAPACITY_FACTOR * Max({ frames_for_ms(ms, rate), block }), MIN_CAPACITY_FRAMES })

\* Levels and corrections are integers, gains are divided by, deadlines counted;
\* the powers of two listed here reach far enough.
DriftParameters ==
    /\ TargetLevel \in Nat /\ RingFrames \in Nat /\ Skews \subseteq Int /\ Seeds \subseteq Int /\ Levels \subseteq Int
    /\ MAX_CORRECTION \in Nat /\ {KP, KI, LAG} \subseteq Nat \ {0} /\ WARMUP \in Nat
    /\ {SETTLE_CHECK, SETTLE_MIN, SETTLE_TOL, SETTLE_STABLE_CHECKS, SETTLE_COLD, SETTLE_WARM} \subseteq Nat
    /\ MaxDisturbed \in Nat
    /\ Ms \cup HostBlocks \cup Periods \cup Rates \subseteq Nat /\ MIN_CAPACITY_FRAMES \in Nat
    /\ \A ms \in Ms, block \in HostBlocks, rate \in Rates :
          \E p \in PowersOfTwo : p >= asked_capacity(ms, block, rate)

ASSUME DriftAssumption == DriftParameters

VARIABLES
    skew, level,
    filtered, integral, correction, smoothing,     \* DriftController
    ratio, clamp_events,                        \* DriftResampler: nominal less ratio
    period,             \* periods since the start, up to the settling deadline
    watch,              \* SettleWatch
    found,              \* what the last pull found
    disturbed

drift_vars == <<skew, level, filtered, integral, correction, smoothing, ratio, clamp_events, period, watch, found, disturbed>>

Clamp(x, a, b) == Max({a, Min({x, b})})
Within(x, m) == Clamp(x, -m, m)

-----------------------------------------------------------------------------
(* The ring and its target are sized from the configuration. *)
NextPowerOfTwo(n) == Min({ p \in PowersOfTwo : p >= n })

ring_capacity_for(ms, block, rate) == NextPowerOfTwo(asked_capacity(ms, block, rate))

target_level(ms, block, per, downstream, rate) ==
    LET capacity == ring_capacity_for(ms, block, rate)
        floor == Min({ block + per, capacity \div 2 })
    IN  [ capacity |-> capacity, floor |-> floor,
          frames |-> Clamp(frames_for_ms(Max({ms - downstream, 0}), rate), floor, capacity \div 2) ]

-----------------------------------------------------------------------------
\* A slip: does not see an overrun.
disproved_by_empty(l, raw) == l = "Empty" /\ raw > 0

\* raw contradicts what the ring just showed.
disproved_by(l, raw) == (l = "Empty" /\ raw > 0) \/ (l = "Full" /\ raw < 0)

\* One step of the controller.
update(reading, l) ==
    IF l = "Dry" THEN UNCHANGED <<filtered, integral, correction, smoothing>>
    ELSE LET before == IF smoothing THEN filtered ELSE reading
             smooth == before + (reading - before) \div LAG
             err == smooth - TargetLevel
             candidate == Within(integral + err \div KI, MAX_CORRECTION)
             raw == err \div KP + candidate
             held == IF raw \in (1 - MAX_CORRECTION)..(MAX_CORRECTION - 1) THEN candidate ELSE integral
             wrong == disproved_by(l, raw)
             relearned == Within(-(err \div KP), MAX_CORRECTION)
         IN  /\ filtered' = smooth
             /\ smoothing' = TRUE
             /\ integral' = IF wrong THEN relearned ELSE held
             /\ correction' = Within(IF wrong THEN err \div KP + relearned ELSE raw, MAX_CORRECTION)

\* A slip: corrects the wrong way.
set_ratio_reversed(requested) ==
    ratio' = -Within(requested, MAX_CORRECTION) /\ UNCHANGED clamp_events

\* The resampler takes a ratio within its range and counts what it cuts.
set_ratio(requested) ==
    LET applied == Within(requested, MAX_CORRECTION)
    IN  /\ ratio' = applied
        /\ clamp_events' = clamp_events + (IF applied = requested THEN 0 ELSE 1)

\* A period's pull: the host pushes, the resampler takes what its ratio asks.
\* The host may be silent, and the pull may come so late that the ring is full.
Pulled(host) ==
    LET pushed == IF host = "ahead" THEN RingFrames + 1 ELSE level + skew
        left == Min({pushed, RingFrames}) - ratio
    IN  IF host = "silent" THEN [ level |-> level, found |-> "Dry" ]
        ELSE IF left < 0 THEN [ level |-> 0, found |-> "Empty" ]
        ELSE [ level |-> Min({left, RingFrames}), found |-> IF pushed > RingFrames THEN "Full" ELSE "Free" ]

deadline == IF watch.seed = 0 THEN SETTLE_COLD ELSE SETTLE_WARM

\* Settled once the reading has been steady for some checks, or at the deadline.
SettleWatch_update(ppm, elapsed) ==
    LET steady == IF ppm - watch.last \in (-SETTLE_TOL)..SETTLE_TOL THEN watch.stable + 1 ELSE 0
    IN  IF watch.settled THEN UNCHANGED watch
        ELSE IF elapsed >= deadline THEN watch' = [watch EXCEPT !.settled = TRUE]
        ELSE IF elapsed < watch.next THEN UNCHANGED watch
        ELSE watch' = [watch EXCEPT !.stable = steady, !.last = ppm, !.next = elapsed + SETTLE_CHECK,
                         !.settled = steady >= SETTLE_STABLE_CHECKS /\ elapsed >= SETTLE_MIN]

-----------------------------------------------------------------------------
\* A remembered drift is the integral and the correction from the start.
seed_drift_ppm(s) ==
    /\ integral = Within(s, MAX_CORRECTION)
    /\ correction = Within(s, MAX_CORRECTION)

DriftInit ==
    /\ skew \in Skews
    /\ level \in Levels
    /\ filtered = TargetLevel
    /\ \E s \in Seeds :
          /\ seed_drift_ppm(s)
          /\ watch = [ seed |-> s, last |-> s, next |-> SETTLE_CHECK, stable |-> 0, settled |-> FALSE ]
    /\ smoothing = FALSE
    /\ ratio = 0
    /\ clamp_events = 0
    /\ period = 0
    /\ found = "Free"
    /\ disturbed = 0

\* One turn of Worker::run after the first pull.  The resampler is given the
\* ratio that the controller has just found.
Period(host) ==
    \E mix \in {Pulled(host)}, n \in {Min({period + 1, SETTLE_COLD})} :
        /\ level' = mix.level
        /\ found' = mix.found
        /\ period' = n
        /\ IF period + 1 > WARMUP
           THEN update(mix.level, mix.found) /\ set_ratio(correction')
           ELSE UNCHANGED <<filtered, integral, correction, smoothing, ratio, clamp_events>>
        /\ SettleWatch_update(integral', n)
        /\ UNCHANGED skew

Play == Period("plays") /\ UNCHANGED disturbed

Disturbed == disturbed < MaxDisturbed /\ disturbed' = disturbed + 1

HostSilent == Disturbed /\ Period("silent")

\* The write before this pull waited for the device while the host played on.
DeviceLate == Disturbed /\ Period("ahead")

DriftNext == Play \/ HostSilent \/ DeviceLate

DriftSpec == DriftInit /\ [][DriftNext]_drift_vars

\* The device asks for period after period, and the host does play.
DriftLiveSpec == DriftSpec /\ WF_drift_vars(Play)

-----------------------------------------------------------------------------
\* Integral and correction stay within the authority; the ratio the controller
\* asks for is never outside the range of the resampler.
Authority ==
    /\ integral = Within(integral, MAX_CORRECTION)
    /\ correction = Within(correction, MAX_CORRECTION)
    /\ clamp_events = 0

\* After an underrun the device does not go on taking more than the source
\* gives, nor less after an overrun, whatever seed or integral said: only when
\* the smoothed level alone asks for more than the integral could undo
\* (disproved_by, clock.rs).
LimitsOverrule ==
    period > WARMUP =>
        /\ found = "Empty" => correction <= Max({0, (filtered - TargetLevel) \div KP - MAX_CORRECTION})
        /\ found = "Full" => correction >= Min({0, (filtered - TargetLevel) \div KP + MAX_CORRECTION})

\* It is not called settled in the opening seconds (SETTLE_MIN_S), unless the
\* deadline is shorter than they are.
NotAtOnce == watch.settled => period >= Min({SETTLE_MIN, deadline})

\* For every configuration: half the ring stays free above the target; a host
\* block and a period fit under it, unless the half ring itself is smaller; and
\* the level that ends the priming (target and half a step) fits into the ring.
LevelFits ==
    \A ms \in Ms, down \in Ms, block \in HostBlocks, per \in Periods, rate \in Rates :
        LET l == target_level(ms, block, per, down, rate)
        IN  /\ 2 * l.frames <= l.capacity
            /\ l.frames >= block + per \/ l.frames = l.capacity \div 2
            /\ l.frames + (block + 1) \div 2 <= l.capacity

\* The drift loop (clock.rs, resample.rs, worker.rs): the correction keeps within
\* its authority, an empty or full ring overrules it, it is not called settled at
\* once, and every configuration gives it a level that fits its ring.  That last
\* is the same in every state and looked at in the first period.
DriftHeld == Authority /\ LimitsOverrule /\ NotAtOnce /\ (period = 1 => LevelFits)

\* Whatever the clocks differ by, within the authority, and whatever was
\* remembered, the level comes to its target and stays there.
Converges == <>[](level - TargetLevel \in (-TOLERANCE)..TOLERANCE)
=============================================================================
