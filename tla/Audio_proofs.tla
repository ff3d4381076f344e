---------------------------- MODULE Audio_proofs ----------------------------
(***************************************************************************)
(* The drift loop (clock.rs, resample.rs, worker.rs) for any target, gains,*)
(* clock differences, seeds and deadlines and any number of disturbed      *)
(* periods; the gauges the trace reads from another thread (metrics.rs,    *)
(* trace.rs) for any fill levels and any number of periods and lines; the  *)
(* WASAPI sink (render.rs, wasapi.rs) for any device, any queue that is    *)
(* asked for and any writes; and the bridge (ring.rs) for any number of    *)
(* channels, any capacity and any lengths of the calls.  The assumptions   *)
(* are those the modules make of their constants; everything about the     *)
(* bridge is proved of the ring that ring() makes, under RingParameters.   *)
(***************************************************************************)
EXTENDS Drift, Sink, Gauges, Ring, SequenceTheorems, TLAPS

(* What the largest and the smallest of two are.                           *)
LEMMA LargerOfTwo ==
    ASSUME NEW a \in Int, NEW b \in Int
    PROVE  Max({a, b}) = IF a >= b THEN a ELSE b
<1>1. \E x \in {a, b} : \A y \in {a, b} : x >= y
  BY SMT
<1>2. Max({a, b}) \in {a, b} /\ \A y \in {a, b} : Max({a, b}) >= y
  BY <1>1 DEF Max
<1>3. QED
  BY <1>2

LEMMA SmallerOfTwo ==
    ASSUME NEW a \in Int, NEW b \in Int
    PROVE  Min({a, b}) = IF a <= b THEN a ELSE b
<1>1. \E x \in {a, b} : \A y \in {a, b} : x <= y
  BY SMT
<1>2. Min({a, b}) \in {a, b} /\ \A y \in {a, b} : Min({a, b}) <= y
  BY <1>1 DEF Min
<1>3. QED
  BY <1>2

-----------------------------------------------------------------------------
(* The drift controller and the resampler                                  *)

Readings == [seed : Int, last : Int, next : Int, stable : Int, settled : BOOLEAN]

DriftTypes ==
    /\ skew \in Int /\ level \in Int /\ filtered \in Int /\ integral \in Int /\ correction \in Int
    /\ ratio \in Int /\ period \in Nat /\ period <= SETTLE_COLD
    /\ watch \in Readings /\ watch.seed \in Seeds
    /\ smoothing \in BOOLEAN

DriftInv == DriftTypes /\ Authority /\ LimitsOverrule /\ NotAtOnce

LEMMA WithinBounds ==
    ASSUME NEW x \in Int, NEW m \in Nat
    PROVE  Within(x, m) = IF x < -m THEN -m ELSE IF x > m THEN m ELSE x
<1>1. Min({x, m}) = IF x <= m THEN x ELSE m
  BY SmallerOfTwo
<1>2. Min({x, m}) \in Int /\ -m \in Int
  BY <1>1
<1>3. Max({-m, Min({x, m})}) = IF -m >= Min({x, m}) THEN -m ELSE Min({x, m})
  BY <1>2, LargerOfTwo
<1>4. QED
  BY <1>1, <1>3 DEF Within, Clamp

LEMMA Quotient == ASSUME NEW a \in Int, NEW b \in Nat \ {0} PROVE a \div b \in Int
BY SMT

LEMMA DriftStarts == ASSUME DriftParameters, DriftInit PROVE DriftInv
<1>1. PICK s \in Seeds :
          /\ integral = Within(s, MAX_CORRECTION) /\ correction = Within(s, MAX_CORRECTION)
          /\ watch = [ seed |-> s, last |-> s, next |-> SETTLE_CHECK, stable |-> 0, settled |-> FALSE ]
  BY DEF DriftInit, seed_drift_ppm
<1>2. /\ integral \in -MAX_CORRECTION .. MAX_CORRECTION /\ correction \in -MAX_CORRECTION .. MAX_CORRECTION
  BY <1>1, WithinBounds DEF DriftParameters
<1>3. DriftTypes
  <2>1. /\ SETTLE_CHECK \in Int /\ SETTLE_COLD \in Nat /\ TargetLevel \in Int
        /\ s \in Seeds /\ Seeds \subseteq Int /\ skew \in Int /\ level \in Int
    <3>1. {SETTLE_CHECK, SETTLE_MIN, SETTLE_TOL, SETTLE_STABLE_CHECKS, SETTLE_COLD, SETTLE_WARM} \subseteq Nat
      BY DEF DriftParameters
    <3>2. SETTLE_CHECK \in Nat /\ SETTLE_COLD \in Nat
      BY <3>1
    <3>3. skew \in Skews /\ Skews \subseteq Int /\ level \in Levels /\ Levels \subseteq Int /\ TargetLevel \in Nat
      BY DEF DriftParameters, DriftInit
    <3>4. Seeds \subseteq Int
      BY DEF DriftParameters
    <3>5. QED
      BY <3>2, <3>3, <3>4
  <2>2. watch \in Readings /\ watch.seed \in Seeds
    BY <1>1, <2>1 DEF Readings
  <2>3. integral \in Int /\ correction \in Int
    BY <1>2
  <2>4. filtered = TargetLevel /\ ratio = 0 /\ period = 0 /\ smoothing = FALSE
    BY DEF DriftInit
  <2>5. filtered \in Int /\ ratio \in Int /\ period \in Nat /\ period <= SETTLE_COLD
    BY <2>1, <2>4
  <2>6. smoothing \in BOOLEAN
    BY <2>4
  <2>7. QED
    BY <2>1, <2>2, <2>3, <2>5, <2>6 DEF DriftTypes
<1>4. Authority
  BY <1>2, WithinBounds DEF Authority, DriftInit, DriftParameters
<1>5. LimitsOverrule /\ NotAtOnce
  BY <1>1 DEF LimitsOverrule, NotAtOnce, DriftInit, DriftParameters
<1>6. QED
  BY <1>3, <1>4, <1>5 DEF DriftInv

-----------------------------------------------------------------------------
LEMMA PulledType ==
    ASSUME DriftParameters, DriftInv, NEW host
    PROVE  Pulled(host).level \in Int
<1>1. /\ level \in Int /\ skew \in Int /\ ratio \in Int /\ RingFrames \in Nat
  BY DEF DriftInv, DriftTypes, DriftParameters
<1> DEFINE pushed == IF host = "ahead" THEN RingFrames + 1 ELSE level + skew
           left == Min({pushed, RingFrames}) - ratio
<1>2. pushed \in Int
  BY <1>1
<1>3. left \in Int
  BY <1>1, <1>2, SmallerOfTwo
<1>4. Min({left, RingFrames}) \in Int
  BY <1>1, <1>3, SmallerOfTwo
<1> HIDE DEF left
<1>5. QED
  BY <1>1, <1>4 DEF Pulled, left

(* One step of the controller: the integral and the correction keep within *)
(* the authority, and a limit overrules what was learned.                  *)
LEMMA UpdateBounded ==
    ASSUME DriftParameters, DriftInv, NEW reading \in Int, NEW l, l # "Dry", update(reading, l)
    PROVE  /\ filtered' \in Int /\ smoothing' \in BOOLEAN
           /\ integral' \in -MAX_CORRECTION .. MAX_CORRECTION
           /\ correction' \in -MAX_CORRECTION .. MAX_CORRECTION
           /\ l = "Empty" => correction' <= 0 \/ correction' <= (filtered' - TargetLevel) \div KP - MAX_CORRECTION
           /\ l = "Full" => correction' >= 0 \/ correction' >= (filtered' - TargetLevel) \div KP + MAX_CORRECTION
<1> DEFINE before == IF smoothing THEN filtered ELSE reading
           smooth == before + (reading - before) \div LAG
           err == smooth - TargetLevel
           e == err \div KP
           candidate == Within(integral + err \div KI, MAX_CORRECTION)
           raw == e + candidate
           held == IF raw \in (1 - MAX_CORRECTION)..(MAX_CORRECTION - 1) THEN candidate ELSE integral
           wrong == disproved_by(l, raw)
           relearned == Within(-e, MAX_CORRECTION)
<1>1. /\ MAX_CORRECTION \in Nat /\ TargetLevel \in Nat /\ LAG \in Nat \ {0} /\ KP \in Nat \ {0} /\ KI \in Nat \ {0}
      /\ filtered \in Int /\ integral \in Int
  BY DEF DriftParameters, DriftInv, DriftTypes
<1>2. before \in Int
  BY <1>1
<1>3. smooth \in Int
  <2>1. reading - before \in Int
    BY <1>2
  <2>2. QED
    BY <1>1, <1>2, <2>1, Quotient
<1>4. err \in Int
  BY <1>1, <1>3
<1>5. e \in Int /\ err \div KI \in Int
  BY <1>1, <1>4, Quotient
<1>6. filtered' = smooth /\ smoothing' = TRUE
      /\ integral' = (IF wrong THEN relearned ELSE held)
      /\ correction' = Within(IF wrong THEN e + relearned ELSE raw, MAX_CORRECTION)
  BY DEF update
<1>7. e = (filtered' - TargetLevel) \div KP
  BY <1>6
<1> HIDE DEF before, smooth, err, e
<1>8. integral \in -MAX_CORRECTION .. MAX_CORRECTION
  BY <1>1, WithinBounds DEF DriftInv, Authority
<1>9. candidate \in -MAX_CORRECTION .. MAX_CORRECTION
  <2>1. integral + err \div KI \in Int
    BY <1>1, <1>5
  <2>2. QED
    BY <1>1, <2>1, WithinBounds
<1>10. /\ relearned \in -MAX_CORRECTION .. MAX_CORRECTION
       /\ relearned = IF -e < -MAX_CORRECTION THEN -MAX_CORRECTION
                      ELSE IF -e > MAX_CORRECTION THEN MAX_CORRECTION ELSE -e
  <2>1. -e \in Int
    BY <1>5
  <2>2. QED
    BY <1>1, <2>1, WithinBounds
<1> HIDE DEF candidate, relearned
<1>11. raw \in Int /\ held \in -MAX_CORRECTION .. MAX_CORRECTION /\ raw = e + candidate
  BY <1>1, <1>5, <1>8, <1>9
<1> HIDE DEF raw, held
<1> DEFINE asked == IF wrong THEN e + relearned ELSE raw
<1>12. asked \in Int
  BY <1>1, <1>5, <1>10, <1>11
<1>13. /\ correction' = IF asked < -MAX_CORRECTION THEN -MAX_CORRECTION
                        ELSE IF asked > MAX_CORRECTION THEN MAX_CORRECTION ELSE asked
  <2> HIDE DEF asked
  <2>1. correction' = Within(asked, MAX_CORRECTION)
    BY <1>6 DEF asked
  <2>2. QED
    BY <1>1, <1>12, <2>1, WithinBounds
<1>14. wrong <=> (l = "Empty" /\ raw > 0) \/ (l = "Full" /\ raw < 0)
  BY DEF disproved_by
<1>15. integral' \in -MAX_CORRECTION .. MAX_CORRECTION /\ correction' \in -MAX_CORRECTION .. MAX_CORRECTION
  BY <1>1, <1>6, <1>10, <1>11, <1>12, <1>13
<1>16. l = "Empty" => correction' <= 0 \/ correction' <= e - MAX_CORRECTION
  BY <1>1, <1>5, <1>10, <1>11, <1>13, <1>14
<1>17. l = "Full" => correction' >= 0 \/ correction' >= e + MAX_CORRECTION
  BY <1>1, <1>5, <1>10, <1>11, <1>13, <1>14
<1>18. QED
  BY <1>3, <1>6, <1>7, <1>15, <1>16, <1>17

(* The resampler never has to cut what the controller asks.                *)
LEMMA RatioAsAsked ==
    ASSUME DriftParameters, DriftInv, correction' \in -MAX_CORRECTION .. MAX_CORRECTION, set_ratio(correction')
    PROVE  ratio' = correction' /\ clamp_events' = 0
<1>1. Within(correction', MAX_CORRECTION) = correction'
  BY WithinBounds DEF DriftParameters
<1>2. clamp_events = 0
  BY DEF DriftInv, Authority
<1>3. QED
  BY <1>1, <1>2 DEF set_ratio

LEMMA WatchKept ==
    ASSUME DriftParameters, DriftInv, NEW ppm \in Int, NEW n \in Nat, period <= n, SettleWatch_update(ppm, n)
    PROVE  /\ watch' \in Readings /\ watch'.seed = watch.seed
           /\ watch'.settled => n >= Min({SETTLE_MIN, deadline})
<1>1. /\ watch \in Readings /\ watch.seed \in Seeds
      /\ watch.settled => period >= Min({SETTLE_MIN, deadline})
      /\ SETTLE_MIN \in Nat /\ SETTLE_CHECK \in Nat /\ period \in Nat
      /\ deadline \in Nat
  BY DEF DriftInv, DriftTypes, NotAtOnce, DriftParameters, deadline
<1> DEFINE first == Min({SETTLE_MIN, deadline})
<1>2. first \in Nat /\ first <= SETTLE_MIN /\ first <= deadline
  BY <1>1, SmallerOfTwo
<1> HIDE DEF first
<1>3. CASE UNCHANGED watch
  BY <1>1, <1>2, <1>3 DEF first
<1>4. CASE watch' = [watch EXCEPT !.settled = TRUE] /\ n >= deadline
  <2>1. n >= first
    BY <1>1, <1>2, <1>4
  <2>2. watch' \in Readings /\ watch'.seed = watch.seed
    BY <1>1, <1>4 DEF Readings
  <2>3. QED
    BY <2>1, <2>2 DEF first
<1> DEFINE steady == IF ppm - watch.last \in (-SETTLE_TOL)..SETTLE_TOL THEN watch.stable + 1 ELSE 0
           now == steady >= SETTLE_STABLE_CHECKS /\ n >= SETTLE_MIN
<1>5. CASE watch' = [watch EXCEPT !.stable = steady, !.last = ppm, !.next = n + SETTLE_CHECK, !.settled = now]
  <2>1. steady \in Int /\ n + SETTLE_CHECK \in Int /\ now \in BOOLEAN
    BY <1>1 DEF Readings
  <2>2. now => n >= first
    BY <1>1, <1>2
  <2> HIDE DEF steady, now
  <2>3. watch' \in Readings /\ watch'.seed = watch.seed /\ watch'.settled = now
    BY <1>1, <1>5, <2>1 DEF Readings
  <2>4. QED
    BY <2>2, <2>3 DEF first
<1>6. QED
  BY <1>3, <1>4, <1>5 DEF SettleWatch_update

LEMMA PeriodKeeps == ASSUME DriftParameters, DriftInv, NEW host, Period(host) PROVE DriftInv'
<1>1. PICK mix \in {Pulled(host)}, n \in {Min({period + 1, SETTLE_COLD})} :
        /\ level' = mix.level /\ found' = mix.found /\ period' = n
        /\ IF period + 1 > WARMUP
           THEN update(mix.level, mix.found) /\ set_ratio(correction')
           ELSE UNCHANGED <<filtered, integral, correction, smoothing, ratio, clamp_events>>
        /\ SettleWatch_update(integral', n)
        /\ UNCHANGED skew
  BY DEF Period
<1>2. mix.level \in Int
  BY PulledType
<1>3. /\ MAX_CORRECTION \in Nat /\ KP \in Nat \ {0} /\ TargetLevel \in Nat /\ WARMUP \in Nat
      /\ period \in Nat /\ period <= SETTLE_COLD /\ SETTLE_COLD \in Nat
  BY DEF DriftParameters, DriftInv, DriftTypes
<1>4. n \in Nat /\ n <= SETTLE_COLD /\ n <= period + 1 /\ period <= n
  BY <1>3, SmallerOfTwo
<1>5. /\ integral \in -MAX_CORRECTION .. MAX_CORRECTION /\ correction \in -MAX_CORRECTION .. MAX_CORRECTION
      /\ clamp_events = 0
  BY <1>3, WithinBounds DEF DriftInv, DriftTypes, Authority
<1>6. /\ filtered' \in Int /\ smoothing' \in BOOLEAN /\ ratio' \in Int /\ clamp_events' = 0
      /\ integral' \in -MAX_CORRECTION .. MAX_CORRECTION
      /\ correction' \in -MAX_CORRECTION .. MAX_CORRECTION
  <2>1. CASE UNCHANGED <<filtered, integral, correction, smoothing, ratio, clamp_events>>
    BY <1>5, <2>1 DEF DriftInv, DriftTypes
  <2>2. CASE mix.found = "Dry" /\ period + 1 > WARMUP
    <3>1. UNCHANGED <<filtered, integral, correction, smoothing>> /\ set_ratio(correction')
      BY <1>1, <2>2 DEF update
    <3>2. ratio' = correction' /\ clamp_events' = 0
      BY <1>5, <3>1, RatioAsAsked
    <3>3. QED
      BY <1>5, <3>1, <3>2 DEF DriftInv, DriftTypes
  <2>3. CASE mix.found # "Dry" /\ period + 1 > WARMUP
    <3>1. update(mix.level, mix.found) /\ set_ratio(correction')
      BY <1>1, <2>3
    <3>2. /\ filtered' \in Int /\ smoothing' \in BOOLEAN
          /\ integral' \in -MAX_CORRECTION .. MAX_CORRECTION
          /\ correction' \in -MAX_CORRECTION .. MAX_CORRECTION
      BY <1>2, <2>3, <3>1, UpdateBounded
    <3>3. ratio' = correction' /\ clamp_events' = 0
      BY <3>1, <3>2, RatioAsAsked
    <3>4. QED
      BY <3>2, <3>3
  <2>4. QED
    BY <1>1, <2>1, <2>2, <2>3
<1>7. integral' \in Int /\ correction' \in Int
  BY <1>3, <1>6
<1>8. /\ watch' \in Readings /\ watch'.seed = watch.seed
      /\ watch'.settled => n >= Min({SETTLE_MIN, deadline})
  BY <1>1, <1>4, <1>7, WatchKept
<1>9. DriftTypes'
  BY <1>1, <1>2, <1>4, <1>6, <1>7, <1>8 DEF DriftTypes, DriftInv
<1>10. Authority'
  <2>1. integral' = Within(integral', MAX_CORRECTION) /\ correction' = Within(correction', MAX_CORRECTION)
    BY <1>3, <1>6, <1>7, WithinBounds
  <2>2. QED
    BY <1>6, <2>1 DEF Authority
<1>11. LimitsOverrule'
  <2> SUFFICES ASSUME period' > WARMUP
               PROVE  /\ found' = "Empty" => correction' <= Max({0, (filtered' - TargetLevel) \div KP - MAX_CORRECTION})
                      /\ found' = "Full" => correction' >= Min({0, (filtered' - TargetLevel) \div KP + MAX_CORRECTION})
    BY DEF LimitsOverrule
  <2> DEFINE e == (filtered' - TargetLevel) \div KP
  <2>1. e \in Int
    <3>1. filtered' - TargetLevel \in Int
      BY <1>3, <1>6
    <3>2. QED
      BY <1>3, <3>1, Quotient
  <2>2. period + 1 > WARMUP
    BY <1>1, <1>3, <1>4
  <2>3. CASE found' \in {"Empty", "Full"}
    <3>1. /\ found' = "Empty" => correction' <= 0 \/ correction' <= e - MAX_CORRECTION
          /\ found' = "Full" => correction' >= 0 \/ correction' >= e + MAX_CORRECTION
      BY <1>1, <1>2, <2>2, <2>3, UpdateBounded
    <3> HIDE DEF e
    <3>2. /\ Max({0, e - MAX_CORRECTION}) = IF 0 >= e - MAX_CORRECTION THEN 0 ELSE e - MAX_CORRECTION
          /\ Min({0, e + MAX_CORRECTION}) = IF 0 <= e + MAX_CORRECTION THEN 0 ELSE e + MAX_CORRECTION
      <4>1. e - MAX_CORRECTION \in Int /\ e + MAX_CORRECTION \in Int
        BY <1>3, <2>1
      <4>2. QED
        BY <4>1, LargerOfTwo, SmallerOfTwo
    <3>3. /\ found' = "Empty" => correction' <= Max({0, e - MAX_CORRECTION})
          /\ found' = "Full" => correction' >= Min({0, e + MAX_CORRECTION})
      BY <1>3, <1>7, <2>1, <3>1, <3>2
    <3>4. QED
      BY <3>3 DEF e
  <2>4. QED
    BY <2>3
<1>12. NotAtOnce'
  <2>1. deadline' = deadline
    BY <1>8 DEF deadline
  <2>2. QED
    BY <1>1, <1>8, <2>1 DEF NotAtOnce
<1>13. QED
  BY <1>9, <1>10, <1>11, <1>12 DEF DriftInv

LEMMA DriftStep == ASSUME DriftParameters, DriftInv, [DriftNext]_drift_vars PROVE DriftInv'
<1>1. ASSUME NEW host, Period(host) PROVE DriftInv'
  BY <1>1, PeriodKeeps
<1>2. CASE UNCHANGED drift_vars
  BY <1>2 DEF drift_vars, DriftInv, DriftTypes, Authority, LimitsOverrule, NotAtOnce, deadline
<1>3. QED
  BY <1>1, <1>2 DEF DriftNext, Play, HostSilent, DeviceLate

LEMMA DriftInvariant == ASSUME DriftParameters PROVE DriftSpec => []DriftInv
<1>1. DriftInit => DriftInv
  BY DriftStarts
<1>2. DriftInv /\ [DriftNext]_drift_vars => DriftInv'
  BY DriftStep
<1>3. QED
  BY <1>1, <1>2, PTL DEF DriftSpec

(* What a limit does to the larger and the smaller of two.                 *)
LEMMA ClampBounds ==
    ASSUME NEW x \in Int, NEW a \in Int, NEW b \in Int, a <= b
    PROVE  Clamp(x, a, b) \in Int /\ a <= Clamp(x, a, b) /\ Clamp(x, a, b) <= b
<1>1. Min({x, b}) = (IF x <= b THEN x ELSE b) /\ Min({x, b}) \in Int
  BY SmallerOfTwo
<1>2. Max({a, Min({x, b})}) = IF a >= Min({x, b}) THEN a ELSE Min({x, b})
  BY <1>1, LargerOfTwo
<1>3. QED
  BY <1>1, <1>2 DEF Clamp

(* The size of the ring is no less than what it must hold.                 *)
LEMMA RoundedUp ==
    ASSUME NEW n \in Int, \E p \in PowersOfTwo : p >= n
    PROVE  NextPowerOfTwo(n) \in Nat /\ NextPowerOfTwo(n) >= n
<1> DEFINE S == {p \in PowersOfTwo : p >= n}
<1>1. \E x \in S : \A y \in S : x <= y
  BY DEF PowersOfTwo
<1>2. Min(S) \in S
  BY <1>1 DEF Min
<1>3. QED
  BY <1>2 DEF NextPowerOfTwo, PowersOfTwo

(* For every configuration half the ring stays free above the target, a    *)
(* block of the host's and a period fit under it unless the half ring is   *)
(* smaller, and the priming fits (target_level in worker.rs).              *)
THEOREM EveryLevelFits == LevelFits
<1> SUFFICES ASSUME NEW ms \in Ms, NEW down \in Ms, NEW host_block \in HostBlocks, NEW per \in Periods, NEW rate \in Rates
             PROVE  LET l == target_level(ms, host_block, per, down, rate)
                    IN  /\ 2 * l.frames <= l.capacity
                        /\ l.frames >= host_block + per \/ l.frames = l.capacity \div 2
                        /\ l.frames + (host_block + 1) \div 2 <= l.capacity
  BY DEF LevelFits
<1>1. DriftParameters
  BY DriftAssumption
<1>2. ms \in Nat /\ down \in Nat /\ host_block \in Nat /\ per \in Nat /\ rate \in Nat /\ MIN_CAPACITY_FRAMES \in Nat
  BY <1>1 DEF DriftParameters
<1>3. ASSUME NEW m \in Nat PROVE frames_for_ms(m, rate) \in Int
  <2>1. m * rate + 5 \in Int
    BY <1>2
  <2>2. (m * rate + 5) \div 10 \in Int
    BY <2>1, Quotient
  <2>3. QED
    BY <2>2, LargerOfTwo DEF frames_for_ms
<1> DEFINE larger == Max({frames_for_ms(ms, rate), host_block})
           asked == asked_capacity(ms, host_block, rate)
           capacity == ring_capacity_for(ms, host_block, rate)
           half == capacity \div 2
           least == Min({host_block + per, half})
           goal == frames_for_ms(Max({ms - down, 0}), rate)
           level_frames == Clamp(goal, least, half)
<1>4. larger \in Int /\ larger >= host_block
  <2>1. frames_for_ms(ms, rate) \in Int
    BY <1>2, <1>3
  <2>2. larger = IF frames_for_ms(ms, rate) >= host_block THEN frames_for_ms(ms, rate) ELSE host_block
    BY <1>2, <2>1, LargerOfTwo
  <2>3. QED
    BY <1>2, <2>1, <2>2
<1>5. asked \in Int /\ asked >= 4 * host_block
  <2> HIDE DEF larger
  <2>1. 4 * larger \in Int /\ 4 * larger >= 4 * host_block
    BY <1>2, <1>4
  <2>2. Max({4 * larger, MIN_CAPACITY_FRAMES}) = IF 4 * larger >= MIN_CAPACITY_FRAMES THEN 4 * larger
                                                 ELSE MIN_CAPACITY_FRAMES
    BY <1>2, <2>1, LargerOfTwo
  <2>3. asked = Max({4 * larger, MIN_CAPACITY_FRAMES})
    BY DEF larger, asked_capacity, CAPACITY_FACTOR
  <2> HIDE DEF asked
  <2>4. QED
    BY <1>2, <2>1, <2>2, <2>3
<1>6. \E p \in PowersOfTwo : p >= asked
  BY <1>1 DEF DriftParameters
<1> HIDE DEF asked
<1>7. capacity \in Nat /\ capacity >= 4 * host_block
  <2>1. capacity = NextPowerOfTwo(asked)
    BY DEF ring_capacity_for, asked
  <2> HIDE DEF capacity
  <2>2. capacity \in Nat /\ capacity >= asked
    BY <1>5, <1>6, <2>1, RoundedUp
  <2>3. QED
    BY <1>2, <1>5, <2>2
<1> HIDE DEF capacity
<1>8. half \in Int /\ 2 * half <= capacity /\ capacity <= 2 * half + 1
  BY <1>7
<1> HIDE DEF half
<1>9. least = (IF host_block + per <= half THEN host_block + per ELSE half) /\ least \in Int /\ least <= half
  <2>1. host_block + per \in Int
    BY <1>2
  <2>2. least = IF host_block + per <= half THEN host_block + per ELSE half
    BY <1>8, <2>1, SmallerOfTwo
  <2>3. QED
    BY <1>8, <2>1, <2>2
<1>10. goal \in Int
  <2>1. ms - down \in Int /\ 0 \in Int
    BY <1>2
  <2>2. Max({ms - down, 0}) = IF ms - down >= 0 THEN ms - down ELSE 0
    BY <2>1, LargerOfTwo
  <2>3. Max({ms - down, 0}) \in Nat
    BY <2>1, <2>2
  <2>4. QED
    BY <1>3, <2>3
<1> HIDE DEF least, goal
<1>11. level_frames \in Int /\ least <= level_frames /\ level_frames <= half
  BY <1>8, <1>9, <1>10, ClampBounds
<1> HIDE DEF level_frames
<1>12. /\ 2 * level_frames <= capacity
       /\ level_frames >= host_block + per \/ level_frames = half
       /\ level_frames + (host_block + 1) \div 2 <= capacity
  BY <1>2, <1>7, <1>8, <1>9, <1>11
<1>13. target_level(ms, host_block, per, down, rate) = [ capacity |-> capacity, floor |-> least, frames |-> level_frames ]
  BY DEF target_level, capacity, half, least, goal, level_frames
<1>14. QED
  BY <1>12, <1>13 DEF half

(* Whatever the clocks, the seed, the gains and the disturbances: integral *)
(* and correction keep within the authority, so that the resampler never   *)
(* cuts a ratio; an empty or a full ring overrules what was learned or     *)
(* remembered; no reading counts as settled before its time; and every     *)
(* level fits its ring (clock.rs, resample.rs, worker.rs).                 *)
THEOREM DriftIsHeld == DriftSpec => []DriftHeld
<1>1. DriftParameters
  BY DriftAssumption
<1>2. DriftInv => DriftHeld
  BY EveryLevelFits DEF DriftInv, DriftHeld
<1>3. QED
  BY <1>1, <1>2, DriftInvariant, PTL

-----------------------------------------------------------------------------
(* The gauges' lines                                                       *)

FillLevels == 0..(NOTHING - 1)
Owed == [fill : FillLevels, done : {"no", "yes", "due"}, lo : 0..NOTHING, hi : FillLevels]

GaugesTypes ==
    /\ low \in 0..NOTHING /\ high \in FillLevels /\ measured \in FillLevels
    /\ wat \in {"idle", "min", "max"}
    /\ trace_at \in {"none", "opens", "waits", "low", "high", "told", "writes", "ended", "joined"}
    /\ taken \in 0..NOTHING /\ told \in [lo : FillLevels, hi : FillLevels]
    /\ owed \subseteq Owed

(* A fill that was published is in the cell, or in what the trace holds in *)
(* its hands, or in a line.                                                *)
LowSeen(r) == low <= r.fill \/ (trace_at = "high" /\ taken <= r.fill) \/ r.lo <= r.fill
HighSeen(r) == high >= r.fill \/ r.hi >= r.fill

(* A fill the line must cover has been taken out of the low cell, and out  *)
(* of the high one once the line is told.                                  *)
Covered(r) ==
    /\ trace_at \in {"high", "told"}
    /\ (trace_at = "high" /\ taken <= r.fill) \/ r.lo <= r.fill
    /\ IF trace_at = "high" THEN HighSeen(r) ELSE r.hi >= r.fill

Accounted(r) ==
    CASE r.done = "no" -> r.fill = measured /\ wat \in {"min", "max"} /\ (wat = "max" => LowSeen(r))
      [] r.done = "yes" -> LowSeen(r) /\ HighSeen(r)
      [] r.done = "due" -> Covered(r)

(* What is in a cell is a fill some period measured and no line before the *)
(* next one has to cover.                                                  *)
CellsFilled ==
    /\ low # NOTHING => \E r \in owed : r.fill = low /\ r.done # "due"
    /\ high # 0 => \E r \in owed : r.fill = high /\ (trace_at = "told" => r.done # "due")
    /\ trace_at = "high" /\ taken # NOTHING => \E r \in owed : r.fill = taken
    /\ wat # "idle" => \E r \in owed : r.fill = measured /\ r.done = "no"

LineTrue ==
    trace_at = "told" => {told.lo, told.hi} \subseteq {r.fill : r \in owed} \/ told = [lo |-> 0, hi |-> 0]

GaugesInv == GaugesTypes /\ (\A r \in owed : Accounted(r)) /\ CellsFilled /\ LineTrue

LEMMA GaugesFacts ==
    /\ NOTHING \in Nat /\ Fills \subseteq FillLevels /\ FillLevels \subseteq Nat /\ FillLevels \subseteq 0..NOTHING
    /\ 0 \in FillLevels
BY GaugesAssumption DEF FillLevels

LEMMA OwedFacts ==
    ASSUME NEW r \in Owed
    PROVE  /\ r.fill \in Nat /\ r.lo \in Nat /\ r.hi \in Nat
           /\ r.fill \in FillLevels /\ r.lo \in 0..NOTHING /\ r.hi \in FillLevels /\ r.done \in {"no", "yes", "due"}
<1>1. r.fill \in FillLevels /\ r.lo \in 0..NOTHING /\ r.hi \in FillLevels /\ r.done \in {"no", "yes", "due"}
  BY DEF Owed
<1>2. 0..NOTHING \subseteq Nat
  BY GaugesFacts
<1>3. QED
  BY <1>1, <1>2, GaugesFacts

(* The rest of the trace's life takes nothing out of the cells.            *)
LEMMA TraceElsewhere ==
    ASSUME GaugesInv, trace_at \notin {"high", "told"},
           trace_at' \in {"none", "opens", "waits", "low", "writes", "ended", "joined"},
           UNCHANGED <<low, high, EngineSide, Line, owed>>
    PROVE  GaugesInv'
<1>1. UNCHANGED <<low, high, wat, measured, taken, told, owed>>
  BY DEF EngineSide, Line
<1>2. GaugesTypes'
  BY <1>1 DEF GaugesInv, GaugesTypes
<1>3. (\A r \in owed : Accounted(r))'
  <2> SUFFICES ASSUME NEW r \in owed PROVE Accounted(r)'
    BY <1>1
  <2>1. Accounted(r)
    BY DEF GaugesInv
  <2>2. QED
    BY <1>1, <2>1 DEF Accounted, Covered, LowSeen, HighSeen
<1>4. CellsFilled' /\ LineTrue'
  BY <1>1 DEF GaugesInv, CellsFilled, LineTrue
<1>5. QED
  BY <1>2, <1>3, <1>4 DEF GaugesInv

LEMMA PublishKeeps == ASSUME GaugesInv, publish PROVE GaugesInv'
<1>1. PICK f \in Fills :
          /\ measured' = f
          /\ owed' = owed \union {[fill |-> f, done |-> "no", lo |-> NOTHING, hi |-> 0]}
  BY DEF publish
<1>2. /\ wat = "idle" /\ wat' = "min" /\ UNCHANGED <<low, high, trace_at, taken, told>>
  BY DEF publish, Line
<1> DEFINE q == [fill |-> f, done |-> "no", lo |-> NOTHING, hi |-> 0]
<1>3. q \in Owed /\ f \in FillLevels /\ q.fill = f /\ q.done = "no"
  BY GaugesFacts DEF Owed
<1>4. owed' = owed \cup {q}
  BY <1>1
<1> HIDE DEF q
<1>5. GaugesTypes'
  BY <1>1, <1>2, <1>3, <1>4 DEF GaugesInv, GaugesTypes
<1>6. (\A r \in owed : Accounted(r))'
  <2> SUFFICES ASSUME NEW r \in owed' PROVE Accounted(r)'
    OBVIOUS
  <2>1. CASE r = q
    BY <1>1, <1>2, <1>3, <2>1 DEF Accounted
  <2>2. CASE r \in owed
    <3>1. Accounted(r) /\ r.done \in {"no", "yes", "due"} /\ r.done # "no"
      BY <1>2, <2>2 DEF GaugesInv, GaugesTypes, Owed, Accounted
    <3>2. QED
      BY <1>2, <3>1 DEF Accounted, Covered, LowSeen, HighSeen
  <2>3. QED
    BY <1>4, <2>1, <2>2
<1>7. CellsFilled'
  <2>1. \E r \in owed' : r.fill = measured' /\ r.done = "no"
    BY <1>1, <1>3, <1>4
  <2>2. owed \subseteq owed'
    BY <1>4
  <2>3. QED
    BY <1>2, <2>1, <2>2 DEF GaugesInv, CellsFilled
<1>8. LineTrue'
  BY <1>2, <1>4 DEF GaugesInv, LineTrue
<1>9. QED
  BY <1>5, <1>6, <1>7, <1>8 DEF GaugesInv

LEMMA FetchMinKeeps == ASSUME GaugesInv, fetch_min PROVE GaugesInv'
<1>1. /\ wat = "min" /\ wat' = "max" /\ UNCHANGED <<high, measured, trace_at, taken, told, owed>>
      /\ low' = Min({low, measured})
  BY DEF fetch_min, Line
<1>2. low \in 0..NOTHING /\ measured \in FillLevels /\ owed \subseteq Owed
  BY DEF GaugesInv, GaugesTypes
<1>3. /\ low' = IF low <= measured THEN low ELSE measured
      /\ low' \in 0..NOTHING
  BY <1>1, <1>2, GaugesFacts, SmallerOfTwo
<1>4. low' <= low /\ low' <= measured
  BY <1>2, <1>3, GaugesFacts
<1>5. GaugesTypes'
  BY <1>1, <1>3 DEF GaugesInv, GaugesTypes
<1>6. (\A r \in owed : Accounted(r))'
  <2> SUFFICES ASSUME NEW r \in owed PROVE Accounted(r)'
    BY <1>1
  <2>1. Accounted(r) /\ r \in Owed /\ r.fill \in Nat
    BY <1>2, GaugesFacts DEF GaugesInv, Owed
  <2>2. LowSeen(r) => LowSeen(r)'
    BY <1>1, <1>2, <1>3, <1>4, <2>1, GaugesFacts DEF LowSeen
  <2>3. CASE r.done = "no"
    BY <1>1, <1>4, <2>1, <2>3 DEF Accounted, LowSeen
  <2>4. CASE r.done = "yes"
    BY <1>1, <2>1, <2>2, <2>4 DEF Accounted, HighSeen
  <2>5. CASE r.done = "due"
    BY <1>1, <2>1, <2>5 DEF Accounted, Covered, HighSeen
  <2>6. QED
    BY <2>1, <2>3, <2>4, <2>5 DEF Owed
<1>7. CellsFilled'
  <2>1. \E r \in owed : r.fill = measured /\ r.done = "no"
    BY <1>1 DEF GaugesInv, CellsFilled
  <2>2. low' # NOTHING => \E r \in owed : r.fill = low' /\ r.done # "due"
    BY <1>3, <2>1 DEF GaugesInv, CellsFilled
  <2>3. QED
    BY <1>1, <2>1, <2>2 DEF GaugesInv, CellsFilled
<1>8. LineTrue'
  BY <1>1 DEF GaugesInv, LineTrue
<1>9. QED
  BY <1>5, <1>6, <1>7, <1>8 DEF GaugesInv

(* What a step that marks or measures the published makes of one of them.  *)
LEMMA MarkedType ==
    ASSUME NEW r \in Owed, NEW d \in {"no", "yes", "due"}
    PROVE  /\ [r EXCEPT !.done = d] \in Owed /\ [r EXCEPT !.done = d].done = d
           /\ [r EXCEPT !.done = d].fill = r.fill /\ [r EXCEPT !.done = d].lo = r.lo
           /\ [r EXCEPT !.done = d].hi = r.hi
BY DEF Owed

LEMMA FetchMaxKeeps == ASSUME GaugesInv, fetch_max PROVE GaugesInv'
<1> DEFINE mark(r) == [r EXCEPT !.done = IF @ = "no" THEN "yes" ELSE @]
<1>1. /\ wat = "max" /\ wat' = "idle" /\ UNCHANGED <<low, measured, trace_at, taken, told>>
      /\ high' = Max({high, measured})
      /\ owed' = {mark(r) : r \in owed}
  BY DEF fetch_max, Line
<1>2. high \in FillLevels /\ measured \in FillLevels /\ owed \subseteq Owed
  BY DEF GaugesInv, GaugesTypes
<1>3. high' = (IF high >= measured THEN high ELSE measured) /\ high' \in FillLevels
  BY <1>1, <1>2, GaugesFacts, LargerOfTwo
<1>4. high' >= high /\ high' >= measured
  BY <1>2, <1>3, GaugesFacts
<1>5. ASSUME NEW r \in owed
      PROVE  /\ mark(r) \in Owed /\ mark(r).fill = r.fill /\ mark(r).lo = r.lo /\ mark(r).hi = r.hi
             /\ mark(r).done = IF r.done = "no" THEN "yes" ELSE r.done
  BY <1>2 DEF Owed
<1> HIDE DEF mark
<1>6. GaugesTypes'
  <2>1. owed' \subseteq Owed
    BY <1>1, <1>5
  <2>2. QED
    BY <1>1, <1>3, <2>1 DEF GaugesInv, GaugesTypes
<1>7. (\A r \in owed : Accounted(r))'
  <2> SUFFICES ASSUME NEW s \in owed' PROVE Accounted(s)'
    OBVIOUS
  <2>1. PICK r \in owed : s = mark(r)
    BY <1>1
  <2>2. /\ s.fill = r.fill /\ s.lo = r.lo /\ s.hi = r.hi
        /\ s.done = IF r.done = "no" THEN "yes" ELSE r.done
    BY <1>5, <2>1
  <2>3. Accounted(r) /\ r \in Owed /\ r.fill \in Nat /\ r.hi \in Nat
    BY <1>2, GaugesFacts DEF GaugesInv, Owed
  <2>4. LowSeen(r) => LowSeen(s)'
    BY <1>1, <2>2 DEF LowSeen
  <2>5. HighSeen(r) => HighSeen(s)'
    BY <1>2, <1>3, <1>4, <2>2, <2>3, GaugesFacts DEF HighSeen
  <2>6. CASE r.done = "no"
    <3>1. r.fill = measured /\ LowSeen(r)
      BY <1>1, <2>3, <2>6 DEF Accounted
    <3>2. HighSeen(s)'
      BY <1>4, <2>2, <3>1 DEF HighSeen
    <3>3. QED
      BY <2>2, <2>4, <2>6, <3>1, <3>2 DEF Accounted
  <2>7. CASE r.done = "yes"
    BY <2>2, <2>3, <2>4, <2>5, <2>7 DEF Accounted
  <2>8. CASE r.done = "due"
    BY <1>1, <2>2, <2>3, <2>5, <2>8 DEF Accounted, Covered
  <2>9. QED
    BY <2>3, <2>6, <2>7, <2>8 DEF Owed
<1>8. ASSUME NEW r \in owed
      PROVE  \E s \in owed' : s.fill = r.fill /\ (s.done = "due" <=> r.done = "due")
  <2>1. mark(r) \in owed' /\ mark(r).fill = r.fill /\ (mark(r).done = "due" <=> r.done = "due")
    BY <1>1, <1>5
  <2>2. QED
    BY <2>1
<1>9. CellsFilled'
  <2>1. PICK q \in owed : q.fill = measured /\ q.done = "no"
    BY <1>1 DEF GaugesInv, CellsFilled
  <2>2. low' # NOTHING => \E s \in owed' : s.fill = low' /\ s.done # "due"
    BY <1>1, <1>8 DEF GaugesInv, CellsFilled
  <2>3. high' # 0 => \E s \in owed' : s.fill = high' /\ (trace_at' = "told" => s.done # "due")
    <3>1. CASE high' = high
      BY <1>1, <1>8, <3>1 DEF GaugesInv, CellsFilled
    <3>2. CASE high' = measured
      BY <1>8, <2>1, <3>2
    <3>3. QED
      BY <1>3, <3>1, <3>2
  <2>4. trace_at' = "high" /\ taken' # NOTHING => \E s \in owed' : s.fill = taken'
    BY <1>1, <1>8 DEF GaugesInv, CellsFilled
  <2>5. QED
    BY <1>1, <2>2, <2>3, <2>4 DEF CellsFilled
<1>10. LineTrue'
  <2>1. {r.fill : r \in owed} \subseteq {s.fill : s \in owed'}
    BY <1>8
  <2>2. LineTrue
    BY DEF GaugesInv
  <2>3. QED
    BY <1>1, <2>1, <2>2 DEF LineTrue
<1>11. QED
  BY <1>6, <1>7, <1>9, <1>10 DEF GaugesInv

LEMMA SwapLowKeeps == ASSUME GaugesInv, SwapLow PROVE GaugesInv'
<1> DEFINE mark(r) == [r EXCEPT !.done = IF @ = "yes" THEN "due" ELSE @]
<1>1. /\ trace_at = "low" /\ trace_at' = "high" /\ taken' = low /\ low' = NOTHING
      /\ UNCHANGED <<high, wat, measured, told>>
      /\ owed' = {mark(r) : r \in owed}
  BY DEF SwapLow, EngineSide
<1>2. low \in 0..NOTHING /\ high \in FillLevels /\ owed \subseteq Owed
  BY DEF GaugesInv, GaugesTypes
<1>3. ASSUME NEW r \in owed
      PROVE  /\ mark(r) \in Owed /\ mark(r).fill = r.fill /\ mark(r).lo = r.lo /\ mark(r).hi = r.hi
             /\ mark(r).done = IF r.done = "yes" THEN "due" ELSE r.done
  BY <1>2 DEF Owed
<1> HIDE DEF mark
<1>4. GaugesTypes'
  <2>1. owed' \subseteq Owed
    BY <1>1, <1>3
  <2>2. QED
    BY <1>1, <1>2, <2>1, GaugesFacts DEF GaugesInv, GaugesTypes
<1>5. (\A r \in owed : Accounted(r))'
  <2> SUFFICES ASSUME NEW s \in owed' PROVE Accounted(s)'
    OBVIOUS
  <2>1. PICK r \in owed : s = mark(r)
    BY <1>1
  <2>2. /\ s.fill = r.fill /\ s.lo = r.lo /\ s.hi = r.hi
        /\ s.done = IF r.done = "yes" THEN "due" ELSE r.done
    BY <1>3, <2>1
  <2>3. Accounted(r) /\ r \in Owed
    BY <1>2 DEF GaugesInv
  <2>4. LowSeen(r) => (taken' <= s.fill \/ s.lo <= s.fill)
    BY <1>1, <2>2 DEF LowSeen
  <2>5. CASE r.done = "no"
    BY <1>1, <2>2, <2>3, <2>4, <2>5 DEF Accounted, LowSeen
  <2>6. CASE r.done = "yes"
    <3>1. LowSeen(r) /\ HighSeen(r)
      BY <2>3, <2>6 DEF Accounted
    <3>2. HighSeen(s)'
      BY <1>1, <2>2, <3>1 DEF HighSeen
    <3>3. Covered(s)'
      BY <1>1, <2>4, <3>1, <3>2 DEF Covered
    <3>4. QED
      BY <2>2, <2>6, <3>3 DEF Accounted
  <2>7. r.done # "due"
    BY <1>1, <2>3 DEF Accounted, Covered
  <2>8. QED
    BY <2>3, <2>5, <2>6, <2>7 DEF Owed
<1>6. ASSUME NEW r \in owed
      PROVE  \E s \in owed' : s.fill = r.fill /\ (r.done = "no" => s.done = "no")
  <2>1. mark(r) \in owed' /\ mark(r).fill = r.fill /\ (r.done = "no" => mark(r).done = "no")
    BY <1>1, <1>3
  <2>2. QED
    BY <2>1
<1>7. CellsFilled'
  <2>1. high' # 0 => \E s \in owed' : s.fill = high'
    BY <1>1, <1>6 DEF GaugesInv, CellsFilled
  <2>2. taken' # NOTHING => \E s \in owed' : s.fill = taken'
    BY <1>1, <1>6 DEF GaugesInv, CellsFilled
  <2>3. wat' # "idle" => \E s \in owed' : s.fill = measured' /\ s.done = "no"
    BY <1>1, <1>6 DEF GaugesInv, CellsFilled
  <2>4. QED
    BY <1>1, <2>1, <2>2, <2>3 DEF CellsFilled
<1>8. LineTrue'
  BY <1>1 DEF LineTrue
<1>9. QED
  BY <1>4, <1>5, <1>7, <1>8 DEF GaugesInv

LEMMA SwapHighKeeps == ASSUME GaugesInv, SwapHigh PROVE GaugesInv'
<1> DEFINE mark(r) == [r EXCEPT !.lo = Min({@, told'.lo}), !.hi = Max({@, told'.hi})]
<1>1. /\ trace_at = "high" /\ trace_at' = "told" /\ high' = 0
      /\ UNCHANGED <<low, wat, measured, taken>>
      /\ told' = [lo |-> Min({taken, high}), hi |-> high]
      /\ owed' = {mark(r) : r \in owed}
  BY DEF SwapHigh, EngineSide
<1>2. taken \in 0..NOTHING /\ high \in FillLevels /\ owed \subseteq Owed /\ 0 \in FillLevels
  BY GaugesFacts DEF GaugesInv, GaugesTypes
<1>3. Min({taken, high}) = IF taken <= high THEN taken ELSE high
  BY <1>2, GaugesFacts, SmallerOfTwo
<1>4. Min({taken, high}) \in FillLevels /\ Min({taken, high}) <= taken
  BY <1>2, <1>3, GaugesFacts DEF FillLevels
<1>5. told'.lo = Min({taken, high}) /\ told'.hi = high /\ told' \in [lo : FillLevels, hi : FillLevels]
  BY <1>1, <1>2, <1>4
<1>6. ASSUME NEW r \in owed
      PROVE  /\ mark(r) \in Owed /\ mark(r).fill = r.fill /\ mark(r).done = r.done
             /\ mark(r).lo <= r.lo /\ mark(r).lo <= told'.lo
             /\ mark(r).hi >= r.hi /\ mark(r).hi >= high
  <2>1. /\ r \in Owed /\ r.lo \in 0..NOTHING /\ r.hi \in FillLevels /\ told'.lo \in FillLevels /\ told'.hi \in FillLevels
        /\ r.lo \in Int /\ r.hi \in Int /\ told'.lo \in Int /\ told'.hi \in Int
    <3>1. r \in Owed
      BY <1>2
    <3>2. told'.lo \in FillLevels /\ told'.hi \in FillLevels
      BY <1>5
    <3>3. \A n \in FillLevels : n \in Int
      BY GaugesFacts
    <3>4. told'.lo \in Int /\ told'.hi \in Int
      BY <3>2, <3>3
    <3>5. QED
      BY <3>1, <3>2, <3>4, OwedFacts
  <2>2. /\ Min({r.lo, told'.lo}) = IF r.lo <= told'.lo THEN r.lo ELSE told'.lo
        /\ Max({r.hi, told'.hi}) = IF r.hi >= told'.hi THEN r.hi ELSE told'.hi
    BY <2>1, SmallerOfTwo, LargerOfTwo
  <2>3. mark(r) = [r EXCEPT !.lo = Min({r.lo, told'.lo}), !.hi = Max({r.hi, told'.hi})]
    BY <2>1 DEF Owed
  <2>4. /\ Min({r.lo, told'.lo}) \in 0..NOTHING /\ Max({r.hi, told'.hi}) \in FillLevels
        /\ Min({r.lo, told'.lo}) <= r.lo /\ Min({r.lo, told'.lo}) <= told'.lo
        /\ Max({r.hi, told'.hi}) >= r.hi /\ Max({r.hi, told'.hi}) >= high
    BY <1>5, <2>1, <2>2, GaugesFacts DEF FillLevels
  <2> HIDE DEF mark
  <2>5. /\ mark(r) \in Owed /\ mark(r).fill = r.fill /\ mark(r).done = r.done
        /\ mark(r).lo = Min({r.lo, told'.lo}) /\ mark(r).hi = Max({r.hi, told'.hi})
    BY <2>1, <2>3, <2>4 DEF Owed
  <2>6. QED
    BY <2>4, <2>5
<1> HIDE DEF mark
<1>7. GaugesTypes'
  <2>1. owed' \subseteq Owed
    BY <1>1, <1>6
  <2>2. QED
    BY <1>1, <1>2, <1>5, <2>1 DEF GaugesInv, GaugesTypes
<1>8. (\A r \in owed : Accounted(r))'
  <2> SUFFICES ASSUME NEW s \in owed' PROVE Accounted(s)'
    OBVIOUS
  <2>1. PICK r \in owed : s = mark(r)
    BY <1>1
  <2>2. /\ s.fill = r.fill /\ s.done = r.done /\ s.lo <= r.lo /\ s.lo <= taken
        /\ s.hi >= r.hi /\ s.hi >= high
    <3>1. s \in Owed /\ r \in Owed /\ s.lo \in Nat /\ told'.lo \in Nat
      BY <1>2, <1>5, <1>6, <2>1, GaugesFacts, OwedFacts
    <3>2. told'.lo <= taken
      BY <1>4, <1>5
    <3>3. QED
      BY <1>2, <1>6, <2>1, <3>1, <3>2
  <2>3. /\ Accounted(r) /\ r \in Owed /\ s \in Owed
        /\ r.fill \in Int /\ r.lo \in Int /\ r.hi \in Int /\ s.lo \in Int /\ s.hi \in Int
        /\ taken \in Int /\ high \in Int
    <3>1. r \in Owed /\ s \in Owed /\ Accounted(r)
      BY <1>2, <1>6, <2>1 DEF GaugesInv
    <3>2. taken \in Int /\ high \in Int
      BY <1>2, GaugesFacts
    <3>3. QED
      BY <3>1, <3>2, OwedFacts
  <2>4. LowSeen(r) => (low <= s.fill \/ s.lo <= s.fill)
    BY <2>2, <2>3 DEF LowSeen
  <2>5. HighSeen(r) => s.hi >= s.fill
    BY <2>2, <2>3 DEF HighSeen
  <2>6. CASE r.done = "no"
    BY <1>1, <2>2, <2>3, <2>4, <2>6 DEF Accounted, LowSeen
  <2>7. CASE r.done = "yes"
    BY <1>1, <2>2, <2>3, <2>4, <2>5, <2>7 DEF Accounted, LowSeen, HighSeen
  <2>8. CASE r.done = "due"
    <3>1. Covered(r)
      BY <2>3, <2>8 DEF Accounted
    <3>2. s.lo <= s.fill
      BY <2>2, <2>3, <3>1 DEF Covered
    <3>3. s.hi >= s.fill
      BY <1>1, <2>5, <3>1 DEF Covered
    <3>4. QED
      BY <1>1, <2>2, <2>8, <3>2, <3>3 DEF Accounted, Covered
  <2>9. QED
    BY <2>3, <2>6, <2>7, <2>8 DEF Owed
<1>9. ASSUME NEW r \in owed
      PROVE  \E s \in owed' : s.fill = r.fill /\ s.done = r.done
  <2>1. mark(r) \in owed' /\ mark(r).fill = r.fill /\ mark(r).done = r.done
    BY <1>1, <1>6
  <2>2. QED
    BY <2>1
<1>10. CellsFilled'
  <2>1. low' # NOTHING => \E s \in owed' : s.fill = low' /\ s.done # "due"
    BY <1>1, <1>9 DEF GaugesInv, CellsFilled
  <2>2. wat' # "idle" => \E s \in owed' : s.fill = measured' /\ s.done = "no"
    BY <1>1, <1>9 DEF GaugesInv, CellsFilled
  <2>3. QED
    BY <1>1, <2>1, <2>2 DEF CellsFilled
<1>11. LineTrue'
  <2>1. CASE high = 0
    <3>1. Min({taken, high}) = 0
      BY <1>2, <1>3, <2>1
    <3>2. told' = [lo |-> 0, hi |-> 0]
      BY <1>1, <2>1, <3>1
    <3>3. QED
      BY <3>2 DEF LineTrue
  <2>2. CASE high # 0
    <3>1. \E s \in owed' : s.fill = high
      BY <1>9, <2>2 DEF GaugesInv, CellsFilled
    <3>2. \E s \in owed' : s.fill = Min({taken, high})
      <4>1. CASE taken <= high
        <5>1. taken # NOTHING
          BY <1>2, <4>1, GaugesFacts DEF FillLevels
        <5>2. \E s \in owed' : s.fill = taken
          BY <1>1, <1>9, <5>1 DEF GaugesInv, CellsFilled
        <5>3. QED
          BY <1>3, <4>1, <5>2
      <4>2. CASE ~(taken <= high)
        BY <1>3, <3>1, <4>2
      <4>3. QED
        BY <4>1, <4>2
    <3>3. {told'.lo, told'.hi} \subseteq {s.fill : s \in owed'}
      BY <1>5, <3>1, <3>2
    <3>4. QED
      BY <3>3 DEF LineTrue
  <2>3. QED
    BY <2>1, <2>2
<1>12. QED
  BY <1>7, <1>8, <1>10, <1>11 DEF GaugesInv

LEMMA TakeKeeps == ASSUME GaugesInv, take_fill_range PROVE GaugesInv'
<1>1. /\ trace_at = "told" /\ trace_at' = "writes" /\ UNCHANGED <<low, high, wat, measured, taken, told>>
      /\ owed' = {r \in owed : r.done # "due"}
  BY DEF take_fill_range, EngineSide, Line
<1>2. GaugesTypes'
  BY <1>1 DEF GaugesInv, GaugesTypes
<1>3. (\A r \in owed : Accounted(r))'
  <2> SUFFICES ASSUME NEW r \in owed' PROVE Accounted(r)'
    OBVIOUS
  <2>1. r \in owed /\ r.done # "due" /\ Accounted(r) /\ r.done \in {"no", "yes", "due"}
    BY <1>1 DEF GaugesInv, GaugesTypes, Owed
  <2>2. (LowSeen(r) => LowSeen(r)') /\ (HighSeen(r) => HighSeen(r)')
    BY <1>1 DEF LowSeen, HighSeen
  <2>3. QED
    BY <1>1, <2>1, <2>2 DEF Accounted
<1>4. CellsFilled'
  BY <1>1 DEF GaugesInv, CellsFilled
<1>5. LineTrue'
  BY <1>1 DEF LineTrue
<1>6. QED
  BY <1>2, <1>3, <1>4, <1>5 DEF GaugesInv

LEMMA GaugesStep == ASSUME GaugesInv, [GaugesNext]_gauge_vars PROVE GaugesInv'
<1>1. CASE spawn \/ drop \/ open_trace \/ wait
  <2>1. CASE spawn
    BY <2>1, TraceElsewhere DEF spawn
  <2>2. CASE drop
    <3>1. CASE UNCHANGED trace_at
      <4>1. UNCHANGED <<low, high, wat, measured, taken, told, owed, trace_at>>
        BY <2>2, <3>1 DEF drop, EngineSide, Line
      <4>2. GaugesTypes' /\ CellsFilled' /\ LineTrue'
        BY <4>1 DEF GaugesInv, GaugesTypes, CellsFilled, LineTrue
      <4>3. (\A r \in owed : Accounted(r))'
        BY <4>1 DEF GaugesInv, Accounted, Covered, LowSeen, HighSeen
      <4>4. QED
        BY <4>2, <4>3 DEF GaugesInv
    <3>2. CASE trace_at = "ended" /\ trace_at' = "joined"
      BY <2>2, <3>2, TraceElsewhere DEF drop
    <3>3. QED
      BY <2>2, <3>1, <3>2 DEF drop
  <2>3. CASE open_trace
    BY <2>3, TraceElsewhere DEF open_trace
  <2>4. CASE wait
    BY <2>4, TraceElsewhere DEF wait
  <2>5. QED
    BY <1>1, <2>1, <2>2, <2>3, <2>4
<1>2. CASE UNCHANGED gauge_vars
  <2>1. UNCHANGED <<low, high, wat, measured, taken, told, owed, trace_at>>
    BY <1>2 DEF gauge_vars
  <2>2. GaugesTypes' /\ CellsFilled' /\ LineTrue'
    BY <2>1 DEF GaugesInv, GaugesTypes, CellsFilled, LineTrue
  <2>3. (\A r \in owed : Accounted(r))'
    BY <2>1 DEF GaugesInv, Accounted, Covered, LowSeen, HighSeen
  <2>4. QED
    BY <2>2, <2>3 DEF GaugesInv
<1>3. QED
  BY <1>1, <1>2, PublishKeeps, FetchMinKeeps, FetchMaxKeeps, SwapLowKeeps, SwapHighKeeps, TakeKeeps DEF GaugesNext

(* However the engine's stores and the trace's takings interleave, a line  *)
(* covers every fill published before it began, and its ends are fills     *)
(* that were measured (publish and take_fill_range in metrics.rs).         *)
THEOREM LinesTellTheRange == GaugesSpec => []RangesTell
<1>1. GaugesInit => GaugesInv
  BY GaugesAssumption DEF GaugesInit, GaugesInv, GaugesTypes, FillLevels, Owed, CellsFilled, LineTrue
<1>2. GaugesInv /\ [GaugesNext]_gauge_vars => GaugesInv'
  BY GaugesStep
<1>3. GaugesInv => RangesTell
  BY DEF GaugesInv, Accounted, Covered, LineTrue, RangesTell
<1>4. QED
  BY <1>1, <1>2, <1>3, PTL DEF GaugesSpec

-----------------------------------------------------------------------------
(* The WASAPI sink                                                         *)

(* A write is under way only while the sink runs, and it is about the last *)
(* frames handed over; what was seen of the queue can only have shrunk.    *)
WriteRight ==
    /\ writer.at # "out" => sink = "running" /\ 1 <= writer.from /\ writer.from <= writer.to /\ writer.to = given
    /\ writer.at = "put" => Len(queue) <= writer.padding /\ writer.padding < stream.limit

(* Nothing was handed over before the start, and nothing is in the queue   *)
(* of a stream that is not open.                                           *)
StartRight ==
    /\ sink \in {"none", "open", "filled"} => given = 0
    /\ sink \in {"none", "open"} => queue = <<>>
    /\ sink = "none" => stream = NoStream

SinkInv ==
    /\ SinkTypeOK /\ WriteRight /\ StartRight
    /\ QueueBounded /\ InOrder /\ LostOnlyWhenGone /\ ModeAsAsked

(* The frames that are behind the writer.                                  *)
Handled == IF writer.at = "out" THEN given ELSE writer.from - 1

Sounding(k) ==
    /\ \A i \in 1..Len(queue) : queue[i] = IF i <= k THEN 0 ELSE played + i - k
    /\ played + Len(queue) - k = Handled

LEMMA InOrderIs == InOrder <=> (sink \notin Endings => \E k \in 0..Len(queue) : Sounding(k))
BY DEF InOrder, Sounding, Handled

LEMMA LimitedBounds ==
    ASSUME NEW x \in Int, NEW a \in Int, NEW b \in Int
    PROVE  /\ Limited(x, a, b) \in Int
           /\ a <= b => a <= Limited(x, a, b) /\ Limited(x, a, b) <= b
<1>1. Min({x, b}) = (IF x <= b THEN x ELSE b) /\ Min({x, b}) \in Int
  BY SmallerOfTwo
<1>2. Max({a, Min({x, b})}) = IF a >= Min({x, b}) THEN a ELSE Min({x, b})
  BY <1>1, LargerOfTwo
<1>3. QED
  BY <1>1, <1>2 DEF Limited

LEMMA QueueLimit ==
    ASSUME NEW s \in Devices, NEW q \in QueuePeriods
    PROVE  /\ device_queue_limit(s.period, s.buffer, q) \in Nat
           /\ device_queue_limit(s.period, s.buffer, q) <= Max({1, s.buffer})
<1> DEFINE asked == Limited(q, MIN_QUEUE_PERIODS, MAX_QUEUE_PERIODS)
           most == Max({1, s.buffer})
<1>1. /\ s.period \in Nat /\ s.buffer \in Nat /\ q \in Nat
      /\ MIN_QUEUE_PERIODS \in Nat /\ MAX_QUEUE_PERIODS \in Nat
  BY SinkAssumption
<1>2. asked \in Int
  BY <1>1, LimitedBounds
<1>3. most \in Int /\ 1 <= most
  BY <1>1, LargerOfTwo
<1> HIDE DEF asked, most
<1>4. s.period * asked \in Int
  BY <1>1, <1>2
<1>5. PICK x : x = s.period * asked
  OBVIOUS
<1>6. x \in Int
  BY <1>4, <1>5
<1>7. Limited(x, 1, most) \in Int /\ 1 <= Limited(x, 1, most) /\ Limited(x, 1, most) <= most
  BY <1>3, <1>6, LimitedBounds
<1>8. device_queue_limit(s.period, s.buffer, q) = Limited(x, 1, most)
  BY <1>5 DEF device_queue_limit, asked, most
<1>9. QED
  BY <1>7, <1>8 DEF most

(* The room there is.                                                      *)
LEMMA RoomIs ==
    ASSUME SinkTypeOK, Len(queue) <= stream.limit
    PROVE  Room = stream.limit - Len(queue) /\ Room \in Nat
<1>1. stream.limit \in Nat /\ Len(queue) \in Nat
  BY DEF SinkTypeOK
<1>2. Max({0, stream.limit - Len(queue)}) = IF 0 >= stream.limit - Len(queue) THEN 0 ELSE stream.limit - Len(queue)
  BY <1>1, LargerOfTwo
<1>3. QED
  BY <1>1, <1>2 DEF Room

LEMMA SinkStarts == SinkInit => SinkInv
<1> SUFFICES ASSUME SinkInit PROVE SinkInv
  OBVIOUS
<1>1. MaxFrames \in Nat
  BY SinkAssumption
<1>2. SinkTypeOK
  <2>1. stream \in [exclusive : BOOLEAN, period : Nat, buffer : Nat, limit : Nat]
    BY DEF SinkInit, NoStream
  <2>2. writer \in [at : {"out", "look", "wait", "put"}, from : Nat, to : Nat, padding : Nat]
    BY DEF SinkInit, NoWrite
  <2>3. played \in 0..given /\ given \in 0..MaxFrames
    BY <1>1 DEF SinkInit
  <2>4. queue \in Seq(Nat)
    BY DEF SinkInit
  <2>5. QED
    BY <2>1, <2>2, <2>3, <2>4 DEF SinkInit, SinkTypeOK
<1>3. WriteRight /\ StartRight /\ LostOnlyWhenGone /\ ModeAsAsked
  BY DEF SinkInit, WriteRight, StartRight, LostOnlyWhenGone, ModeAsAsked, NoStream, NoWrite
<1>4. QueueBounded
  <2>1. Max({1, 0}) = 1
    BY LargerOfTwo
  <2>2. QED
    BY <2>1 DEF SinkInit, QueueBounded, NoStream, NoWrite
<1>5. Sounding(0)
  BY DEF SinkInit, Sounding, Handled, NoWrite
<1>6. InOrder
  BY <1>5, InOrderIs DEF SinkInit
<1>7. QED
  BY <1>2, <1>3, <1>4, <1>6 DEF SinkInv

-----------------------------------------------------------------------------
(* A step that touches no frame keeps their order.                         *)
LEMMA OrderKept ==
    ASSUME SinkInv, UNCHANGED <<queue, played>>, Handled' = Handled, sink \in Endings => sink' \in Endings
    PROVE  InOrder'
<1>1. sink' \notin Endings => \E k \in 0..Len(queue) : Sounding(k)
  BY InOrderIs DEF SinkInv
<1>2. ASSUME NEW k, Sounding(k) PROVE Sounding(k)'
  BY <1>2 DEF Sounding
<1>3. sink' \notin Endings => \E k \in 0..Len(queue') : Sounding(k)'
  BY <1>1, <1>2
<1>4. QED
  BY <1>3 DEF InOrder, Sounding, Handled

(* What the write that ends in a loss leaves.                              *)
LEMMA FailsKeeps ==
    ASSUME SinkInv, Fails, device # "well", UNCHANGED <<stream, wanted, queue, event, device, given, played>>
    PROVE  SinkInv'
<1>1. SinkTypeOK'
  BY DEF SinkInv, SinkTypeOK, Fails, NoWrite, Endings
<1>2. WriteRight' /\ StartRight'
  BY DEF SinkInv, WriteRight, StartRight, Fails, NoWrite
<1>3. QueueBounded'
  BY DEF SinkInv, QueueBounded, Fails, NoWrite
<1>4. InOrder' /\ LostOnlyWhenGone' /\ ModeAsAsked'
  BY DEF SinkInv, InOrder, LostOnlyWhenGone, ModeAsAsked, Fails, Endings
<1>5. QED
  BY <1>1, <1>2, <1>3, <1>4 DEF SinkInv

LEMMA OpenKeeps == ASSUME SinkInv, open PROVE SinkInv'
<1>1. sink = "none" /\ UNCHANGED <<wanted, queue, event, device, writer, given, played>>
  BY DEF open
<1>2. queue = <<>> /\ given = 0 /\ writer.at = "out" /\ stream = NoStream
  BY <1>1 DEF SinkInv, StartRight, WriteRight, SinkTypeOK
<1>3. CASE sink' = (IF device = "gone" THEN "DeviceLost" ELSE "StreamInit") /\ UNCHANGED stream
  <2>1. SinkTypeOK' /\ WriteRight' /\ StartRight'
    BY <1>1, <1>2, <1>3 DEF SinkInv, SinkTypeOK, WriteRight, StartRight, Endings
  <2>2. QueueBounded'
    BY <1>1, <1>3 DEF SinkInv, QueueBounded
  <2>3. InOrder' /\ LostOnlyWhenGone' /\ ModeAsAsked'
    BY <1>1, <1>3 DEF SinkInv, InOrder, LostOnlyWhenGone, ModeAsAsked, Endings
  <2>4. QED
    BY <2>1, <2>2, <2>3 DEF SinkInv
<1>4. ASSUME NEW s \in Devices, NEW q \in QueuePeriods, s.exclusive => wanted, Opens(s, q) PROVE SinkInv'
  <2>1. /\ sink' = "open"
        /\ stream' = [ exclusive |-> s.exclusive, period |-> s.period, buffer |-> s.buffer,
                       limit |-> device_queue_limit(s.period, s.buffer, q) ]
    BY <1>4 DEF Opens
  <2>2. s.exclusive \in BOOLEAN /\ s.period \in Nat /\ s.buffer \in Nat
    BY SinkAssumption
  <2>3. device_queue_limit(s.period, s.buffer, q) \in Nat
        /\ device_queue_limit(s.period, s.buffer, q) <= Max({1, s.buffer})
    BY QueueLimit
  <2>4. /\ stream' \in [exclusive : BOOLEAN, period : Nat, buffer : Nat, limit : Nat]
        /\ stream'.limit \in Nat /\ stream'.limit <= Max({1, stream'.buffer}) /\ stream'.exclusive = s.exclusive
    BY <2>1, <2>2, <2>3
  <2>5. SinkTypeOK'
    BY <1>1, <2>1, <2>4 DEF SinkInv, SinkTypeOK
  <2>6. WriteRight' /\ StartRight'
    BY <1>1, <1>2, <2>1 DEF SinkInv, WriteRight, StartRight
  <2>7. QueueBounded'
    BY <1>1, <1>2, <2>4 DEF QueueBounded
  <2>8. Handled' = Handled
    BY <1>1 DEF Handled
  <2>9. InOrder'
    BY <1>1, <2>8, OrderKept DEF Endings
  <2>10. LostOnlyWhenGone' /\ ModeAsAsked'
    BY <1>1, <1>4, <2>1, <2>4 DEF LostOnlyWhenGone, ModeAsAsked
  <2>11. QED
    BY <2>5, <2>6, <2>7, <2>9, <2>10 DEF SinkInv
<1>5. QED
  BY <1>3, <1>4 DEF open

LEMMA PrefillKeeps == ASSUME SinkInv, prefill_silence PROVE SinkInv'
<1>1. sink = "open" /\ UNCHANGED <<stream, wanted, event, device, writer, given, played>>
  BY DEF prefill_silence
<1>2. queue = <<>> /\ given = 0 /\ played = 0 /\ writer.at = "out" /\ Len(queue) = 0
  BY <1>1 DEF SinkInv, StartRight, WriteRight, SinkTypeOK
<1>3. CASE device = "gone" /\ sink' = "DeviceLost" /\ UNCHANGED queue
  <2>1. SinkTypeOK' /\ WriteRight' /\ StartRight'
    BY <1>1, <1>2, <1>3 DEF SinkInv, SinkTypeOK, WriteRight, StartRight, Endings
  <2>2. QueueBounded'
    BY <1>1, <1>3 DEF SinkInv, QueueBounded
  <2>3. InOrder' /\ LostOnlyWhenGone' /\ ModeAsAsked'
    BY <1>1, <1>3 DEF SinkInv, InOrder, LostOnlyWhenGone, ModeAsAsked, Endings
  <2>4. QED
    BY <2>1, <2>2, <2>3 DEF SinkInv
<1>4. CASE queue' = queue \o [i \in 1..Room |-> 0] /\ sink' = "filled"
  <2>1. Room \in Nat /\ Room = stream.limit
    BY <1>2, RoomIs DEF SinkInv, QueueBounded, SinkTypeOK
  <2> DEFINE silence == [i \in 1..Room |-> 0]
  <2>2. silence \in Seq(Nat) /\ Len(silence) = Room /\ \A i \in 1..Room : silence[i] = 0
    BY <2>1
  <2> HIDE DEF silence
  <2>3. queue \in Seq(Nat)
    BY DEF SinkInv, SinkTypeOK
  <2>4. queue' \in Seq(Nat) /\ Len(queue') = Room /\ \A i \in 1..Len(queue') : queue'[i] = 0
    BY <1>2, <1>4, <2>1, <2>2, <2>3 DEF silence
  <2>5. SinkTypeOK'
    BY <1>1, <1>4, <2>4 DEF SinkInv, SinkTypeOK
  <2>6. WriteRight' /\ StartRight'
    BY <1>1, <1>2, <1>4 DEF SinkInv, WriteRight, StartRight
  <2>7. QueueBounded'
    BY <1>1, <1>2, <2>1, <2>4 DEF SinkInv, QueueBounded, SinkTypeOK
  <2>8. \E k \in 0..Len(queue') :
            /\ \A i \in 1..Len(queue') : queue'[i] = IF i <= k THEN 0 ELSE played' + i - k
            /\ played' + Len(queue') - k = given'
    <3>1. Room \in 0..Len(queue') /\ played' = 0 /\ given' = 0
      BY <1>1, <1>2, <2>1, <2>4
    <3>2. \A i \in 1..Len(queue') : queue'[i] = IF i <= Room THEN 0 ELSE played' + i - Room
      BY <2>1, <2>4
    <3>3. played' + Len(queue') - Room = given'
      BY <2>1, <2>4, <3>1
    <3>4. QED
      BY <3>1, <3>2, <3>3
  <2>9. InOrder'
    BY <1>1, <1>2, <2>8 DEF InOrder
  <2>10. LostOnlyWhenGone' /\ ModeAsAsked'
    BY <1>1, <1>4 DEF SinkInv, LostOnlyWhenGone, ModeAsAsked
  <2>11. QED
    BY <2>5, <2>6, <2>7, <2>9, <2>10 DEF SinkInv
<1>5. QED
  BY <1>3, <1>4 DEF prefill_silence

(* A step of the sink's or the device's own state alone.                   *)
LEMMA StateKeeps ==
    ASSUME SinkInv, UNCHANGED <<stream, wanted, queue, event, writer, given, played>>,
           /\ sink' \in {"none", "open", "filled", "running", "stopped"} \union Endings
           /\ device' \in {"well", "stuck", "gone"}
           /\ sink' # sink => sink \in {"filled", "running"} /\ writer.at = "out" /\ sink' \notin {"none", "open", "filled"}
           /\ sink' = "DeviceLost" => device' # "well"
    PROVE  SinkInv'
<1>1. SinkTypeOK'
  BY DEF SinkInv, SinkTypeOK
<1>2. WriteRight' /\ StartRight'
  BY DEF SinkInv, WriteRight, StartRight
<1>3. QueueBounded' /\ LostOnlyWhenGone' /\ ModeAsAsked'
  BY DEF SinkInv, QueueBounded, LostOnlyWhenGone, ModeAsAsked
<1>4. Handled' = Handled
  BY DEF Handled
<1>5. InOrder'
  BY <1>4, OrderKept DEF Endings
<1>6. QED
  BY <1>1, <1>2, <1>3, <1>5 DEF SinkInv

LEMMA WriteBeginKeeps == ASSUME SinkInv, WriteBegin PROVE SinkInv'
<1>1. sink = "running" /\ writer.at = "out" /\ UNCHANGED <<sink, stream, wanted, queue, event, device, played>>
  BY DEF WriteBegin
<1>2. PICK n \in Writes :
        /\ given + n <= MaxFrames /\ given' = given + n
        /\ writer' = [ at |-> "look", from |-> given + 1, to |-> given + n, padding |-> 0 ]
  BY DEF WriteBegin
<1>3. n \in Nat /\ n >= 1 /\ MaxFrames \in Nat /\ given \in Nat /\ played \in Nat /\ played <= given
  BY SinkAssumption DEF SinkInv, SinkTypeOK
<1>4. /\ writer'.at = "look" /\ writer'.from = given + 1 /\ writer'.to = given'
      /\ writer' \in [at : {"out", "look", "wait", "put"}, from : Nat, to : Nat, padding : Nat]
  BY <1>2, <1>3
<1>5. played' \in 0..given' /\ given' \in 0..MaxFrames
  BY <1>1, <1>2, <1>3
<1>6. SinkTypeOK'
  BY <1>1, <1>4, <1>5 DEF SinkInv, SinkTypeOK
<1>7. WriteRight' /\ StartRight'
  BY <1>1, <1>2, <1>3, <1>4 DEF WriteRight, StartRight
<1>8. QueueBounded' /\ LostOnlyWhenGone' /\ ModeAsAsked'
  BY <1>1, <1>4 DEF SinkInv, QueueBounded, LostOnlyWhenGone, ModeAsAsked
<1>9. Handled' = Handled
  BY <1>1, <1>3, <1>4 DEF Handled
<1>10. InOrder'
  BY <1>1, <1>9, OrderKept
<1>11. QED
  BY <1>6, <1>7, <1>8, <1>10 DEF SinkInv

(* The writer goes on to another step of the same write.                   *)
LEMMA WriterMoves ==
    ASSUME SinkInv, UNCHANGED <<sink, stream, wanted, queue, device, given, played>>, event' \in BOOLEAN,
           writer.at # "out", NEW to \in {"look", "wait", "put"}, NEW padding \in Nat,
           writer' = [writer EXCEPT !.padding = padding, !.at = to],
           to = "put" => Len(queue) <= padding /\ padding < stream.limit
    PROVE  SinkInv'
<1>1. /\ writer' \in [at : {"out", "look", "wait", "put"}, from : Nat, to : Nat, padding : Nat]
      /\ writer'.at = to /\ writer'.from = writer.from /\ writer'.to = writer.to /\ writer'.padding = padding
  BY DEF SinkInv, SinkTypeOK
<1>2. SinkTypeOK'
  BY <1>1 DEF SinkInv, SinkTypeOK
<1>3. WriteRight' /\ StartRight'
  BY <1>1 DEF SinkInv, WriteRight, StartRight
<1>4. QueueBounded'
  <2>1. Len(queue) \in Nat /\ stream.limit \in Nat
    BY DEF SinkInv, SinkTypeOK
  <2>2. QED
    BY <1>1, <2>1 DEF SinkInv, QueueBounded
<1>5. LostOnlyWhenGone' /\ ModeAsAsked'
  BY DEF SinkInv, LostOnlyWhenGone, ModeAsAsked
<1>6. Handled' = Handled
  BY <1>1 DEF Handled
<1>7. InOrder'
  BY <1>6, OrderKept
<1>8. QED
  BY <1>2, <1>3, <1>4, <1>5, <1>7 DEF SinkInv

LEMMA LookKeeps == ASSUME SinkInv, Look PROVE SinkInv'
<1>1. writer.at = "look" /\ UNCHANGED <<stream, wanted, queue, event, device, given, played>>
  BY DEF Look
<1>2. CASE device = "gone" /\ Fails
  BY <1>1, <1>2, FailsKeeps
<1>3. CASE /\ writer' = [writer EXCEPT !.padding = Len(queue), !.at = IF Room = 0 THEN "wait" ELSE "put"]
           /\ UNCHANGED sink
  <2>1. Len(queue) \in Nat /\ stream.limit \in Nat /\ event \in BOOLEAN
    BY DEF SinkInv, SinkTypeOK
  <2>2. Room = stream.limit - Len(queue) /\ Room \in Nat
    BY RoomIs DEF SinkInv, QueueBounded
  <2>3. Room # 0 => Len(queue) < stream.limit
    BY <2>1, <2>2
  <2>4. CASE Room = 0
    <3>1. writer' = [writer EXCEPT !.padding = Len(queue), !.at = "wait"]
      BY <1>3, <2>4
    <3>2. QED
      BY <1>1, <1>3, <2>1, <3>1, WriterMoves
  <2>5. CASE Room # 0
    <3>1. writer' = [writer EXCEPT !.padding = Len(queue), !.at = "put"]
      BY <1>3, <2>5
    <3>2. Len(queue) <= Len(queue) /\ Len(queue) < stream.limit
      BY <2>1, <2>3, <2>5
    <3>3. UNCHANGED <<sink, stream, wanted, queue, device, given, played>> /\ event' \in BOOLEAN
      BY <1>1, <1>3, <2>1
    <3>4. QED
      BY <1>1, <2>1, <3>1, <3>2, <3>3, WriterMoves
  <2>6. QED
    BY <2>4, <2>5
<1>4. QED
  BY <1>2, <1>3 DEF Look

LEMMA WaitKeeps == ASSUME SinkInv, Wait PROVE SinkInv'
<1>1. /\ writer.at = "wait" /\ event' = FALSE /\ writer' = [writer EXCEPT !.at = "look"]
      /\ UNCHANGED <<sink, stream, wanted, queue, device, given, played>>
  BY DEF Wait
<1>2. writer.padding \in Nat /\ writer' = [writer EXCEPT !.padding = writer.padding, !.at = "look"]
  BY <1>1 DEF SinkInv, SinkTypeOK
<1>3. QED
  BY <1>1, <1>2, WriterMoves

(* No wait overlooks an event: a write only waits while the sink runs, so  *)
(* that the time that is up is a stuck device's.                           *)
LEMMA TimesOutKeeps == ASSUME SinkInv, TimesOut PROVE SinkInv'
<1>1. sink = "running"
  BY DEF TimesOut, SinkInv, WriteRight
<1>2. QED
  BY <1>1, FailsKeeps DEF TimesOut

LEMMA PutKeeps == ASSUME SinkInv, Put PROVE SinkInv'
<1> DEFINE n == Min({ stream.limit - writer.padding, writer.to - writer.from + 1 })
           last == writer.from + n - 1
           frames == [i \in 1..n |-> writer.from + i - 1]
<1>1. writer.at = "put" /\ UNCHANGED <<stream, wanted, event, device, given, played>>
  BY DEF Put
<1>2. CASE device = "gone" /\ Fails /\ UNCHANGED queue
  BY <1>1, <1>2, FailsKeeps
<1>3. CASE /\ queue' = queue \o frames /\ UNCHANGED sink
           /\ writer' = IF last = writer.to THEN NoWrite ELSE [writer EXCEPT !.from = last + 1, !.at = "look"]
  <2>1. /\ writer.from \in Nat /\ writer.to \in Nat /\ writer.padding \in Nat /\ stream.limit \in Nat
        /\ given \in Nat /\ played \in Nat /\ queue \in Seq(Nat) /\ Len(queue) \in Nat
    BY DEF SinkInv, SinkTypeOK
  <2>2. /\ sink = "running" /\ 1 <= writer.from /\ writer.from <= writer.to /\ writer.to = given
        /\ Len(queue) <= writer.padding /\ writer.padding < stream.limit
    BY <1>1 DEF SinkInv, WriteRight
  <2>3. n = IF stream.limit - writer.padding <= writer.to - writer.from + 1
            THEN stream.limit - writer.padding ELSE writer.to - writer.from + 1
    BY <2>1, SmallerOfTwo
  <2> HIDE DEF n
  <2>4. n \in Nat /\ n \in Int /\ n >= 1 /\ n <= stream.limit - writer.padding /\ writer.from + n - 1 <= writer.to
    BY <2>1, <2>2, <2>3
  <2>5. frames \in Seq(Nat) /\ Len(frames) = n /\ \A i \in 1..n : frames[i] = writer.from + i - 1
    BY <2>1, <2>2, <2>4
  <2> HIDE DEF frames
  <2>6. /\ queue' \in Seq(Nat) /\ Len(queue') = Len(queue) + n
        /\ \A i \in 1..Len(queue') : queue'[i] = IF i <= Len(queue) THEN queue[i] ELSE writer.from + (i - Len(queue)) - 1
    <3>1. queue' \in Seq(Nat) /\ Len(queue') = Len(queue) + n
      <4>1. PICK f \in Seq(Nat) : f = frames
        BY <2>5
      <4>2. queue' = queue \o f /\ Len(f) = n
        BY <1>3, <2>5, <4>1
      <4>3. queue \o f \in Seq(Nat) /\ Len(queue \o f) = Len(queue) + Len(f)
        BY <2>1
      <4>4. QED
        BY <4>2, <4>3
    <3>2. ASSUME NEW i \in 1..Len(queue')
          PROVE  queue'[i] = IF i <= Len(queue) THEN queue[i] ELSE writer.from + (i - Len(queue)) - 1
      <4>1. i \in 1..(Len(queue) + Len(frames))
        BY <2>5, <3>1, <3>2
      <4>2. queue'[i] = IF i <= Len(queue) THEN queue[i] ELSE frames[i - Len(queue)]
        BY <1>3, <2>1, <2>5, <4>1
      <4>3. ~(i <= Len(queue)) => i - Len(queue) \in 1..n
        BY <2>1, <2>4, <2>5, <4>1
      <4>4. QED
        BY <2>5, <4>2, <4>3
    <3>3. QED
      BY <3>1, <3>2
  <2>7. /\ writer' \in [at : {"out", "look", "wait", "put"}, from : Nat, to : Nat, padding : Nat]
        /\ writer'.at \in {"out", "look"}
        /\ writer'.at = "out" => writer.from + n - 1 = given
        /\ writer'.at = "look" => writer'.from = writer.from + n /\ writer'.to = given /\ writer'.from <= given
    <3>1. CASE last = writer.to
      BY <1>3, <2>1, <2>2, <2>4, <3>1 DEF NoWrite
    <3>2. CASE last # writer.to
      <4>1. writer' = [writer EXCEPT !.from = last + 1, !.at = "look"] /\ last + 1 = writer.from + n /\ last + 1 \in Nat
        BY <1>3, <2>1, <2>4, <3>2
      <4>2. /\ writer'.from = writer.from + n /\ writer'.to = writer.to /\ writer'.at = "look"
            /\ writer' \in [at : {"out", "look", "wait", "put"}, from : Nat, to : Nat, padding : Nat]
        BY <4>1 DEF SinkInv, SinkTypeOK
      <4>3. writer.from + n <= writer.to
        <5>1. writer.from + n - 1 # writer.to
          BY <3>2
        <5>2. writer.from \in Int /\ writer.to \in Int /\ n \in Int /\ writer.from + n - 1 <= writer.to
          BY <2>1, <2>4
        <5>3. QED
          BY <5>1, <5>2
      <4>4. QED
        BY <2>2, <4>2, <4>3
    <3>3. QED
      BY <3>1, <3>2
  <2>8. SinkTypeOK'
    BY <1>1, <1>3, <2>6, <2>7 DEF SinkInv, SinkTypeOK
  <2>9. WriteRight' /\ StartRight'
    BY <1>1, <1>3, <2>1, <2>2, <2>4, <2>7 DEF WriteRight, StartRight
  <2>10. QueueBounded'
    <3>1. Len(queue') <= stream.limit
      BY <2>1, <2>2, <2>4, <2>6
    <3>2. QED
      BY <1>1, <2>7, <3>1 DEF SinkInv, QueueBounded
  <2>11. Handled = writer.from - 1 /\ Handled' = writer.from + n - 1
    BY <1>1, <2>1, <2>4, <2>7 DEF Handled
  <2>12. InOrder'
    <3>1. PICK k \in 0..Len(queue) : Sounding(k)
      BY <2>2, InOrderIs DEF SinkInv, Endings
    <3>2. played + Len(queue) - k = writer.from - 1
      BY <2>11, <3>1 DEF Sounding
    <3>3. k \in 0..Len(queue')
      BY <2>1, <2>4, <2>6
    <3>4. ASSUME NEW i \in 1..Len(queue') PROVE queue'[i] = IF i <= k THEN 0 ELSE played' + i - k
      <4>1. i \in Int /\ 1 <= i /\ k \in Int /\ k <= Len(queue)
        BY <2>1, <2>6
      <4>2. CASE i <= Len(queue)
        <5>1. i \in 1..Len(queue)
          BY <2>1, <4>1, <4>2
        <5>2. queue[i] = IF i <= k THEN 0 ELSE played + i - k
          BY <3>1, <5>1 DEF Sounding
        <5>3. QED
          BY <1>1, <2>6, <4>2, <5>2
      <4>3. CASE ~(i <= Len(queue))
        <5>1. queue'[i] = writer.from + (i - Len(queue)) - 1
          BY <2>6, <4>3
        <5>2. writer.from + (i - Len(queue)) - 1 = played + i - k /\ ~(i <= k)
          <6>1. played \in Int /\ Len(queue) \in Int /\ writer.from \in Int
            BY <2>1
          <6>2. QED
            BY <3>2, <4>1, <4>3, <6>1
        <5>3. QED
          BY <1>1, <5>1, <5>2
      <4>4. QED
        BY <4>2, <4>3
    <3>5. played' + Len(queue') - k = Handled'
      <4>1. played' = played /\ Len(queue') = Len(queue) + n /\ Handled' = writer.from + n - 1
        BY <1>1, <2>6, <2>11
      <4>2. played + (Len(queue) + n) - k = writer.from + n - 1
        <5>1. k \in Int
          BY <2>1
        <5>2. played \in Int /\ Len(queue) \in Int /\ writer.from \in Int /\ n \in Int
          BY <2>1, <2>4
        <5>3. QED
          BY <3>2, <5>1, <5>2
      <4>3. QED
        BY <4>1, <4>2
    <3>6. \E j \in 0..Len(queue') : Sounding(j)'
      BY <3>3, <3>4, <3>5 DEF Sounding
    <3>7. QED
      BY <3>6 DEF InOrder, Sounding, Handled
  <2>13. LostOnlyWhenGone' /\ ModeAsAsked'
    BY <1>1, <1>3 DEF SinkInv, LostOnlyWhenGone, ModeAsAsked
  <2>14. QED
    BY <2>8, <2>9, <2>10, <2>12, <2>13 DEF SinkInv
<1>4. QED
  BY <1>2, <1>3 DEF Put

(* A device plays silence first, then the frames in order.                 *)
LEMMA DevicePlaysKeeps == ASSUME SinkInv, DevicePlays PROVE SinkInv'
<1> DEFINE n == Min({stream.period, Len(queue)})
           heard == { queue[i] : i \in 1..n }
<1>1. /\ sink = "running" /\ event' = TRUE /\ UNCHANGED <<sink, stream, wanted, device, writer, given>>
      /\ queue' = SubSeq(queue, n + 1, Len(queue)) /\ played' = Max({played} \union heard)
  BY DEF DevicePlays
<1>2. /\ stream.period \in Nat /\ stream.limit \in Nat /\ queue \in Seq(Nat) /\ Len(queue) \in Nat
      /\ played \in Nat /\ given \in Nat /\ played <= given /\ writer.from \in Nat /\ writer.padding \in Nat
  BY DEF SinkInv, SinkTypeOK
<1>3. n \in Nat /\ n <= Len(queue)
  BY <1>2, SmallerOfTwo
<1> HIDE DEF n
<1>4. /\ queue' \in Seq(Nat) /\ Len(queue') = Len(queue) - n
      /\ \A i \in 1..Len(queue') : queue'[i] = queue[i + n]
  <2>1. queue' \in Seq(Nat) /\ Len(queue') = Len(queue) - n
    BY <1>1, <1>2, <1>3
  <2>2. ASSUME NEW i \in 1..Len(queue') PROVE queue'[i] = queue[i + n]
    <3>1. i \in 1..((Len(queue) - (n + 1)) + 1)
      BY <1>2, <1>3, <2>1
    <3>2. queue'[i] = queue[(n + 1) + i - 1]
      BY <1>1, <1>2, <1>3, <2>1, <3>1
    <3>3. (n + 1) + i - 1 = i + n
      BY <1>3, <3>1
    <3>4. QED
      BY <3>2, <3>3
  <2>3. QED
    BY <2>1, <2>2
<1>5. PICK k \in 0..Len(queue) : Sounding(k)
  BY <1>1, InOrderIs DEF SinkInv, Endings
<1>6. played + Len(queue) - k = Handled /\ Handled \in Int /\ Handled <= given
  BY <1>2, <1>5 DEF Sounding, Handled, SinkInv, WriteRight, SinkTypeOK
<1>7. ASSUME NEW i \in 1..Len(queue) PROVE queue[i] = IF i <= k THEN 0 ELSE played + i - k
  BY <1>5 DEF Sounding
<1> DEFINE top == IF n <= k THEN played ELSE played + n - k
<1>8. played' = top /\ top \in Nat
  <2>1. k \in Int /\ k >= 0
    BY <1>2
  <2>2. top \in Nat
    BY <1>2, <1>3, <2>1
  <2>3. ASSUME NEW y \in {played} \union heard PROVE y \in Int /\ y <= top
    <3>1. CASE y = played
      BY <1>2, <1>3, <2>1, <3>1
    <3>2. ASSUME NEW i \in 1..n, y = queue[i] PROVE y \in Int /\ y <= top
      <4>1. i \in 1..Len(queue) /\ i \in Int /\ i <= n
        BY <1>2, <1>3
      <4>2. y = IF i <= k THEN 0 ELSE played + i - k
        BY <1>7, <3>2, <4>1
      <4>3. QED
        BY <1>2, <1>3, <2>1, <4>1, <4>2
    <3>3. QED
      BY <2>3, <3>1, <3>2
  <2>4. top \in {played} \union heard
    <3>1. CASE n <= k
      BY <3>1
    <3>2. CASE ~(n <= k)
      <4>1. n \in 1..n /\ n \in 1..Len(queue)
        BY <1>2, <1>3, <2>1, <3>2
      <4>2. queue[n] = played + n - k
        BY <1>7, <3>2, <4>1
      <4>3. QED
        BY <3>2, <4>1, <4>2
    <3>3. QED
      BY <3>1, <3>2
  <2> HIDE DEF top, heard
  <2>5. \E x \in {played} \union heard : \A y \in {played} \union heard : x >= y
    BY <2>2, <2>3, <2>4
  <2>6. /\ Max({played} \union heard) \in {played} \union heard
        /\ \A y \in {played} \union heard : Max({played} \union heard) >= y
    BY <2>5 DEF Max
  <2>7. Max({played} \union heard) = top
    <3>1. PICK x : x = Max({played} \union heard)
      OBVIOUS
    <3>2. x \in {played} \union heard /\ x >= top
      BY <2>4, <2>6, <3>1
    <3>3. x \in Int /\ x <= top
      BY <2>3, <3>2
    <3>4. QED
      BY <2>2, <3>1, <3>2, <3>3
  <2>8. QED
    BY <1>1, <2>2, <2>7
<1>9. top <= given
  BY <1>2, <1>3, <1>6
<1>10. SinkTypeOK'
  <2>1. played' \in 0..given'
    BY <1>1, <1>2, <1>8, <1>9
  <2>2. QED
    BY <1>1, <1>4, <2>1 DEF SinkInv, SinkTypeOK
<1>11. Len(queue') <= Len(queue)
  BY <1>2, <1>3, <1>4
<1>12. WriteRight' /\ StartRight'
  BY <1>1, <1>2, <1>4, <1>11 DEF SinkInv, WriteRight, StartRight
<1>13. QueueBounded'
  <2>1. Len(queue') \in Nat
    BY <1>4
  <2>2. Len(queue') <= stream.limit
    BY <1>2, <1>11, <2>1 DEF SinkInv, QueueBounded
  <2>3. writer.at = "put" => stream.limit - writer.padding \in 1..(stream.limit - Len(queue'))
    BY <1>2, <1>11, <2>1 DEF SinkInv, WriteRight
  <2>4. QED
    BY <1>1, <2>2, <2>3 DEF SinkInv, QueueBounded
<1>14. InOrder'
  <2>1. Handled' = Handled
    BY <1>1 DEF Handled
  <2> DEFINE j == IF n <= k THEN k - n ELSE 0
  <2>2. j \in 0..Len(queue')
    BY <1>2, <1>3, <1>4
  <2>3. ASSUME NEW i \in 1..Len(queue') PROVE queue'[i] = IF i <= j THEN 0 ELSE played' + i - j
    <3>1. i + n \in 1..Len(queue) /\ i \in Int
      <4>1. i \in Int /\ n \in Int /\ Len(queue) \in Int /\ n >= 0 /\ Len(queue') = Len(queue) - n
        BY <1>2, <1>3, <1>4
      <4>2. 1 <= i /\ i <= Len(queue) - n
        BY <4>1
      <4>3. QED
        BY <4>1, <4>2
    <3>2. queue'[i] = IF i + n <= k THEN 0 ELSE played + (i + n) - k
      BY <1>4, <1>7, <3>1
    <3>3. QED
      BY <1>2, <1>3, <1>8, <3>1, <3>2
  <2>4. played' + Len(queue') - j = Handled'
    <3>1. Len(queue') = Len(queue) - n /\ Handled' = played + Len(queue) - k /\ k \in Int
      BY <1>2, <1>4, <1>6, <2>1
    <3>2. CASE n <= k
      <4>1. played' = played /\ j = k - n
        BY <1>8, <3>2
      <4>2. played + (Len(queue) - n) - (k - n) = played + Len(queue) - k
        BY <1>2, <1>3, <3>1
      <4>3. QED
        BY <3>1, <4>1, <4>2
    <3>3. CASE ~(n <= k)
      <4>1. played' = played + n - k /\ j = 0
        BY <1>8, <3>3
      <4>2. (played + n - k) + (Len(queue) - n) - 0 = played + Len(queue) - k
        BY <1>2, <1>3, <3>1
      <4>3. QED
        BY <3>1, <4>1, <4>2
    <3>4. QED
      BY <3>2, <3>3
  <2> HIDE DEF j
  <2>5. \E m \in 0..Len(queue') : Sounding(m)'
    BY <2>2, <2>3, <2>4 DEF Sounding
  <2>6. QED
    BY <2>5 DEF InOrder, Sounding, Handled
<1>15. LostOnlyWhenGone' /\ ModeAsAsked'
  BY <1>1 DEF SinkInv, LostOnlyWhenGone, ModeAsAsked
<1>16. QED
  BY <1>10, <1>12, <1>13, <1>14, <1>15 DEF SinkInv

LEMMA SinkStep == ASSUME SinkInv, [SinkNext]_sink_vars PROVE SinkInv'
<1>1. CASE start \/ stop \/ DeviceStops \/ UNCHANGED sink_vars
  <2>1. /\ sink \in {"none", "open", "filled", "running", "stopped"} \union Endings
        /\ device \in {"well", "stuck", "gone"}
        /\ writer.at # "out" => sink = "running"
        /\ sink = "DeviceLost" => device # "well"
    BY DEF SinkInv, SinkTypeOK, WriteRight, LostOnlyWhenGone
  <2>2. CASE start
    <3>1. /\ UNCHANGED <<stream, wanted, queue, event, device, writer, given, played>> /\ sink = "filled"
          /\ sink' \in {"none", "open", "filled", "running", "stopped"} \union Endings
          /\ sink' \notin {"none", "open", "filled"} /\ device' = device
          /\ sink' = "DeviceLost" => device' # "well"
      BY <2>2 DEF start, Endings
    <3>2. device' \in {"well", "stuck", "gone"} /\ writer.at = "out"
      BY <2>1, <3>1
    <3>3. QED
      BY <3>1, <3>2, StateKeeps
  <2>3. CASE stop
    <3>1. /\ UNCHANGED <<stream, wanted, queue, event, device, writer, given, played>>
          /\ sink = "running" /\ sink' = "stopped" /\ writer.at = "out" /\ device' = device
      BY <2>3 DEF stop
    <3>2. QED
      BY <2>1, <3>1, StateKeeps DEF Endings
  <2>4. CASE DeviceStops
    BY <2>1, <2>4, StateKeeps DEF DeviceStops
  <2>5. CASE UNCHANGED sink_vars
    <3>1. UNCHANGED <<sink, stream, wanted, queue, event, device, writer, given, played>>
      BY <2>5 DEF sink_vars
    <3>2. QED
      BY <2>1, <3>1, StateKeeps
  <2>6. QED
    BY <1>1, <2>2, <2>3, <2>4, <2>5
<1>2. QED
  BY <1>1, OpenKeeps, PrefillKeeps, LookKeeps, WaitKeeps, TimesOutKeeps, PutKeeps, WriteBeginKeeps,
     DevicePlaysKeeps DEF SinkNext, Step

(* For every layout that is accepted, a sample written has the size of the *)
(* device's samples (parse_format and write_samples).                      *)
LEMMA SamplesDoFit == SamplesFit
<1> SUFFICES ASSUME NEW l \in Layouts, parse_format(l) # "UnsupportedFormat", IsFloat(l) => l.bits = 32
             PROVE  8 * bytes(parse_format(l)) = l.bits
  BY DEF SamplesFit
<1>1. l.bits \in {8, 16, 24, 32}
  BY DEF Layouts
<1>2. CASE IsFloat(l)
  <2>1. parse_format(l) = "F32" /\ l.bits = 32
    BY <1>2 DEF parse_format
  <2>2. QED
    BY <2>1 DEF bytes
<1>3. CASE ~IsFloat(l)
  <2>1. parse_format(l) = int_format(l.bits)
    BY <1>3 DEF parse_format
  <2>2. \/ l.bits = 16 /\ parse_format(l) = "I16"
        \/ l.bits = 32 /\ parse_format(l) = "I32"
    BY <1>1, <2>1 DEF int_format
  <2>3. QED
    BY <2>2 DEF bytes
<1>4. QED
  BY <1>2, <1>3

(* For any devices, periods and writes, wherever the device stops: every   *)
(* frame handed over is played once and in order, the queue keeps its      *)
(* bound although the device plays between the look and the put, and a     *)
(* loss is a device's that has stopped (render.rs, wasapi.rs).             *)
THEOREM SinkIsSound == SinkSpec => []SinkSound
<1>1. SinkInv => SinkSound
  BY SamplesDoFit DEF SinkInv, SinkSound
<1>2. SinkInv /\ [SinkNext]_sink_vars => SinkInv'
  BY SinkStep
<1>3. QED
  BY <1>1, <1>2, SinkStarts, PTL DEF SinkSpec

-----------------------------------------------------------------------------
(* The bridge                                                              *)

Whole(n) == n \in Nat /\ n % Channels = 0

SlotAt(p, i) == SlotOf(Advance(p, i))

(* What each call has measured and how far it has got.  An index only ever *)
(* moves by whole frames.                                                  *)
Bounds ==
    /\ Whole(Fill) /\ Whole(room) /\ Whole(take)
    /\ Fill <= Slots
    /\ pPc = "fill" => room <= FreeSlots /\ room <= block /\ written <= room
    /\ pPc = "record" => Whole(written) /\ written <= block
    /\ cPc \in {"copy", "discard"} => take <= Fill
    /\ cPc \in {"copy", "record"} => take <= want
    /\ cPc = "copy" => Len(out) <= take

(* The unread samples are whole frames, each newer than the one before and *)
(* older than the block being pushed.                                      *)
UnreadInOrder ==
    /\ \A i \in 0 .. Fill - 1 :
           LET s == slot[SlotAt(head, i)] IN
           s \in Samples /\ s.chan = i % Channels /\ s.frame < nextFrame
    /\ \A i \in 1 .. Fill - 1 :
           LET s == slot[SlotAt(head, i)]
               r == slot[SlotAt(head, i - 1)]
           IN  IF s.chan = 0 THEN s.frame > r.frame ELSE s.frame = r.frame

(* What the push call has copied is past the newest sample, in order.      *)
CopiedIn == pPc = "fill" => \A i \in 0 .. written - 1 : slot[SlotAt(tail, i)] = SampleAt(i)

(* What the pull call has copied are the oldest samples, in order.         *)
CopiedOut ==
    /\ cPc = "copy" => \A i \in 1 .. Len(out) : out[i] = slot[SlotAt(head, i - 1)]
    /\ cPc # "copy" => IsFrames(out)

RingInv == RingTypeOK /\ Bounds /\ UnreadInOrder /\ CopiedIn /\ CopiedOut /\ Conservation

-----------------------------------------------------------------------------
(* Arithmetic of whole frames.                                             *)

LEMMA DivMod ==
    ASSUME NEW n \in Nat, NEW c \in Nat \ {0}
    PROVE  n = c * (n \div c) + (n % c) /\ n \div c \in Nat /\ n % c \in 0 .. c - 1
BY Z3

LEMMA Distributes ==
    ASSUME NEW a \in Int, NEW b \in Int, NEW c \in Int
    PROVE  (a + b) * c = a * c + b * c /\ (a - b) * c = a * c - b * c
BY SMT

(* Whole frames in front of a sample shift its frame but not its channel.  *)
LEMMA Shift ==
    ASSUME NEW a \in Nat, NEW b \in Nat, NEW c \in Nat \ {0}, a % c = 0
    PROVE  (a + b) % c = b % c /\ (a + b) \div c = (a \div c) + (b \div c)
BY Z3

(* From a sample to the next either the channel goes up or the frame does. *)
LEMMA NextSample ==
    ASSUME NEW i \in Nat \ {0}, NEW c \in Nat \ {0}
    PROVE  i \div c = IF i % c = 0 THEN ((i - 1) \div c) + 1 ELSE (i - 1) \div c
BY Z3

LEMMA BlockCovers ==
    ASSUME NEW i \in Nat, NEW n \in Nat, i < n, NEW c \in Nat \ {0}
    PROVE  i \div c < (n + c - 1) \div c
BY Z3

LEMMA WholeFrames ==
    ASSUME RingParameters, NEW n \in Nat
    PROVE  Whole(whole_frames(n)) /\ whole_frames(n) <= n
BY Z3 DEF RingParameters, Whole, whole_frames

LEMMA WholeSum ==
    ASSUME RingParameters, NEW a, NEW b, Whole(a), Whole(b)
    PROVE  /\ Whole(a + b)
           /\ b <= a => Whole(a - b)
           /\ (a \div Channels) * Channels = a /\ a \div Channels \in Nat
           /\ (a + b) \div Channels = (a \div Channels) + (b \div Channels)
<1> USE DEF RingParameters, Whole
<1>1. Whole(a + b) /\ (a + b) \div Channels = (a \div Channels) + (b \div Channels)
  <2>1. a \in Nat /\ b \in Nat /\ Channels \in Nat \ {0} /\ a % Channels = 0 /\ b % Channels = 0
    OBVIOUS
  <2>2. (a + b) % Channels = b % Channels /\ (a + b) \div Channels = (a \div Channels) + (b \div Channels)
    BY <2>1, Shift
  <2>3. a + b \in Nat
    BY <2>1
  <2>4. QED
    BY <2>1, <2>2, <2>3
<1>2. (a \div Channels) * Channels = a /\ a \div Channels \in Nat
  BY DivMod, Z3
<1>3. ASSUME b <= a PROVE Whole(a - b)
  <2>1. a - b \in Nat
    BY <1>3
  <2>2. (b + (a - b)) % Channels = (a - b) % Channels
    BY <2>1, Shift
  <2>3. b + (a - b) = a
    BY Z3
  <2>4. QED
    BY <2>1, <2>2, <2>3
<1>4. QED
  BY <1>1, <1>2, <1>3

LEMMA WholeProduct ==
    ASSUME RingParameters, NEW k \in Nat
    PROVE  Whole(k * Channels)
BY Z3 DEF RingParameters, Whole

LEMMA SlotsWhole == ASSUME RingParameters PROVE Slots \in Nat \ {0} /\ Whole(Slots)
BY Z3 DEF RingParameters, Whole, Slots

-----------------------------------------------------------------------------
(* Indices and windows, for any number of slots.                           *)

LEMMA SlotAtType ==
    ASSUME Slots \in Nat \ {0}, NEW p \in Positions, NEW i \in 0 .. Slots - 1
    PROVE  SlotAt(p, i) \in 0 .. Slots - 1
BY SMT DEF SlotAt, SlotOf, Advance, Positions

LEMMA AdvanceTail ==
    ASSUME Slots \in Nat \ {0}, NEW p \in Positions, NEW q \in Positions, NEW n \in Nat,
           Distance(p, q) + n <= Slots
    PROVE  Advance(q, n) \in Positions /\ Distance(p, Advance(q, n)) = Distance(p, q) + n
BY SMT DEF Distance, Advance, Positions

LEMMA AdvanceHead ==
    ASSUME Slots \in Nat \ {0}, NEW p \in Positions, NEW q \in Positions, NEW n \in Nat,
           n <= Distance(p, q), Distance(p, q) <= Slots
    PROVE  Advance(p, n) \in Positions /\ Distance(Advance(p, n), q) = Distance(p, q) - n
BY SMT DEF Distance, Advance, Positions

(* Past the unread samples come the slots the push call fills.             *)
LEMMA PastUnread ==
    ASSUME Slots \in Nat \ {0}, NEW p \in Positions, NEW q \in Positions,
           NEW i \in Distance(p, q) .. Slots - 1
    PROVE  SlotAt(p, i) = SlotAt(q, i - Distance(p, q))
BY SMT DEF SlotAt, SlotOf, Distance, Advance, Positions

(* Sample i after n are gone is what sample n + i was.                     *)
LEMMA AfterGone ==
    ASSUME Slots \in Nat \ {0}, NEW p \in Positions, NEW n \in Nat, NEW i \in Nat, n + i < Slots
    PROVE  SlotAt(Advance(p, n), i) = SlotAt(p, n + i)
BY SMT DEF SlotAt, SlotOf, Advance, Positions

(* Two samples in the same window have two slots, and a slot that is free  *)
(* holds no unread sample.                                                 *)
LEMMA OwnSlot ==
    ASSUME Slots \in Nat \ {0}, NEW p \in Positions,
           NEW i \in 0 .. Slots - 1, NEW j \in 0 .. Slots - 1, i # j
    PROVE  SlotAt(p, i) # SlotAt(p, j)
BY SMT DEF SlotAt, SlotOf, Advance, Positions

LEMMA FreeIsNotUnread ==
    ASSUME Slots \in Nat \ {0}, NEW p \in Positions, NEW q \in Positions, Distance(p, q) <= Slots,
           NEW i \in 0 .. Distance(p, q) - 1, NEW j \in 0 .. (Slots - Distance(p, q)) - 1
    PROVE  SlotAt(q, j) # SlotAt(p, i)
BY SMT DEF SlotAt, SlotOf, Distance, Advance, Positions

LEMMA FillType ==
    ASSUME Slots \in Nat \ {0}, head \in Positions, tail \in Positions
    PROVE  Fill \in Nat
BY SMT DEF Fill, Distance, Positions

(* The counts are numbers, and so are the samples they stand for.          *)
LEMMA CountTypes ==
    ASSUME RingParameters, RingTypeOK
    PROVE  /\ bridge_stats = [k \in DOMAIN NoBridgeCounts |-> bridge_stats[k]]
           /\ DOMAIN NoBridgeCounts = {"frames_pushed", "push_events", "frames_pulled", "overrun_events",
                                 "underrun_events", "samples_dropped", "samples_zero_filled"}
           /\ \A k \in DOMAIN NoBridgeCounts : bridge_stats[k] \in Nat
           /\ bridge_stats.frames_pushed \in Nat /\ bridge_stats.frames_pushed * Channels \in Nat
           /\ bridge_stats.frames_pulled \in Nat /\ bridge_stats.frames_pulled * Channels \in Nat
           /\ discarded \in Nat /\ discarded * Channels \in Nat
<1>1. DOMAIN NoBridgeCounts = {"frames_pushed", "push_events", "frames_pulled", "overrun_events",
                         "underrun_events", "samples_dropped", "samples_zero_filled"}
  BY DEF NoBridgeCounts
<1>2. bridge_stats = [k \in DOMAIN NoBridgeCounts |-> bridge_stats[k]] /\ \A k \in DOMAIN NoBridgeCounts : bridge_stats[k] \in Nat
  BY DEF RingTypeOK
<1>3. bridge_stats.frames_pushed \in Nat /\ bridge_stats.frames_pulled \in Nat /\ discarded \in Nat
  BY <1>1, <1>2 DEF RingTypeOK
<1>4. \A n \in Nat : n * Channels \in Nat
  BY SMT DEF RingParameters
<1>5. QED
  BY <1>1, <1>2, <1>3, <1>4

LEMMA SampleType ==
    ASSUME RingParameters, nextFrame \in Nat, NEW i \in Nat
    PROVE  /\ SampleAt(i) \in Samples
           /\ SampleAt(i).chan = i % Channels
           /\ SampleAt(i).frame = nextFrame + (i \div Channels)
<1>1. i \div Channels \in Nat /\ i % Channels \in 0 .. Channels - 1
  BY DivMod DEF RingParameters
<1>2. QED
  BY <1>1 DEF SampleAt, Samples

-----------------------------------------------------------------------------
LEMMA RingStarts == ASSUME RingParameters, RingInit PROVE RingInv
<1>1. Slots \in Nat \ {0}
  BY SlotsWhole
<1>2. Fill = 0 /\ Whole(0)
  BY <1>1 DEF RingInit, Fill, Distance, Whole, RingParameters
<1>3. RingTypeOK
  BY <1>1 DEF RingInit, RingTypeOK, Positions, NoBridgeCounts
<1>4. Bounds /\ UnreadInOrder /\ CopiedIn /\ CopiedOut
  BY <1>1, <1>2 DEF RingInit, Bounds, UnreadInOrder, CopiedIn, CopiedOut, IsFrames, Whole
<1>5. Conservation
  BY <1>2 DEF RingInit, Conservation, NoBridgeCounts, RingParameters
<1>6. QED
  BY <1>3, <1>4, <1>5 DEF RingInv

(* A push call, step by step.                                              *)

LEMMA PushMeasureKeeps ==
    ASSUME RingParameters, RingInv, NEW len \in PushLens, PushMeasure(len)
    PROVE  RingInv'
<1> USE DEF RingInv, PushMeasure, consVars
<1>1. Fill \in Nat /\ FreeSlots \in Nat /\ len \in Nat
  BY SlotsWhole, FillType DEF Bounds, FreeSlots, RingTypeOK, RingParameters
<1>2. Whole(room') /\ room' <= len /\ room' <= FreeSlots
  <2>1. Lesser(len, FreeSlots) \in Nat /\ Lesser(len, FreeSlots) <= len /\ Lesser(len, FreeSlots) <= FreeSlots
    BY <1>1 DEF Lesser
  <2>2. QED
    BY <1>1, <2>1, WholeFrames, SMT DEF Whole
<1>3. RingTypeOK'
  BY <1>1, <1>2 DEF RingTypeOK, Whole
<1>4. Bounds'
  BY <1>1, <1>2 DEF Bounds, FreeSlots, Fill, Whole
<1>5. UnreadInOrder' /\ CopiedIn' /\ CopiedOut'
  BY DEF UnreadInOrder, CopiedIn, CopiedOut, Fill
<1>6. Conservation'
  BY DEF Conservation, Fill
<1>7. QED
  BY <1>3, <1>4, <1>5, <1>6

(* The slots a push call fills hold nothing unread.                        *)
LEMMA FillSparesUnread ==
    ASSUME RingParameters, RingInv, PushFill
    PROVE  \A i \in 0 .. Fill - 1 : slot'[SlotAt(head, i)] = slot[SlotAt(head, i)]
<1> USE DEF RingInv, PushFill
<1>1. /\ Slots \in Nat \ {0} /\ head \in Positions /\ tail \in Positions
      /\ Fill \in Nat /\ Fill <= Slots /\ written < Slots - Fill /\ written \in Nat
  BY SlotsWhole, FillType DEF Bounds, FreeSlots, RingTypeOK
<1> DEFINE here == SlotAt(tail, written)
<1>2. here \in 0 .. Slots - 1 /\ slot' = [slot EXCEPT ![here] = SampleAt(written)]
  BY <1>1, SlotAtType DEF SlotAt
<1> SUFFICES ASSUME NEW i \in 0 .. Fill - 1
             PROVE  slot'[SlotAt(head, i)] = slot[SlotAt(head, i)]
  OBVIOUS
<1>3. here # SlotAt(head, i)
  BY <1>1, FreeIsNotUnread DEF Fill
<1>4. SlotAt(head, i) \in 0 .. Slots - 1
  BY <1>1, SlotAtType
<1> HIDE DEF here
<1>5. QED
  BY <1>2, <1>3, <1>4 DEF RingTypeOK

LEMMA PushFillKeeps == ASSUME RingParameters, RingInv, PushFill PROVE RingInv'
<1> USE DEF RingInv, PushFill, consVars
<1>1. /\ Slots \in Nat \ {0} /\ head \in Positions /\ tail \in Positions
      /\ Fill \in Nat /\ Fill <= Slots /\ written < Slots - Fill /\ written \in Nat
  BY SlotsWhole, FillType DEF Bounds, FreeSlots, RingTypeOK
<1> DEFINE here == SlotAt(tail, written)
<1>2. here \in 0 .. Slots - 1 /\ slot' = [slot EXCEPT ![here] = SampleAt(written)]
  BY <1>1, SlotAtType DEF SlotAt
<1>3. SampleAt(written) \in Samples
  BY <1>1, SampleType DEF RingTypeOK
<1>4. \A i \in 0 .. Fill - 1 : slot'[SlotAt(head, i)] = slot[SlotAt(head, i)]
  BY FillSparesUnread
<1>5. \A i \in 0 .. written - 1 : slot'[SlotAt(tail, i)] = slot[SlotAt(tail, i)]
  <2> SUFFICES ASSUME NEW i \in 0 .. written - 1
               PROVE  slot'[SlotAt(tail, i)] = slot[SlotAt(tail, i)]
    OBVIOUS
  <2>1. here # SlotAt(tail, i)
    BY <1>1, OwnSlot
  <2>2. SlotAt(tail, i) \in 0 .. Slots - 1
    BY <1>1, SlotAtType
  <2> HIDE DEF here
  <2>3. QED
    BY <1>2, <2>1, <2>2 DEF RingTypeOK
<1>6. slot'[SlotAt(tail, written)] = SampleAt(written)
  BY <1>2 DEF RingTypeOK
<1>7. RingTypeOK'
  <2> HIDE DEF here
  <2>1. slot' \in [0 .. Slots - 1 -> Samples \cup {Unwritten}]
    BY <1>2, <1>3 DEF RingTypeOK
  <2>2. QED
    BY <2>1 DEF RingTypeOK
<1>8. Bounds'
  BY DEF Bounds, FreeSlots, Fill, RingTypeOK
<1>9. UnreadInOrder'
  <2>1. Fill' = Fill /\ head' = head /\ nextFrame' = nextFrame
    BY DEF Fill
  <2>2. QED
    BY <1>1, <1>4, <2>1 DEF UnreadInOrder
<1>10. CopiedIn'
  <2> SUFFICES ASSUME NEW i \in 0 .. written' - 1
               PROVE  slot'[SlotAt(tail, i)] = SampleAt(i)
    BY DEF CopiedIn, SampleAt
  <2>1. CASE i = written
    BY <2>1, <1>6
  <2>2. CASE i # written
    <3>1. i \in 0 .. written - 1
      BY <2>2, <1>1
    <3>2. QED
      BY <3>1, <1>5 DEF CopiedIn
  <2>3. QED
    BY <2>1, <2>2
<1>11. CopiedOut'
  <2>1. cPc = "copy" => \A i \in 1 .. Len(out) : i - 1 \in 0 .. Fill - 1
    BY <1>1 DEF Bounds, RingTypeOK, Whole
  <2>2. QED
    BY <1>4, <2>1 DEF CopiedOut
<1>12. Conservation'
  BY DEF Conservation, Fill
<1>13. QED
  BY <1>7, <1>8, <1>9, <1>10, <1>11, <1>12

LEMMA PushCommitKeeps == ASSUME RingParameters, RingInv, PushCommit PROVE RingInv'
<1> USE DEF RingInv, PushCommit, consVars
<1>1. /\ Slots \in Nat \ {0} /\ head \in Positions /\ tail \in Positions
      /\ Fill \in Nat /\ Whole(Fill) /\ written \in Nat /\ Whole(written)
      /\ Fill + written <= Slots /\ written <= block /\ block \in Nat /\ nextFrame \in Nat
      /\ Channels \in Nat \ {0}
  BY SlotsWhole, FillType DEF Bounds, FreeSlots, RingTypeOK, RingParameters
<1>2. tail' \in Positions /\ Fill' = Fill + written
  BY <1>1, AdvanceTail DEF Fill
<1>3. FramesIn(block) \in Nat /\ nextFrame' \in Nat /\ nextFrame <= nextFrame'
  <2>1. block + Channels - 1 \in Nat
    BY <1>1
  <2>2. FramesIn(block) \in Nat
    BY <1>1, <2>1, DivMod DEF FramesIn
  <2>3. QED
    BY <1>1, <2>2
\* The samples that become unread are those of the block.
<1>4. ASSUME NEW i \in Fill .. Fill' - 1
      PROVE  slot[SlotAt(head, i)] = SampleAt(i - Fill) /\ i - Fill \in 0 .. written - 1
  <2>1. i \in Fill .. Slots - 1 /\ i - Fill \in 0 .. written - 1
    BY <1>1, <1>2
  <2>2. SlotAt(head, i) = SlotAt(tail, i - Fill)
    BY <1>1, <2>1, PastUnread DEF Fill
  <2>3. QED
    BY <2>1, <2>2 DEF CopiedIn
<1>5. RingTypeOK'
  BY <1>2, <1>3 DEF RingTypeOK
<1>6. Bounds'
  <2>1. Whole(Fill')
    BY <1>1, <1>2, WholeSum
  <2>2. QED
    BY <1>1, <1>2, <2>1 DEF Bounds, Whole, RingTypeOK
<1>7. ASSUME NEW i \in 0 .. Fill' - 1
      PROVE  LET s == slot[SlotAt(head, i)] IN
             s \in Samples /\ s.chan = i % Channels /\ s.frame < nextFrame'
  <2>1. CASE i < Fill
    <3>1. i \in 0 .. Fill - 1
      BY <1>1, <1>2, <2>1
    <3>2. QED
      BY <3>1, <1>3, <1>1 DEF UnreadInOrder, Samples
  <2>2. CASE i >= Fill
    <3> DEFINE j == i - Fill
    <3>1. j \in Nat /\ j < block /\ j < written /\ slot[SlotAt(head, i)] = SampleAt(j)
      BY <1>1, <1>2, <1>4, <2>2
    <3>2. i = Fill + j
      BY <1>1, <2>2
    <3> HIDE DEF j
    <3>3. i % Channels = j % Channels
      BY <1>1, <3>1, <3>2, Shift DEF Whole
    <3>4. j \div Channels < FramesIn(block) /\ j \div Channels \in Nat
      BY <1>1, <3>1, BlockCovers, DivMod DEF FramesIn
    <3>5. QED
      BY <1>1, <1>3, <3>1, <3>3, <3>4, SampleType
  <2>3. QED
    BY <1>1, <2>1, <2>2
<1>8. ASSUME NEW i \in 1 .. Fill' - 1
      PROVE  LET s == slot[SlotAt(head, i)]
                 r == slot[SlotAt(head, i - 1)]
             IN  IF s.chan = 0 THEN s.frame > r.frame ELSE s.frame = r.frame
  <2>1. CASE i < Fill
    <3>1. i \in 1 .. Fill - 1
      BY <1>1, <1>2, <2>1
    <3>2. QED
      BY <3>1 DEF UnreadInOrder
  \* The first of the block is a new frame.
  <2>2. CASE i = Fill
    <3>1. slot[SlotAt(head, i)] = SampleAt(0) /\ i - 1 \in 0 .. Fill - 1
      BY <1>1, <1>2, <1>4, <2>2
    <3>2. slot[SlotAt(head, i - 1)] \in Samples /\ slot[SlotAt(head, i - 1)].frame < nextFrame
      BY <3>1 DEF UnreadInOrder
    <3>3. 0 % Channels = 0 /\ 0 \div Channels = 0
      BY <1>1, Z3
    <3>4. SampleAt(0).chan = 0 /\ SampleAt(0).frame = nextFrame
      BY <1>1, <3>3, SampleType
    <3>5. QED
      BY <1>1, <3>1, <3>2, <3>4 DEF Samples
  <2>3. CASE i > Fill
    <3> DEFINE j == i - Fill
    <3>1. j \in Nat \ {0} /\ slot[SlotAt(head, i)] = SampleAt(j)
      BY <1>1, <1>2, <1>4, <2>3
    <3>2. slot[SlotAt(head, i - 1)] = SampleAt(j - 1)
      <4>1. i - 1 \in Fill .. Fill' - 1 /\ (i - 1) - Fill = j - 1
        BY <1>1, <1>2, <2>3
      <4>2. QED
        BY <4>1, <1>4
    <3> HIDE DEF j
    <3>3. /\ SampleAt(j).chan = j % Channels
          /\ SampleAt(j).frame = nextFrame + (j \div Channels)
          /\ SampleAt(j - 1).frame = nextFrame + ((j - 1) \div Channels)
      BY <1>1, <3>1, SampleType
    <3>4. j \div Channels \in Nat /\ (j - 1) \div Channels \in Nat
      <4>1. j - 1 \in Nat /\ j \in Nat
        BY <3>1
      <4>2. QED
        BY <1>1, <4>1, DivMod
    <3>5. j \div Channels = IF j % Channels = 0 THEN ((j - 1) \div Channels) + 1 ELSE (j - 1) \div Channels
      BY <1>1, <3>1, NextSample
    <3>6. QED
      BY <1>1, <3>1, <3>2, <3>3, <3>4, <3>5
  <2>4. QED
    BY <1>1, <2>1, <2>2, <2>3
<1>9. UnreadInOrder' /\ CopiedIn' /\ CopiedOut'
  BY <1>7, <1>8 DEF UnreadInOrder, CopiedIn, CopiedOut
<1>10. Conservation'
  <2>1. take \in Nat
    BY DEF RingTypeOK
  <2> DEFINE pulling == IF cPc = "record" THEN take ELSE 0
  <2>2. pulling \in Nat
    BY <2>1
  <2>3. /\ bridge_stats.frames_pushed * Channels
           = bridge_stats.frames_pulled * Channels + pulling + discarded * Channels + Fill
        /\ pulling' = pulling /\ bridge_stats' = bridge_stats /\ discarded' = discarded
    BY <2>2, CountTypes DEF Conservation
  <2> HIDE DEF pulling
  <2>4. bridge_stats.frames_pushed * Channels + written
        = bridge_stats.frames_pulled * Channels + pulling + discarded * Channels + Fill'
    BY <1>1, <1>2, <2>2, <2>3, CountTypes
  <2>5. QED
    BY <2>3, <2>4 DEF Conservation, pulling
<1>11. QED
  BY <1>5, <1>6, <1>9, <1>10

LEMMA RecordPushKeeps == ASSUME RingParameters, RingInv, PushRecord PROVE RingInv'
<1> USE DEF RingInv, PushRecord, consVars
<1>1. /\ Whole(written) /\ written \in Nat /\ block - written \in Nat
      /\ written \div Channels \in Nat /\ (written \div Channels) * Channels = written
  BY WholeSum DEF Bounds, RingTypeOK, Whole
<1>2. /\ bridge_stats' \in [DOMAIN NoBridgeCounts -> Nat]
      /\ bridge_stats'.frames_pushed = bridge_stats.frames_pushed + (written \div Channels)
      /\ bridge_stats'.frames_pulled = bridge_stats.frames_pulled
  <2>1. /\ bridge_stats'.frames_pushed = bridge_stats.frames_pushed + (written \div Channels)
        /\ bridge_stats'.push_events = bridge_stats.push_events + 1
        /\ bridge_stats'.frames_pulled = bridge_stats.frames_pulled
        /\ bridge_stats'.overrun_events \in {bridge_stats.overrun_events, bridge_stats.overrun_events + 1}
        /\ bridge_stats'.underrun_events = bridge_stats.underrun_events
        /\ bridge_stats'.samples_dropped = bridge_stats.samples_dropped + (block - written)
        /\ bridge_stats'.samples_zero_filled = bridge_stats.samples_zero_filled
    BY CountTypes
  <2>2. \A k \in DOMAIN NoBridgeCounts : bridge_stats'[k] \in Nat
    <3>1. /\ bridge_stats.push_events \in Nat /\ bridge_stats.overrun_events \in Nat /\ bridge_stats.underrun_events \in Nat
          /\ bridge_stats.samples_dropped \in Nat /\ bridge_stats.samples_zero_filled \in Nat
      BY CountTypes
    <3>2. bridge_stats'.frames_pushed \in Nat /\ bridge_stats'.frames_pulled \in Nat
      BY <1>1, <2>1, CountTypes
    <3>3. bridge_stats'.push_events \in Nat /\ bridge_stats'.overrun_events \in Nat /\ bridge_stats'.underrun_events \in Nat
      BY <2>1, <3>1
    <3>4. bridge_stats'.samples_dropped \in Nat /\ bridge_stats'.samples_zero_filled \in Nat
      BY <1>1, <2>1, <3>1
    <3>5. QED
      BY <3>2, <3>3, <3>4, CountTypes
  <2>3. bridge_stats' = [k \in DOMAIN NoBridgeCounts |-> bridge_stats'[k]]
    BY CountTypes
  <2>4. QED
    BY <1>1, <2>2, <2>3, CountTypes
<1>3. RingTypeOK'
  BY <1>2 DEF RingTypeOK
<1>4. Bounds' /\ UnreadInOrder' /\ CopiedIn' /\ CopiedOut'
  BY DEF Bounds, UnreadInOrder, CopiedIn, CopiedOut, Fill, FreeSlots
<1>5. Conservation'
  <2>1. Channels \in Int /\ bridge_stats.frames_pushed \in Int /\ written \div Channels \in Int
    BY <1>1, CountTypes DEF RingParameters
  <2>2. bridge_stats'.frames_pushed * Channels = bridge_stats.frames_pushed * Channels + written
    BY <1>1, <1>2, <2>1, Distributes
  <2>3. Fill' = Fill /\ discarded' = discarded /\ take' = take /\ cPc' = cPc
    BY DEF Fill
  <2>4. Fill \in Nat /\ take \in Nat
    BY DEF Bounds, Whole
  <2>5. QED
    BY <1>1, <1>2, <2>2, <2>3, <2>4, CountTypes DEF Conservation
<1>6. QED
  BY <1>3, <1>4, <1>5

-----------------------------------------------------------------------------
(* A pull call and a discard call, step by step.                           *)

LEMMA PullMeasureKeeps ==
    ASSUME RingParameters, RingInv, NEW len \in PullLens, PullMeasure(len)
    PROVE  RingInv'
<1> USE DEF RingInv, PullMeasure, prodVars
<1>1. Fill \in Nat /\ len \in Nat
  BY SlotsWhole, FillType DEF RingTypeOK, RingParameters
<1>2. Whole(take') /\ take' <= len /\ take' <= Fill
  <2>1. Lesser(Fill, len) \in Nat /\ Lesser(Fill, len) <= len /\ Lesser(Fill, len) <= Fill
    BY <1>1 DEF Lesser
  <2>2. QED
    BY <1>1, <2>1, WholeFrames, SMT DEF Whole
<1>3. RingTypeOK'
  BY <1>1, <1>2 DEF RingTypeOK, Whole
<1>4. Bounds'
  BY <1>1, <1>2 DEF Bounds, FreeSlots, Fill, Whole
<1>5. UnreadInOrder' /\ CopiedIn' /\ CopiedOut'
  BY DEF UnreadInOrder, CopiedIn, CopiedOut, Fill, SampleAt
<1>6. Conservation'
  BY DEF Conservation, Fill
<1>7. QED
  BY <1>3, <1>4, <1>5, <1>6

LEMMA PullCopyKeeps == ASSUME RingParameters, RingInv, PullCopy PROVE RingInv'
<1> USE DEF RingInv, PullCopy, prodVars
<1> DEFINE s == slot[SlotAt(head, Len(out))]
<1>1. out \in Seq(Samples) /\ Len(out) \in Nat /\ Len(out) < take /\ take <= Fill /\ take \in Nat /\ Fill \in Nat
  BY DEF Bounds, RingTypeOK, Whole
<1>2. s \in Samples
  <2>1. Len(out) \in 0 .. Fill - 1
    BY <1>1
  <2>2. QED
    BY <2>1 DEF UnreadInOrder
<1>3. out' = Append(out, s)
  BY DEF SlotAt
<1> HIDE DEF s
<1>4. out' \in Seq(Samples) /\ Len(out') = Len(out) + 1
  BY <1>1, <1>2, <1>3
<1>5. RingTypeOK'
  BY <1>4 DEF RingTypeOK
<1>6. Bounds'
  BY <1>1, <1>4 DEF Bounds, FreeSlots, Fill
<1>7. CopiedOut'
  <2> SUFFICES ASSUME NEW i \in 1 .. Len(out')
               PROVE  out'[i] = slot[SlotAt(head, i - 1)]
    BY DEF CopiedOut
  <2>1. CASE i = Len(out')
    BY <2>1, <1>1, <1>3, <1>4 DEF s
  <2>2. CASE i # Len(out')
    <3>1. i \in 1 .. Len(out) /\ out'[i] = out[i]
      BY <2>2, <1>1, <1>2, <1>3, <1>4
    <3>2. QED
      BY <3>1 DEF CopiedOut
  <2>3. QED
    BY <2>1, <2>2
<1>8. UnreadInOrder' /\ CopiedIn'
  BY DEF UnreadInOrder, CopiedIn, Fill, SampleAt
<1>9. Conservation'
  BY DEF Conservation, Fill
<1>10. QED
  BY <1>5, <1>6, <1>7, <1>8, <1>9

(* Whole frames taken away leave the rest in order.                        *)
LEMMA TakenAway ==
    ASSUME RingParameters, RingInv, head' = Advance(head, take), take <= Fill,
           UNCHANGED <<slot, take, prodVars>>
    PROVE  head' \in Positions /\ Fill' = Fill - take /\ Whole(Fill') /\ UnreadInOrder'
<1> USE DEF RingInv, prodVars
<1>1. /\ Slots \in Nat \ {0} /\ head \in Positions /\ tail \in Positions /\ Channels \in Nat \ {0}
      /\ Fill \in Nat /\ Whole(Fill) /\ Fill <= Slots /\ take \in Nat /\ Whole(take)
  BY SlotsWhole, FillType DEF Bounds, RingTypeOK, RingParameters
<1>2. head' \in Positions /\ Fill' = Fill - take
  BY <1>1, AdvanceHead DEF Fill
<1>3. Whole(Fill')
  BY <1>1, <1>2, WholeSum
<1>4. ASSUME NEW i \in 0 .. Fill' - 1
      PROVE  /\ SlotAt(head', i) = SlotAt(head, take + i) /\ take + i \in 0 .. Fill - 1
             /\ (take + i) % Channels = i % Channels
  <2>1. i \in Nat /\ take + i < Slots /\ take + i \in 0 .. Fill - 1
    BY <1>1, <1>2
  <2>2. SlotAt(head', i) = SlotAt(head, take + i)
    BY <1>1, <2>1, AfterGone
  <2>3. (take + i) % Channels = i % Channels
    BY <1>1, <2>1, Shift DEF Whole
  <2>4. QED
    BY <2>1, <2>2, <2>3
<1>5. ASSUME NEW i \in 0 .. Fill' - 1
      PROVE  LET s == slot[SlotAt(head', i)] IN
             s \in Samples /\ s.chan = i % Channels /\ s.frame < nextFrame
  BY <1>4 DEF UnreadInOrder
<1>6. ASSUME NEW i \in 1 .. Fill' - 1
      PROVE  LET s == slot[SlotAt(head', i)]
                 r == slot[SlotAt(head', i - 1)]
             IN  IF s.chan = 0 THEN s.frame > r.frame ELSE s.frame = r.frame
  <2>1. i \in 0 .. Fill' - 1 /\ i - 1 \in 0 .. Fill' - 1 /\ take + (i - 1) = (take + i) - 1
    BY <1>1, <1>2
  <2>2. /\ SlotAt(head', i) = SlotAt(head, take + i)
        /\ SlotAt(head', i - 1) = SlotAt(head, (take + i) - 1)
        /\ take + i \in 1 .. Fill - 1
    BY <1>1, <1>2, <2>1, <1>4
  <2>3. QED
    BY <2>2 DEF UnreadInOrder
<1>7. QED
  BY <1>2, <1>3, <1>5, <1>6 DEF UnreadInOrder

LEMMA PullCommitKeeps == ASSUME RingParameters, RingInv, PullCommit PROVE RingInv'
<1> USE DEF RingInv, PullCommit, prodVars
<1>1. /\ out \in Seq(Samples) /\ Len(out) = take /\ Whole(take) /\ take \in Nat
      /\ take <= Fill /\ Fill \in Nat
  BY DEF Bounds, RingTypeOK, Whole
<1>2. head' \in Positions /\ Fill' = Fill - take /\ Whole(Fill') /\ UnreadInOrder'
  BY <1>1, TakenAway
<1>3. RingTypeOK'
  BY <1>2 DEF RingTypeOK
<1>4. Bounds'
  BY <1>1, <1>2, SlotsWhole DEF Bounds, FreeSlots, RingTypeOK
<1>5. IsFrames(out)
  <2>1. \A i \in 1 .. Len(out) : i - 1 \in 0 .. Fill - 1 /\ out[i] = slot[SlotAt(head, i - 1)]
    BY <1>1 DEF CopiedOut
  <2>2. \A i \in 2 .. Len(out) : i - 1 \in 1 .. Fill - 1 /\ i - 1 \in 1 .. Len(out)
    BY <1>1
  <2>3. \A i \in 1 .. Len(out) : out[i].chan = (i - 1) % Channels
    BY <2>1 DEF UnreadInOrder
  <2>4. \A i \in 2 .. Len(out) : IF out[i].chan = 0 THEN out[i].frame > out[i - 1].frame
                                                  ELSE out[i].frame = out[i - 1].frame
    <3> TAKE i \in 2 .. Len(out)
    <3>1. i \in 1 .. Len(out) /\ i - 1 \in 1 .. Len(out) /\ i - 1 \in 1 .. Fill - 1
      BY <1>1, <2>2
    <3>2. out[i] = slot[SlotAt(head, i - 1)] /\ out[i - 1] = slot[SlotAt(head, (i - 1) - 1)]
      BY <2>1, <3>1
    <3>3. QED
      BY <3>1, <3>2 DEF UnreadInOrder
  <2>5. QED
    BY <1>1, <2>3, <2>4 DEF IsFrames, Whole
<1>6. CopiedIn' /\ CopiedOut'
  BY <1>5 DEF CopiedIn, CopiedOut, SampleAt, IsFrames
<1>7. Conservation'
  BY <1>1, <1>2, CountTypes DEF Conservation, RingTypeOK
<1>8. QED
  BY <1>2, <1>3, <1>4, <1>6, <1>7

LEMMA RecordPullKeeps == ASSUME RingParameters, RingInv, PullRecord PROVE RingInv'
<1> USE DEF RingInv, PullRecord, prodVars
<1>1. /\ Whole(take) /\ take \in Nat /\ want - take \in Nat
      /\ take \div Channels \in Nat /\ (take \div Channels) * Channels = take
  BY WholeSum DEF Bounds, RingTypeOK, Whole
<1>2. /\ bridge_stats' \in [DOMAIN NoBridgeCounts -> Nat]
      /\ bridge_stats'.frames_pulled = bridge_stats.frames_pulled + (take \div Channels)
      /\ bridge_stats'.frames_pushed = bridge_stats.frames_pushed
  <2>1. /\ bridge_stats'.frames_pulled = bridge_stats.frames_pulled + (take \div Channels)
        /\ bridge_stats'.frames_pushed = bridge_stats.frames_pushed
        /\ bridge_stats'.underrun_events \in {bridge_stats.underrun_events, bridge_stats.underrun_events + 1}
        /\ bridge_stats'.samples_zero_filled = bridge_stats.samples_zero_filled + (want - take)
        /\ bridge_stats'.push_events = bridge_stats.push_events
        /\ bridge_stats'.overrun_events = bridge_stats.overrun_events
        /\ bridge_stats'.samples_dropped = bridge_stats.samples_dropped
    BY CountTypes
  <2>2. \A k \in DOMAIN NoBridgeCounts : bridge_stats'[k] \in Nat
    <3>1. /\ bridge_stats.push_events \in Nat /\ bridge_stats.overrun_events \in Nat /\ bridge_stats.underrun_events \in Nat
          /\ bridge_stats.samples_dropped \in Nat /\ bridge_stats.samples_zero_filled \in Nat
      BY CountTypes
    <3>2. bridge_stats'.frames_pushed \in Nat /\ bridge_stats'.frames_pulled \in Nat
      BY <1>1, <2>1, CountTypes
    <3>3. bridge_stats'.push_events \in Nat /\ bridge_stats'.overrun_events \in Nat /\ bridge_stats'.underrun_events \in Nat
      BY <2>1, <3>1
    <3>4. bridge_stats'.samples_dropped \in Nat /\ bridge_stats'.samples_zero_filled \in Nat
      BY <1>1, <2>1, <3>1
    <3>5. QED
      BY <3>2, <3>3, <3>4, CountTypes
  <2>3. bridge_stats' = [k \in DOMAIN NoBridgeCounts |-> bridge_stats'[k]]
    BY CountTypes
  <2>4. QED
    BY <2>1, <2>2, <2>3
<1>3. RingTypeOK'
  BY <1>2 DEF RingTypeOK
<1>4. Bounds' /\ UnreadInOrder' /\ CopiedIn' /\ CopiedOut'
  BY DEF Bounds, UnreadInOrder, CopiedIn, CopiedOut, Fill, FreeSlots, SampleAt
<1>5. Conservation'
  <2>1. Channels \in Int /\ bridge_stats.frames_pulled \in Int /\ take \div Channels \in Int
    BY <1>1, CountTypes DEF RingParameters
  <2>2. bridge_stats'.frames_pulled * Channels = bridge_stats.frames_pulled * Channels + take
    BY <1>1, <1>2, <2>1, Distributes
  <2>3. Fill' = Fill /\ discarded' = discarded /\ written' = written /\ pPc' = pPc
    BY DEF Fill
  <2>4. Fill \in Nat /\ written \in Nat
    BY DEF Bounds, Whole, RingTypeOK
  <2>5. QED
    BY <1>1, <1>2, <2>2, <2>3, <2>4, CountTypes DEF Conservation
<1>6. QED
  BY <1>3, <1>4, <1>5

LEMMA DiscardMeasureKeeps ==
    ASSUME RingParameters, RingInv, NEW frames \in DiscardLens, DiscardMeasure(frames)
    PROVE  RingInv'
<1> USE DEF RingInv, DiscardMeasure, prodVars
<1>1. Fill \in Nat /\ Whole(Fill) /\ Whole(frames * Channels)
  BY WholeProduct DEF Bounds, Whole, RingParameters
<1>2. Whole(take') /\ take' <= Fill
  BY <1>1 DEF Lesser, Whole
<1>3. RingTypeOK'
  BY <1>2 DEF RingTypeOK, Whole
<1>4. Bounds'
  BY <1>1, <1>2 DEF Bounds, FreeSlots, Fill
<1>5. UnreadInOrder' /\ CopiedIn'
  BY DEF UnreadInOrder, CopiedIn, Fill, SampleAt
<1>6. CopiedOut'
  <2>1. 0 % Channels = 0
    BY Z3 DEF RingParameters
  <2>2. QED
    BY <2>1 DEF CopiedOut, IsFrames
<1>7. Conservation'
  BY DEF Conservation, Fill
<1>8. QED
  BY <1>3, <1>4, <1>5, <1>6, <1>7

LEMMA DiscardCommitKeeps == ASSUME RingParameters, RingInv, DiscardCommit PROVE RingInv'
<1> USE DEF RingInv, DiscardCommit, prodVars
<1>1. /\ Whole(take) /\ take \in Nat /\ take <= Fill /\ Fill \in Nat
      /\ take \div Channels \in Nat /\ (take \div Channels) * Channels = take
  BY WholeSum DEF Bounds, RingTypeOK, Whole
<1>2. head' \in Positions /\ Fill' = Fill - take /\ Whole(Fill') /\ UnreadInOrder'
  BY <1>1, TakenAway
<1>3. RingTypeOK'
  BY <1>1, <1>2 DEF RingTypeOK
<1>4. Bounds'
  BY <1>1, <1>2, SlotsWhole DEF Bounds, FreeSlots, RingTypeOK
<1>5. IsFrames(out)
  BY DEF CopiedOut
<1>6. CopiedIn' /\ CopiedOut'
  BY <1>5 DEF CopiedIn, CopiedOut, SampleAt, IsFrames
<1>7. Conservation'
  <2>1. Channels \in Int /\ discarded \in Int /\ take \div Channels \in Int
    BY <1>1, CountTypes DEF RingParameters
  <2>2. discarded' * Channels = discarded * Channels + take
    BY <1>1, <2>1, Distributes
  <2>3. written \in Nat
    BY DEF RingTypeOK
  <2>4. QED
    BY <1>1, <1>2, <2>2, <2>3, CountTypes DEF Conservation
<1>8. QED
  BY <1>2, <1>3, <1>4, <1>6, <1>7

-----------------------------------------------------------------------------
LEMMA RingStep == ASSUME RingParameters, RingInv, [RingNext]_ring_vars PROVE RingInv'
<1>1. CASE PushCall
  BY <1>1, PushMeasureKeeps, PushFillKeeps, PushCommitKeeps, RecordPushKeeps DEF PushCall
<1>2. CASE PullCall
  BY <1>2, PullMeasureKeeps, PullCopyKeeps, PullCommitKeeps, RecordPullKeeps DEF PullCall
<1>3. CASE DiscardCall
  BY <1>3, DiscardMeasureKeeps, DiscardCommitKeeps DEF DiscardCall
<1>4. CASE UNCHANGED ring_vars
  <2> USE <1>4 DEF ring_vars, prodVars, consVars, RingInv
  <2>1. RingTypeOK' /\ Bounds'
    BY DEF RingTypeOK, Bounds, Fill, FreeSlots
  <2>2. UnreadInOrder' /\ CopiedIn' /\ CopiedOut'
    BY DEF UnreadInOrder, CopiedIn, CopiedOut, Fill, SampleAt, IsFrames
  <2>3. Conservation'
    BY DEF Conservation, Fill
  <2>4. QED
    BY <2>1, <2>2, <2>3
<1>5. QED
  BY <1>1, <1>2, <1>3, <1>4 DEF RingNext

LEMMA RingInvariant == ASSUME RingParameters PROVE RingSpec => []RingInv
<1>1. RingInit => RingInv
  BY RingStarts
<1>2. RingInv /\ [RingNext]_ring_vars => RingInv'
  BY RingStep
<1>3. QED
  BY <1>1, <1>2, PTL DEF RingSpec

(* The unread samples in order are whole frames in order.                  *)
LEMMA UnreadIsFrames == ASSUME RingParameters, RingInv PROVE IsFrames(Unread)
<1> USE DEF RingInv
<1>1. Fill \in Nat /\ Fill % Channels = 0
  BY DEF Bounds, Whole
<1>2. Len(Unread) = Fill /\ \A i \in 1 .. Fill : Unread[i] = slot[SlotAt(head, i - 1)]
  BY <1>1 DEF Unread, SlotAt
<1>3. \A i \in 1 .. Fill : Unread[i].chan = (i - 1) % Channels
  <2>1. \A i \in 1 .. Fill : i - 1 \in 0 .. Fill - 1
    BY <1>1
  <2>2. QED
    BY <1>2, <2>1 DEF UnreadInOrder
<1>4. ASSUME NEW i \in 2 .. Fill
      PROVE  IF Unread[i].chan = 0 THEN Unread[i].frame > Unread[i - 1].frame
                                   ELSE Unread[i].frame = Unread[i - 1].frame
  <2>1. i \in 1 .. Fill /\ i - 1 \in 1 .. Fill /\ i - 1 \in 1 .. Fill - 1
    BY <1>1
  <2>2. Unread[i] = slot[SlotAt(head, i - 1)] /\ Unread[i - 1] = slot[SlotAt(head, (i - 1) - 1)]
    BY <1>2, <2>1
  <2>3. QED
    BY <2>1, <2>2 DEF UnreadInOrder
<1>5. QED
  BY <1>1, <1>2, <1>3, <1>4 DEF IsFrames

(* No call reads memory that no push has written, whatever the other side  *)
(* does meanwhile: what is handed out are samples (ring.rs:195).           *)
THEOREM RingTypes == RingSpec => []RingTypeOK
<1>1. RingInv => RingTypeOK
  BY DEF RingInv
<1>2. QED
  BY <1>1, RingInvariant, RingAssumption, PTL

(* What a call measured is still its own when it uses it (ring.rs:164 and  *)
(* ring.rs:195), left and right never swap, and every frame that was pushed*)
(* was pulled or discarded or is unread, with any number of channels and   *)
(* any lengths of blocks, buffers and discards.                            *)
THEOREM BridgeIsSound == RingSpec => []BridgeSound
<1>1. RingParameters
  BY RingAssumption
<1>2. RingInv => BridgeSound
  <2>1. RingInv => RingTypeOK /\ Conservation
    BY DEF RingInv
  <2>2. RingInv => WindowsApart
    BY DEF RingInv, Bounds, WindowsApart
  <2>3. RingInv => NoChannelSlip
    BY <1>1, UnreadIsFrames DEF RingInv, CopiedOut, NoChannelSlip
  <2>4. QED
    BY <2>1, <2>2, <2>3 DEF BridgeSound
<1>3. QED
  BY <1>1, <1>2, RingInvariant, PTL

-----------------------------------------------------------------------------
(* The bridge is the queue of whole frames that FrameFifo promises: a push *)
(* takes effect when it publishes its index, a pull and a discard when     *)
(* they publish theirs.                                                    *)

UnreadFacts ==
    /\ Unread \in Seq(Samples) /\ Len(Unread) = Fill
    /\ \A i \in 1 .. Fill : Unread[i] = slot[SlotAt(head, i - 1)]

LEMMA UnreadType == ASSUME RingParameters, RingInv PROVE UnreadFacts
<1>1. Fill \in Nat
  BY DEF RingInv, Bounds, Whole
<1>2. \A i \in 1 .. Fill : slot[SlotOf(Advance(head, i - 1))] \in Samples
  <2>1. \A i \in 1 .. Fill : i - 1 \in 0 .. Fill - 1
    BY <1>1
  <2>2. QED
    BY <2>1 DEF RingInv, UnreadInOrder, SlotAt
<1>3. Unread \in Seq(Samples)
  BY <1>1, <1>2, IsASeq DEF Unread
<1>4. QED
  BY <1>1, <1>3 DEF Unread, UnreadFacts, SlotAt

LEMMA UnreadTypeAfter == ASSUME RingParameters PROVE RingInv' => UnreadFacts'
<1>1. RingInv => UnreadFacts
  BY UnreadType
<1>2. QED
  BY <1>1, PTL

LEMMA SameQueue ==
    ASSUME UNCHANGED <<slot, head, tail, nextFrame>>, Handed' = Handed
    PROVE  UNCHANGED Fifo!vars
BY DEF Unread, Fill, Fifo!vars

LEMMA FillIsUnseen == ASSUME RingParameters, RingInv, PushFill PROVE UNCHANGED Fifo!vars
<1>1. head' = head /\ Fill' = Fill /\ nextFrame' = nextFrame /\ Handed' = Handed
  BY DEF PushFill, Fill, consVars, Handed
<1>2. Fill \in Nat
  BY DEF RingInv, Bounds, Whole
<1>3. \A i \in 1 .. Fill : slot'[SlotOf(Advance(head, i - 1))] = slot[SlotOf(Advance(head, i - 1))]
  <2>1. \A i \in 1 .. Fill : i - 1 \in 0 .. Fill - 1
    BY <1>2
  <2>2. QED
    BY <2>1, FillSparesUnread DEF SlotAt
<1>4. Unread' = Unread
  BY <1>1, <1>3 DEF Unread
<1>5. QED
  BY <1>1, <1>4 DEF Fifo!vars

LEMMA WholeCount ==
    ASSUME RingParameters, NEW n, Whole(n), n <= Slots
    PROVE  n \div Channels \in 0 .. CapacityFrames /\ (n \div Channels) * Channels = n
<1>1. n \div Channels \in Nat /\ (n \div Channels) * Channels = n
  BY WholeSum
<1>2. n \div Channels <= CapacityFrames
  BY <1>1, Z3 DEF RingParameters, Slots, Whole
<1>3. QED
  BY <1>1, <1>2 DEF RingParameters

(* A push is accepted at one instant.                                      *)
LEMMA CommitAccepts ==
    ASSUME RingParameters, RingInv, PushCommit
    PROVE  \E n \in 0 .. CapacityFrames : Fifo!Accept(n)
<1> DEFINE n == room \div Channels
           new == Fifo!Frames(nextFrame, n)
<1>1. /\ Whole(room) /\ room \in Nat /\ room = written /\ room <= block /\ block \in Nat
      /\ Fill \in Nat /\ Fill <= Slots /\ Fill + room <= Slots /\ nextFrame \in Nat
      /\ Slots \in Nat \ {0} /\ head \in Positions /\ tail \in Positions /\ Channels \in Nat \ {0}
  BY SlotsWhole DEF RingInv, Bounds, FreeSlots, RingTypeOK, Whole, PushCommit, RingParameters
<1>2. n \in 0 .. CapacityFrames /\ n * Channels = room
  BY <1>1, WholeCount
<1>3. head' = head /\ slot' = slot /\ nextFrame' = nextFrame + FramesIn(block) /\ Handed' = Handed
  BY DEF PushCommit, consVars, Handed
<1>4. Fill' = Fill + room
  BY <1>1, AdvanceTail DEF Fill, PushCommit, consVars
<1>5. UnreadFacts /\ UnreadFacts'
  BY UnreadType, UnreadTypeAfter, PushCommitKeeps
<1>6. /\ new \in Seq(Samples) /\ Len(new) = room
      /\ \A i \in 1 .. room : new[i] = SampleAt(i - 1)
  <2>1. \A i \in 1 .. room : i - 1 \in Nat
    BY <1>1
  <2>2. \A i \in 1 .. room : SampleAt(i - 1) \in Samples
    BY <1>1, <2>1, SampleType
  <2>3. new = [i \in 1 .. room |-> SampleAt(i - 1)]
    BY <1>2 DEF Fifo!Frames, SampleAt
  <2>4. [i \in 1 .. room |-> SampleAt(i - 1)] \in Seq(Samples)
    BY <1>1, <2>2, IsASeq
  <2> HIDE DEF new
  <2>5. QED
    BY <1>1, <2>3, <2>4
<1> HIDE DEF n, new
<1>7. ASSUME NEW i \in 1 .. Fill' PROVE Unread'[i] = (Unread \o new)[i]
  <2>1. Unread'[i] = slot[SlotAt(head, i - 1)]
    BY <1>3, <1>5 DEF UnreadFacts
  <2>2. (Unread \o new)[i] = IF i <= Fill THEN Unread[i] ELSE new[i - Fill]
    BY <1>1, <1>4, <1>5, <1>6, ConcatProperties DEF UnreadFacts
  <2>3. CASE i <= Fill
    <3>1. i \in 1 .. Fill
      BY <1>1, <2>3
    <3>2. QED
      BY <2>1, <2>2, <3>1, <1>5 DEF UnreadFacts
  <2>4. CASE i > Fill
    <3>1. /\ i - 1 \in Fill .. Slots - 1 /\ i - Fill \in 1 .. room
          /\ (i - 1) - Fill = (i - Fill) - 1 /\ (i - 1) - Fill \in 0 .. written - 1
      BY <1>1, <1>4, <2>4
    <3>2. SlotAt(head, i - 1) = SlotAt(tail, (i - 1) - Fill)
      BY <1>1, <3>1, PastUnread DEF Fill
    <3>3. slot[SlotAt(tail, (i - 1) - Fill)] = SampleAt((i - 1) - Fill)
      BY <3>1 DEF RingInv, CopiedIn, PushCommit
    <3>4. new[i - Fill] = SampleAt((i - Fill) - 1)
      BY <3>1, <1>6
    <3>5. QED
      BY <1>1, <2>1, <2>2, <2>4, <3>1, <3>2, <3>3, <3>4
  <2>5. i <= Fill \/ i > Fill
    BY <1>1, <1>4
  <2>6. QED
    BY <2>3, <2>4, <2>5
<1>8. Unread' = Unread \o new
  <2>1. Unread \o new \in Seq(Samples) /\ Len(Unread \o new) = Fill + room
    BY <1>5, <1>6, ConcatProperties DEF UnreadFacts
  <2>2. Unread' \in Seq(Samples) /\ Len(Unread') = Fill + room
    BY <1>4, <1>5 DEF UnreadFacts
  <2>3. QED
    BY <1>4, <1>7, <2>1, <2>2, SeqEqual
<1>9. nextFrame' \in Nat /\ nextFrame' >= nextFrame + n
  <2>1. block + Channels - 1 \in Nat
    BY <1>1
  <2>2. FramesIn(block) \in Nat
    BY <1>1, <2>1, DivMod DEF FramesIn
  <2>3. FramesIn(block) >= n
    BY <1>1, Z3 DEF FramesIn, n
  <2>4. QED
    BY <1>1, <1>2, <1>3, <2>2, <2>3
<1>10. Len(Unread) + n * Channels <= CapacityFrames * Channels
  BY <1>1, <1>2, <1>5 DEF UnreadFacts, Slots
<1>11. Fifo!Accept(n)
  BY <1>3, <1>8, <1>9, <1>10 DEF Fifo!Accept, new
<1>12. QED
  BY <1>2, <1>11

(* What a pull or a discard gives back is the oldest, and what is left is  *)
(* the rest.                                                               *)
LEMMA TakesTheOldest ==
    ASSUME RingParameters, RingInv, RingInv', head' = Advance(head, take), take <= Fill,
           UNCHANGED <<slot, take, prodVars>>
    PROVE  /\ Unread' = SubSeq(Unread, take + 1, Len(Unread))
           /\ take \div Channels \in 0 .. CapacityFrames
           /\ (take \div Channels) * Channels = take /\ take <= Len(Unread)
<1>1. /\ Slots \in Nat \ {0} /\ head \in Positions /\ Fill \in Nat /\ Fill <= Slots
      /\ Whole(take) /\ take \in Nat
  BY SlotsWhole DEF RingInv, Bounds, RingTypeOK, Whole
<1>2. UnreadFacts /\ UnreadFacts'
  BY UnreadType, UnreadTypeAfter
<1>3. Fill' = Fill - take
  BY TakenAway
<1> DEFINE rest == SubSeq(Unread, take + 1, Len(Unread))
<1>4. /\ rest \in Seq(Samples) /\ Len(rest) = Fill - take
      /\ \A i \in 1 .. Fill - take : rest[i] = Unread[take + i]
  <2>1. \A i \in take + 1 .. Fill : Unread[i] \in Samples
    BY <1>1, <1>2, ElementOfSeq DEF UnreadFacts
  <2>2. /\ rest \in Seq(Samples)
        /\ Len(rest) = IF take + 1 <= Fill THEN Fill - (take + 1) + 1 ELSE 0
        /\ \A i \in 1 .. Fill - (take + 1) + 1 : rest[i] = Unread[(take + 1) + i - 1]
    BY <1>1, <1>2, <2>1, SubSeqProperties DEF UnreadFacts
  <2> HIDE DEF rest
  <2>3. \A i \in 1 .. Fill - take : (take + 1) + i - 1 = take + i /\ i \in 1 .. Fill - (take + 1) + 1
    BY <1>1
  <2>4. QED
    BY <1>1, <2>2, <2>3
<1> HIDE DEF rest
<1>5. ASSUME NEW i \in 1 .. Fill - take PROVE Unread'[i] = rest[i]
  <2>1. /\ i - 1 \in Nat /\ take + (i - 1) < Slots /\ take + i \in 1 .. Fill
        /\ take + (i - 1) = (take + i) - 1 /\ i \in 1 .. Fill'
    BY <1>1, <1>3
  <2>2. Unread'[i] = slot[SlotAt(head', i - 1)]
    BY <1>2, <2>1 DEF UnreadFacts
  <2>3. SlotAt(head', i - 1) = SlotAt(head, take + (i - 1))
    BY <1>1, <2>1, AfterGone
  <2>4. Unread[take + i] = slot[SlotAt(head, (take + i) - 1)]
    BY <1>2, <2>1 DEF UnreadFacts
  <2>5. QED
    BY <2>1, <2>2, <2>3, <2>4, <1>4
<1>6. Unread' = rest
  <2>1. Unread' \in Seq(Samples) /\ Len(Unread') = Fill - take
    BY <1>2, <1>3 DEF UnreadFacts
  <2>2. QED
    BY <1>4, <1>5, <2>1, SeqEqual
<1>7. take \div Channels \in 0 .. CapacityFrames /\ (take \div Channels) * Channels = take
  BY <1>1, WholeCount
<1>8. QED
  BY <1>2, <1>6, <1>7 DEF rest, UnreadFacts

(* A pull hands over the oldest frames at one instant.                     *)
LEMMA CommitHands ==
    ASSUME RingParameters, RingInv, PullCommit
    PROVE  \E n \in 0 .. CapacityFrames : Fifo!Hand(n)
<1>1. /\ cPc = "copy" /\ Len(out) = take /\ head' = Advance(head, take) /\ take <= Fill
      /\ cPc' = "record" /\ out' = out /\ nextFrame' = nextFrame
      /\ UNCHANGED <<slot, take, prodVars>>
  BY DEF PullCommit, RingInv, Bounds, prodVars
<1> DEFINE n == take \div Channels
<1>2. /\ Unread' = SubSeq(Unread, take + 1, Len(Unread)) /\ n \in 0 .. CapacityFrames
      /\ n * Channels = take /\ take <= Len(Unread)
  BY <1>1, TakesTheOldest, PullCommitKeeps
<1> HIDE DEF n
<1>3. out = SubSeq(Unread, 1, take)
  <2>1. UnreadFacts /\ take \in Nat /\ Fill \in Nat /\ out \in Seq(Samples)
    BY UnreadType DEF RingInv, RingTypeOK, Bounds, Whole
  <2> DEFINE oldest == SubSeq(Unread, 1, take)
  <2>2. \A i \in 1 .. take : Unread[i] \in Samples
    BY <1>1, <2>1, ElementOfSeq DEF UnreadFacts
  <2>3. /\ oldest \in Seq(Samples) /\ Len(oldest) = IF 1 <= take THEN take - 1 + 1 ELSE 0
        /\ \A i \in 1 .. take - 1 + 1 : oldest[i] = Unread[1 + i - 1]
    BY <2>1, <2>2, SubSeqProperties
  <2> HIDE DEF oldest
  <2>4. ASSUME NEW i \in 1 .. take PROVE out[i] = oldest[i]
    <3>1. i \in 1 .. Fill /\ i \in 1 .. Len(out) /\ i \in 1 .. take - 1 + 1 /\ 1 + i - 1 = i
      BY <1>1, <2>1
    <3>2. out[i] = slot[SlotAt(head, i - 1)]
      BY <1>1, <3>1 DEF RingInv, CopiedOut
    <3>3. oldest[i] = Unread[i] /\ Unread[i] = slot[SlotAt(head, i - 1)]
      BY <2>1, <2>3, <3>1 DEF UnreadFacts
    <3>4. QED
      BY <3>2, <3>3
  <2>5. Len(oldest) = Len(out)
    BY <1>1, <2>1, <2>3
  <2>6. QED
    BY <1>1, <2>1, <2>3, <2>4, <2>5, SeqEqual DEF oldest
<1>4. Handed = <<>> /\ Handed' = out
  BY <1>1 DEF Handed
<1>5. Fifo!Hand(n)
  BY <1>1, <1>2, <1>3, <1>4 DEF Fifo!Hand
<1>6. QED
  BY <1>2, <1>5

(* A discard removes the oldest frames at one instant.                     *)
LEMMA CommitDrops ==
    ASSUME RingParameters, RingInv, DiscardCommit
    PROVE  \E n \in 0 .. CapacityFrames : Fifo!Drop(n)
<1>1. /\ cPc = "discard" /\ head' = Advance(head, take) /\ take <= Fill
      /\ cPc' = "idle" /\ nextFrame' = nextFrame /\ UNCHANGED <<slot, take, prodVars>>
  BY DEF DiscardCommit, RingInv, Bounds, prodVars
<1> DEFINE n == take \div Channels
<1>2. /\ Unread' = SubSeq(Unread, take + 1, Len(Unread)) /\ n \in 0 .. CapacityFrames
      /\ n * Channels = take /\ take <= Len(Unread)
  BY <1>1, TakesTheOldest, DiscardCommitKeeps
<1> HIDE DEF n
<1>3. Handed = <<>> /\ Handed' = <<>>
  BY <1>1 DEF Handed
<1>4. Fifo!Drop(n)
  BY <1>1, <1>2, <1>3 DEF Fifo!Drop
<1>5. QED
  BY <1>2, <1>4

LEMMA FifoInit == ASSUME RingParameters, RingInit PROVE Fifo!Init
<1>1. Fill = 0
  BY DEF RingInit, Fill, Distance
<1>2. Unread = <<>>
  BY <1>1, RingStarts, UnreadType, EmptySeq DEF UnreadFacts
<1>3. QED
  BY <1>2 DEF RingInit, Handed, Fifo!Init

LEMMA FifoStep == ASSUME RingParameters, RingInv, [RingNext]_ring_vars PROVE [Fifo!Next]_(Fifo!vars)
<1>1. CASE UNCHANGED ring_vars
  BY <1>1, SameQueue DEF ring_vars, prodVars, consVars, Handed
<1>2. CASE PushCall
  <2>1. ASSUME NEW len \in PushLens, PushMeasure(len) PROVE UNCHANGED Fifo!vars
    BY <2>1, SameQueue DEF PushMeasure, consVars, Handed
  <2>2. CASE PushFill
    BY <2>2, FillIsUnseen
  <2>3. CASE PushCommit
    BY <2>3, CommitAccepts DEF Fifo!Next
  <2>4. CASE PushRecord
    BY <2>4, SameQueue DEF PushRecord, consVars, Handed
  <2>5. QED
    BY <1>2, <2>1, <2>2, <2>3, <2>4 DEF PushCall
<1>3. CASE PullCall
  <2>1. ASSUME NEW len \in PullLens, PullMeasure(len) PROVE UNCHANGED Fifo!vars
    BY <2>1, SameQueue DEF PullMeasure, prodVars, Handed
  <2>2. CASE PullCopy
    BY <2>2, SameQueue DEF PullCopy, prodVars, Handed
  <2>3. CASE PullCommit
    BY <2>3, CommitHands DEF Fifo!Next
  <2>4. CASE PullRecord
    <3>1. Handed' = <<>> /\ Unread' = Unread /\ nextFrame' = nextFrame
      BY <2>4 DEF PullRecord, prodVars, Handed, Unread, Fill
    <3>2. QED
      BY <3>1 DEF Fifo!Return, Fifo!Next
  <2>5. QED
    BY <1>3, <2>1, <2>2, <2>3, <2>4 DEF PullCall
<1>4. CASE DiscardCall
  <2>1. ASSUME NEW frames \in DiscardLens, DiscardMeasure(frames) PROVE UNCHANGED Fifo!vars
    BY <2>1, SameQueue DEF DiscardMeasure, prodVars, Handed
  <2>2. CASE DiscardCommit
    BY <2>2, CommitDrops DEF Fifo!Next
  <2>3. QED
    BY <1>4, <2>1, <2>2 DEF DiscardCall
<1>5. QED
  BY <1>1, <1>2, <1>3, <1>4 DEF RingNext

(* Two threads, each looking at the other's index once, together are a     *)
(* queue that takes and gives whole frames at one instant, of any size.    *)
THEOREM RingIsFrameFifo == RingSpec => ImplementsFifo
<1>1. RingParameters
  BY RingAssumption
<1>2. RingInit => Fifo!Init
  BY <1>1, FifoInit
<1>3. RingInv /\ [RingNext]_ring_vars => [Fifo!Next]_(Fifo!vars)
  BY <1>1, FifoStep
<1>4. QED
  BY <1>1, <1>2, <1>3, RingInvariant, PTL DEF RingSpec, ImplementsFifo, Fifo!Spec
=============================================================================
