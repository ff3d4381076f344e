-------------------------------- MODULE Stats -------------------------------
(***************************************************************************)
(* The feedback server's dashboard (tools/feedback-ingest/src/stats.rs)    *)
(* and the calendar it counts with (util.rs).  Pings come and go into the  *)
(* log of their UTC day and into the index; a request computes the figures *)
(* for a time zone and a window.  Time is in ticks; an hour has HOUR of    *)
(* them and a day TREND_HOURS hours, 24 in the code.                       *)
(***************************************************************************)
EXTENDS Integers, Sequences, FiniteSets, SequencesExt, FiniteSetsExt

CONSTANTS
    Devices,
    Version,            \* the version each device sends; UNKNOWN: a blank one
    UNKNOWN,
    REST,               \* the row for what top_n leaves out
    HOUR, TREND_HOURS,
    Offsets,            \* time zones, in ticks, also by parts of an hour
    TOP,                \* rows top_n keeps
    LEGACY_INTERVAL, ONLINE_MIN, ONLINE_MAX, INTERVAL_MIN,     \* clamps of the online window
    ONLINE_FACTOR,
    Intervals,          \* intervals a device may say it pings in; 0: it says nothing
    MaxTime, MaxPings,  \* bounds: the clock, pings in the logs
    MaxDay              \* bound: days of the calendar from 1970 on

DAY == TREND_HOURS * HOUR

VARIABLES
    now,
    log,            \* each day: the pings in its file
    devices,        \* the index: what is known of each device
    day             \* a day of the calendar

vars == <<now, log, devices, day>>

Never == [last_seen |-> 0, interval |-> 0]

Init ==
    /\ now = DAY
    /\ log = [d \in 0..(MaxTime \div DAY) |-> {}]
    /\ devices = [d \in Devices |-> Never]
    /\ day = 0

Known == {d \in Devices : devices[d] # Never}

-----------------------------------------------------------------------------
(* The calendar *)

\* \div rounds down, as the code's case for negative numbers makes it do.
civil_from_days(z) ==
    LET s == z + 719468
        era == s \div 146097
        doe == s - era * 146097
        yoe == (doe - doe \div 1460 + doe \div 36524 - doe \div 146096) \div 365
        doy == doe - (365 * yoe + yoe \div 4 - yoe \div 100)
        mp == (5 * doy + 2) \div 153
        m == IF mp < 10 THEN mp + 3 ELSE mp - 9
    IN [ y |-> yoe + era * 400 + (IF m <= 2 THEN 1 ELSE 0), m |-> m,
         d |-> doy - (153 * mp + 2) \div 5 + 1 ]

days_from_civil(c) ==
    LET y == IF c.m <= 2 THEN c.y - 1 ELSE c.y
        era == y \div 400
        yoe == y - era * 400
        mp == IF c.m > 2 THEN c.m - 3 ELSE c.m + 9
        doy == (153 * mp + 2) \div 5 + c.d - 1
    IN era * 146097 + yoe * 365 + yoe \div 4 - yoe \div 100 + doy - 719468

NextDay == day < MaxDay /\ day' = day + 1 /\ UNCHANGED <<now, log, devices>>

-----------------------------------------------------------------------------
(* The figures *)

day_key(at) == at \div DAY

\* Times before the epoch are cut off.
NotNegative(n) == IF n < 0 THEN 0 ELSE n
bucket_start(at, off, size) ==
    LET local == NotNegative(at + off) IN NotNegative(local - (local % size) - off)
hour_start(at, off) == bucket_start(at, off, HOUR)
day_start(at, off) == bucket_start(at, off, DAY)

Clamp(n, low, high) == IF n < low THEN low ELSE IF n > high THEN high ELSE n
online_window(d) ==
    LET i == devices[d].interval
        interval == IF i = 0 THEN LEGACY_INTERVAL ELSE Clamp(i, INTERVAL_MIN, ONLINE_MAX)
    IN Clamp(interval * ONLINE_FACTOR, ONLINE_MIN, ONLINE_MAX)

Ago(d) == NotNegative(now - devices[d].last_seen)
online == {d \in Known : Ago(d) < online_window(d)}
today_active(off) == {d \in Known : devices[d].last_seen >= day_start(now, off)}
cohort(window) == {d \in Known : Ago(d) <= window}

\* A slip: begins an hour too early.
oldest_too_early(off) == NotNegative(hour_start(now, off) - TREND_HOURS * HOUR)

oldest(off) == NotNegative(hour_start(now, off) - (TREND_HOURS - 1) * HOUR)

\* The devices of each hour, from the logs of the first and of the last hour's
\* day; a bucket outside the table would be an index out of range.
trend(off) ==
    LET read == UNION {log[k] : k \in {day_key(oldest(off)), day_key(now)}}
        kept == {p \in read : hour_start(p.at, off) \in oldest(off)..hour_start(now, off)}
        slot(p) == (hour_start(p.at, off) - oldest(off)) \div HOUR
    IN [i \in 0..(TREND_HOURS - 1) |-> {p.id : p \in {p \in kept : slot(p) = i}}]

\* bump: how many of the cohort have each version.
Tally(who) == [v \in {Version[d] : d \in who} |-> Cardinality({d \in who : Version[d] = v})]

\* The most frequent first, of equals the smaller name; the rest in one row,
\* and the unknown ones last, never counted among the rest.
top_n(count, n) ==
    LET named == DOMAIN count \ {UNKNOWN}
        before(a, b) == count[a] > count[b] \/ (count[a] = count[b] /\ a < b)
        order == SetToSortSeq(named, before)
        pair(v) == [name |-> v, count |-> count[v]]
        top == [i \in 1..(IF Len(order) > n THEN n ELSE Len(order)) |-> pair(order[i])]
        rest == {order[i] : i \in (n + 1)..Len(order)}
    IN top
       \o (IF rest = {} THEN <<>>
           ELSE <<[name |-> REST, count |-> MapThenSumSet(LAMBDA v : count[v], rest)]>>)
       \o (IF UNKNOWN \in DOMAIN count THEN <<pair(UNKNOWN)>> ELSE <<>>)

-----------------------------------------------------------------------------
\* store_ping and record, at most one in a tick of each device; that a line may be
\* lost or stand in the log before the index has it is left to Pings.
Ping(d, interval) ==
    /\ MapThenSumSet(LAMBDA k : Cardinality(log[k]), DOMAIN log) < MaxPings
    /\ [id |-> d, at |-> now] \notin log[day_key(now)]
    /\ log' = [log EXCEPT ![day_key(now)] = @ \cup {[id |-> d, at |-> now]}]
    /\ devices' = [devices EXCEPT ![d] =
            [last_seen |-> now, interval |-> IF interval > 0 THEN interval ELSE @.interval]]
    /\ UNCHANGED <<now, day>>

Tick == now < MaxTime /\ now' = now + 1 /\ UNCHANGED <<log, devices, day>>

NextPing == Tick \/ \E d \in Devices, i \in Intervals : Ping(d, i)

Next == NextPing \/ NextDay

Spec == Init /\ [][Next]_vars

-----------------------------------------------------------------------------
IsLeap(y) == y % 4 = 0 /\ (y % 100 # 0 \/ y % 400 = 0)
MonthLength(y, m) ==
    CASE m \in {4, 6, 9, 11} -> 30 [] m = 2 /\ IsLeap(y) -> 29 [] m = 2 -> 28 [] OTHER -> 31
DateAfter(c) ==
    CASE c.d < MonthLength(c.y, c.m) -> [c EXCEPT !.d = @ + 1]
      [] c.m < 12 -> [c EXCEPT !.m = @ + 1, !.d = 1]
      [] OTHER -> [y |-> c.y + 1, m |-> 1, d |-> 1]

\* The names of the log files follow the calendar, leap years and centuries
\* included, and a name leads back to its day (civil_from_days, days_from_civil).
CalendarHolds ==
    /\ day = 0 => civil_from_days(day) = [y |-> 1970, m |-> 1, d |-> 1]
    /\ civil_from_days(day + 1) = DateAfter(civil_from_days(day))
    /\ days_from_civil(civil_from_days(day)) = day

\* In every time zone the day's curve counts each device once in each hour in
\* which it sent a ping, none is missed for the sake of the two files that are
\* read, and the last hour is the one it is now (trend, bucket_start).
TrendIsComplete ==
    \A off \in Offsets, i \in 0..(TREND_HOURS - 1) :
        /\ trend(off)[i] = {p.id : p \in {p \in UNION {log[k] : k \in DOMAIN log} :
               p.at \in (oldest(off) + i * HOUR)..(oldest(off) + (i + 1) * HOUR - 1)}}
        /\ now \in (oldest(off) + (TREND_HOURS - 1) * HOUR)..(oldest(off) + DAY - 1)

\* Whatever top_n leaves out, the rows add up to the cohort; whoever counts as
\* online has been seen no longer ago than the longest window; and whoever the
\* index has seen today is on the curve the logs give (compute_stats).
FiguresAddUp ==
    /\ \A window \in {HOUR, DAY} :
         LET rows == top_n(Tally(cohort(window)), TOP) IN
         /\ FoldLeft(LAMBDA sum, row : sum + row.count, 0, rows) = Cardinality(cohort(window))
         /\ \A i, j \in DOMAIN rows : i < j /\ {rows[i].name, rows[j].name} \cap {REST, UNKNOWN} = {}
                => rows[i].count >= rows[j].count
    /\ \A d \in online : now - devices[d].last_seen < ONLINE_MAX
    /\ \A off \in Offsets : today_active(off) \subseteq UNION {trend(off)[i] : i \in DOMAIN trend(off)}
=============================================================================
