------------------------------ MODULE MCServer ------------------------------
(***************************************************************************)
(* The parts of the feedback server, each with a small instance of its     *)
(* own.  A behaviour runs one part; the others stand in their initial      *)
(* states.                                                                 *)
(***************************************************************************)
EXTENDS Limits, Tickets, Pings, TLC

CONSTANTS
    UNKNOWN, REST,
    Parts       \* the parts a run looks at

VARIABLES
    part,
    stats_now, stats_log, devices, day

stats == <<stats_now, stats_log, devices, day>>

\* The limits' values.
SmallMost == [m \in Maps |-> IF m = "by_ip" THEN 2 ELSE 1]
SmallSpan == [m \in Maps |-> IF m = "by_id" THEN 3 ELSE 2]

-----------------------------------------------------------------------------
\* The calendar up to the year 2100, which is not a leap year.
S == INSTANCE Stats WITH
    Devices <- 1..4, Version <- <<7, 8, 7, UNKNOWN>>, HOUR <- 2, TREND_HOURS <- 3,
    Offsets <- {-3, 0, 1, 2}, TOP <- 1, LEGACY_INTERVAL <- 1, ONLINE_MIN <- 1, ONLINE_MAX <- 4,
    INTERVAL_MIN <- 1, ONLINE_FACTOR <- 3, Intervals <- {0, 1},
    MaxTime <- 13, MaxPings <- 3, MaxDay <- 47846,
    now <- stats_now, log <- stats_log

-----------------------------------------------------------------------------
Init ==
    /\ part \in Parts
    /\ LimitsInit /\ TicketsInit /\ PingsInit /\ S!Init

Next ==
    \/ part = "limits" /\ LimitsNext /\ UNCHANGED <<part, ticket_vars, ping_vars, stats>>
    \/ part = "tickets" /\ TicketsNext /\ UNCHANGED <<part, limit_vars, ping_vars, stats>>
    \/ part = "pings" /\ PingsNext /\ UNCHANGED <<part, limit_vars, ticket_vars, stats>>
    \/ part = "calendar" /\ S!NextDay /\ UNCHANGED <<part, limit_vars, ticket_vars, ping_vars>>
    \/ part = "stats" /\ S!NextPing /\ UNCHANGED <<part, limit_vars, ticket_vars, ping_vars>>

vars == <<part, limit_vars, ticket_vars, ping_vars, stats>>

Spec == Init /\ [][Next]_vars

-----------------------------------------------------------------------------
\* The invariants of these two parts are looked at while they run.

\* Days are told apart as the calendar does, and the figures of the panel add up
\* (util.rs, stats.rs).
FiguresAreRight ==
    /\ part = "calendar" => S!CalendarHolds
    /\ part = "stats" => S!TrendIsComplete /\ S!FiguresAddUp
=============================================================================
