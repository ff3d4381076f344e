------------------------------- MODULE Pings --------------------------------
(***************************************************************************)
(* The feedback server's pings (tools/feedback-ingest/src: handle_ping of  *)
(* api.rs, store_ping and prune_old_pings of store.rs, index.rs, daily.rs, *)
(* main and maintain of main.rs).  Threads append a line for each ping to  *)
(* the log of its day, without a lock, and then enter it into the index    *)
(* under one; the index is saved now and then and, after a restart,        *)
(* completed from the logs.  Once a day has ended its log is summed up in  *)
(* one row of daily.jsonl.                                                 *)
(*                                                                         *)
(* A file is the sequence of what each write added: whole lines without    *)
(* their ends, line ends, and beginnings of lines that a crash or a        *)
(* failing write cut short.                                                *)
(***************************************************************************)
EXTENDS Integers, Sequences, FiniteSets

CONSTANTS
    PingWorkers,
    Devices,            \* telemetry ids, numbers for their order
    MaxPings, MaxPingTime,  \* bounds: pings, the clock
    LAG,                \* bound: seconds a ping or a maintenance may take
    DAY_SECS,           \* seconds of a day
    REPLAY_DAYS, KEEP_DAYS, DEVICE_CAP,
    MaxPingTrouble          \* bound: failing writes and restarts, together

\* A request or a maintenance does not take as long as a log is kept.
ASSUME PingsAssumption ==
    /\ DAY_SECS \in Nat \ {0} /\ {LAG, REPLAY_DAYS, KEEP_DAYS, MaxPings, MaxPingTime, MaxPingTrouble} \subseteq Nat
    /\ DAY_SECS <= MaxPingTime /\ DAY_SECS + LAG <= KEEP_DAYS * DAY_SECS

VARIABLES
    ping_now,
    log,            \* the log file of each day
    daily,          \* daily.jsonl
    snapshot,       \* devices.json
    index,          \* Index: devices, saved_at, dirty
    reading,        \* the line the replay has come to
    server,         \* "up", or how far the start has got
    lock,           \* the thread in the index's mutex
    ping_worker,
    sent,           \* history: the pings that were let through
    answered,       \* history: those answered with 200
    mixed,          \* history: pings whose line another's may stand beside: one wrote
                    \* between their two writes, or their second was never made
    torn,           \* history: beginnings of lines left in the logs
    trouble

ping_files == <<log, daily, snapshot>>
ping_vars == <<ping_now, ping_files, index, reading, server, lock, ping_worker, sent, answered, mixed, torn, trouble>>

Days == 0..(MaxPingTime \div DAY_SECS)
DayOf(at) == at \div DAY_SECS
NL == [is |-> "end"]
Torn == [is |-> "torn"]
Line(n, id, at) == [is |-> "line", n |-> n, id |-> id, at |-> at]
Row(day, ids, fresh) == [is |-> "row", day |-> day, ids |-> ids, fresh |-> fresh]

Unknown == [first_seen |-> 0, last_seen |-> 0, pings |-> 0]
NoDevices == [d \in Devices |-> Unknown]
NoOne == "nobody"
NotReading == [day |-> 0, line |-> 1]
NoRequest == [pc |-> "idle", n |-> 0, id |-> 0, at |-> 0]

PingsInit ==
    /\ ping_now = DAY_SECS
    /\ log = [d \in Days |-> <<>>] /\ daily = <<>>
    /\ snapshot = [saved_at |-> 0, devices |-> NoDevices]
    /\ index = [saved_at |-> 0, devices |-> NoDevices, dirty |-> FALSE]
    /\ reading = NotReading /\ server = "up" /\ lock = NoOne
    /\ ping_worker = [w \in PingWorkers |-> NoRequest]
    /\ sent = {} /\ answered = {} /\ mixed = {} /\ torn = 0 /\ trouble = 0

\* The lines of a file that can be parsed: alone between two line ends.
Whole(file, i) ==
    /\ file[i].is \in {"line", "row"}
    /\ i = 1 \/ file[i - 1] = NL
    /\ i = Len(file) \/ file[i + 1] = NL
Readable(file) == {file[i] : i \in {i \in DOMAIN file : Whole(file, i)}}

PingTrouble == trouble < MaxPingTrouble /\ trouble' = trouble + 1

-----------------------------------------------------------------------------
(* Index *)

KnownDevices(devices) == {d \in Devices : devices[d].pings > 0}

\* The oldest go, of equals the one whose id is the smaller.
Older(devices, a, b) ==
    \/ devices[a].last_seen < devices[b].last_seen
    \/ devices[a].last_seen = devices[b].last_seen /\ a < b
evict(devices) ==
    [d \in Devices |->
        IF Cardinality({e \in KnownDevices(devices) : Older(devices, d, e)}) < DEVICE_CAP
        THEN devices[d] ELSE Unknown]

MaxOf(a, b) == IF a > b THEN a ELSE b
record(ix, id, at) ==
    LET old == ix.devices[id] IN
    [ saved_at |-> MaxOf(ix.saved_at, at), dirty |-> TRUE,
      devices |-> evict([ix.devices EXCEPT ![id] =
          [ first_seen |-> IF old.first_seen = 0 \/ at < old.first_seen THEN at ELSE old.first_seen,
            last_seen |-> MaxOf(old.last_seen, at), pings |-> old.pings + 1 ]]) ]

\* flush, not put off: write_replace leaves the old snapshot or the new one.
Saved ==
    IF ~index.dirty THEN UNCHANGED <<snapshot, index, trouble>>
    ELSE \/ /\ snapshot' = [saved_at |-> index.saved_at, devices |-> index.devices]
            /\ index' = [index EXCEPT !.dirty = FALSE] /\ UNCHANGED trouble
         \/ PingTrouble /\ UNCHANGED <<snapshot, index>>

\* A slip: the pings of the snapshot's very second, which it may have, once more.
LateOrThen(at) == at >= snapshot.saved_at

\* What the snapshot's newest ping is not older than is taken to be in it.
Late(at) == at > snapshot.saved_at

-----------------------------------------------------------------------------
(* daily.rs and prune_old_pings *)

\* A slip: does not read what is there.
written_dates_unread == {}

written_dates == {line.day : line \in Readable(daily)}

\* A slip: waits until the log has been thrown away.
PendingTooLate(at) ==
    {d \in Days : log[d] # <<>> /\ (d + KEEP_DAYS + 1) * DAY_SECS < at /\ d \notin written_dates}

\* Each ended day whose log is there and whose row is not.
Pending(at) == {d \in Days : log[d] # <<>> /\ (d + 1) * DAY_SECS <= at /\ d \notin written_dates}

RowOf(d) ==
    LET ids == {line.id : line \in Readable(log[d])} IN
    Row(d, ids, {i \in ids : DayOf(index.devices[i].first_seen) = d /\ i \in KnownDevices(index.devices)})

\* Their rows, each with its line end, in the order of the days.
Ascending(days) == {f \in [1..Cardinality(days) -> days] : \A i, j \in DOMAIN f : i < j => f[i] < f[j]}
RowsOf(days) == [k \in 1..(2 * Len(days)) |-> IF k % 2 = 1 THEN RowOf(days[(k + 1) \div 2]) ELSE NL]
Rows(at) == {RowsOf(days) : days \in Ascending(Pending(at))}

\* What a write that did not come to its end may have left of new in file.
Halves(file, new) ==
    {file \o SubSeq(new, 1, k) : k \in 0..(Len(new) - 1)}
        \cup {file \o Append(SubSeq(new, 1, k), Torn) : k \in {k \in 0..(Len(new) - 1) : new[k + 1] # NL}}

rollup(at) == \E new \in Rows(at) :
    \/ daily' = daily \o new /\ UNCHANGED trouble
    \/ PingTrouble /\ daily' \in Halves(daily, new)

prune_old_pings(at) == log' = [d \in Days |-> IF d * DAY_SECS < at - KEEP_DAYS * DAY_SECS THEN <<>> ELSE log[d]]

-----------------------------------------------------------------------------
(* handle_ping *)

\* A ping that token, limit and id let through; its time is taken once.
Ping(w, d) ==
    /\ server = "up" /\ ping_worker[w].pc = "idle" /\ Cardinality(sent) < MaxPings
    /\ LET n == Cardinality(sent) + 1 IN
       /\ sent' = sent \cup {[n |-> n, id |-> d, at |-> ping_now]}
       /\ ping_worker' = [ping_worker EXCEPT ![w] = [pc |-> "line", n |-> n, id |-> d, at |-> ping_now]]
    /\ UNCHANGED <<ping_now, ping_files, index, reading, server, lock, answered, mixed, torn, trouble>>

\* store_ping: writeln! on a file without a buffer writes the line and its end
\* apart.  Each may fail, the line after a part of it; the ping gets a 500.
WriteLine(w) ==
    LET day == DayOf(ping_worker[w].at)
        between == {v \in PingWorkers \ {w} : ping_worker[v].pc = "end" /\ DayOf(ping_worker[v].at) = day} IN
    /\ ping_worker[w].pc = "line"
    /\ \/ /\ log' = [log EXCEPT ![day] = Append(@, Line(ping_worker[w].n, ping_worker[w].id, ping_worker[w].at))]
          /\ ping_worker' = [ping_worker EXCEPT ![w].pc = "end"]
          /\ mixed' = IF between = {} THEN mixed
                      ELSE mixed \cup {ping_worker[v].n : v \in between \cup {w}}
          /\ UNCHANGED trouble
          /\ UNCHANGED torn
       \/ /\ PingTrouble /\ ping_worker' = [ping_worker EXCEPT ![w] = NoRequest]
          /\ \/ UNCHANGED <<log, mixed, torn>>
             \/ /\ log' = [log EXCEPT ![day] = Append(@, Torn)] /\ torn' = torn + 1
                /\ mixed' = mixed \cup {ping_worker[v].n : v \in between}
    /\ UNCHANGED <<ping_now, daily, snapshot, index, reading, server, lock, sent, answered>>

WriteEnd(w) ==
    /\ ping_worker[w].pc = "end"
    /\ \/ /\ log' = [log EXCEPT ![DayOf(ping_worker[w].at)] = Append(@, NL)]
          /\ ping_worker' = [ping_worker EXCEPT ![w].pc = "record"]
          /\ UNCHANGED <<mixed, trouble>>
       \/ /\ PingTrouble /\ ping_worker' = [ping_worker EXCEPT ![w] = NoRequest]
          /\ mixed' = mixed \cup {ping_worker[w].n} /\ UNCHANGED log
    /\ UNCHANGED <<ping_now, daily, snapshot, index, reading, server, lock, sent, answered, torn>>

\* Under the index's lock: record, and flush unless that was done a short while ago.
Record(w) ==
    LET me == ping_worker[w]  new == record(index, me.id, me.at) IN
    /\ ping_worker[w].pc = "record" /\ lock = NoOne
    /\ \/ index' = new /\ UNCHANGED snapshot
       \/ /\ snapshot' = [saved_at |-> new.saved_at, devices |-> new.devices]
          /\ index' = [new EXCEPT !.dirty = FALSE]
    /\ answered' = answered \cup {me.n}
    /\ ping_worker' = [ping_worker EXCEPT ![w] = NoRequest]
    /\ UNCHANGED <<ping_now, log, daily, reading, server, lock, sent, mixed, torn, trouble>>

-----------------------------------------------------------------------------
(* maintain, by whichever request finds that an hour has passed *)

MaintainBegin(w) ==
    /\ server = "up" /\ ping_worker[w].pc = "idle" /\ \A v \in PingWorkers : ping_worker[v].pc # "flush"
    /\ ping_worker' = [ping_worker EXCEPT ![w] = [pc |-> "flush", n |-> 0, id |-> 0, at |-> ping_now]]
    /\ UNCHANGED <<ping_now, ping_files, index, reading, server, lock, sent, answered, mixed, torn, trouble>>

MaintainFlush(w) ==
    /\ ping_worker[w].pc = "flush" /\ lock = NoOne /\ lock' = w
    /\ Saved
    /\ ping_worker' = [ping_worker EXCEPT ![w].pc = "rollup"]
    /\ UNCHANGED <<ping_now, log, daily, reading, server, sent, answered, mixed, torn>>

MaintainRollup(w) ==
    /\ ping_worker[w].pc = "rollup"
    /\ rollup(ping_worker[w].at)
    /\ ping_worker' = [ping_worker EXCEPT ![w].pc = "prune"]
    /\ UNCHANGED <<ping_now, log, snapshot, index, reading, server, lock, sent, answered, mixed, torn>>

MaintainPrune(w) ==
    /\ ping_worker[w].pc = "prune" /\ lock' = NoOne
    /\ prune_old_pings(ping_worker[w].at)
    /\ ping_worker' = [ping_worker EXCEPT ![w] = NoRequest]
    /\ UNCHANGED <<ping_now, daily, snapshot, index, reading, server, sent, answered, mixed, torn, trouble>>

-----------------------------------------------------------------------------
(* The process *)

\* A line whose writing a crash may have cut short; its end cannot be.
ServerCrash ==
    /\ server # "down" /\ PingTrouble
    /\ \/ UNCHANGED <<log, daily, torn>>
       \/ \E w \in PingWorkers :
            \/ /\ ping_worker[w].pc = "line"
               /\ log' = [log EXCEPT ![DayOf(ping_worker[w].at)] = Append(@, Torn)]
               /\ torn' = torn + 1 /\ UNCHANGED daily
            \/ /\ ping_worker[w].pc = "rollup" /\ \E new \in Rows(ping_worker[w].at) : daily' \in Halves(daily, new)
               /\ UNCHANGED <<log, torn>>
       \/ /\ server = "rollup" /\ \E new \in Rows(ping_now) : daily' \in Halves(daily, new)
          /\ UNCHANGED <<log, torn>>
    /\ mixed' = mixed \cup {ping_worker[w].n : w \in {w \in PingWorkers : ping_worker[w].pc = "end"}}
    /\ ping_worker' = [w \in PingWorkers |-> NoRequest] /\ lock' = NoOne /\ server' = "down"
    /\ index' = [saved_at |-> 0, devices |-> NoDevices, dirty |-> FALSE] /\ reading' = NotReading
    /\ UNCHANGED <<ping_now, snapshot, sent, answered>>

\* main: prune, load, rollup, flush, and only then listen.
Start ==
    /\ server = "down" /\ server' = "load"
    /\ prune_old_pings(ping_now)
    /\ UNCHANGED <<ping_now, daily, snapshot, index, reading, lock, ping_worker, sent, answered, mixed, torn, trouble>>

Load ==
    /\ server = "load" /\ server' = "replay"
    /\ index' = [saved_at |-> snapshot.saved_at, devices |-> snapshot.devices, dirty |-> FALSE]
    /\ reading' = [day |-> MaxOf(0, DayOf(ping_now) - REPLAY_DAYS + 1), line |-> 1]
    /\ UNCHANGED <<ping_now, ping_files, lock, ping_worker, sent, answered, mixed, torn, trouble>>

\* replay: the logs of the last days, in their order.
ReplayLine ==
    /\ server = "replay" /\ reading.day <= DayOf(ping_now) /\ reading.line <= Len(log[reading.day])
    /\ LET line == log[reading.day][reading.line] IN
       index' = IF Whole(log[reading.day], reading.line) /\ Late(line.at) THEN record(index, line.id, line.at) ELSE index
    /\ reading' = [reading EXCEPT !.line = @ + 1]
    /\ UNCHANGED <<ping_now, ping_files, server, lock, ping_worker, sent, answered, mixed, torn, trouble>>

ReplayDay ==
    /\ server = "replay" /\ reading.day <= DayOf(ping_now) /\ reading.line > Len(log[reading.day])
    /\ reading' = [day |-> reading.day + 1, line |-> 1]
    /\ UNCHANGED <<ping_now, ping_files, index, server, lock, ping_worker, sent, answered, mixed, torn, trouble>>

Replayed ==
    /\ server = "replay" /\ reading.day > DayOf(ping_now) /\ server' = "rollup"
    /\ reading' = NotReading
    /\ UNCHANGED <<ping_now, ping_files, index, lock, ping_worker, sent, answered, mixed, torn, trouble>>

StartRollup ==
    /\ server = "rollup" /\ server' = "flush"
    /\ rollup(ping_now)
    /\ UNCHANGED <<ping_now, log, snapshot, index, reading, lock, ping_worker, sent, answered, mixed, torn>>

StartFlush ==
    /\ server = "flush" /\ server' = "up"
    /\ Saved
    /\ UNCHANGED <<ping_now, log, daily, reading, lock, ping_worker, sent, answered, mixed, torn>>

\* The start takes the time once: between its steps the clock stands.
PingTick ==
    /\ server \in {"up", "down"} /\ ping_now < MaxPingTime /\ ping_now' = ping_now + 1
    /\ \A w \in PingWorkers : ping_worker[w].pc # "idle" => ping_now - ping_worker[w].at < LAG
    /\ UNCHANGED <<ping_files, index, reading, server, lock, ping_worker, sent, answered, mixed, torn, trouble>>

PingStep(w) ==
    \/ WriteLine(w) \/ WriteEnd(w) \/ Record(w)
    \/ MaintainBegin(w) \/ MaintainFlush(w) \/ MaintainRollup(w) \/ MaintainPrune(w)

PingsNext ==
    \/ \E w \in PingWorkers, d \in Devices : Ping(w, d)
    \/ \E w \in PingWorkers : PingStep(w)
    \/ ServerCrash
    \/ Start \/ Load \/ ReplayLine \/ ReplayDay \/ Replayed \/ StartRollup \/ StartFlush
    \/ PingTick

PingsSpec == PingsInit /\ [][PingsNext]_ping_vars

-----------------------------------------------------------------------------
Requests ==
    {NoRequest}
      \cup [pc : {"line", "end", "record"}, n : 1..MaxPings, id : Devices, at : 0..MaxPingTime]
      \cup [pc : {"flush", "rollup", "prune"}, n : {0}, id : {0}, at : 0..MaxPingTime]
LogEntries == {NL, Torn} \cup [is : {"line"}, n : 1..MaxPings, id : Devices, at : 0..MaxPingTime]
Figures == [first_seen : Nat, last_seen : Nat, pings : Nat]
DailyEntries ==
    {NL, Torn} \cup [is : {"row"}, day : Days, ids : SUBSET Devices, fresh : SUBSET Devices]

PingsTypeOK ==
    /\ ping_now \in 0..MaxPingTime /\ trouble \in 0..MaxPingTrouble /\ torn \in Nat
    /\ log \in [Days -> Seq(LogEntries)] /\ daily \in Seq(DailyEntries)
    /\ snapshot \in [saved_at : Nat, devices : [Devices -> Figures]]
    /\ index \in [saved_at : Nat, devices : [Devices -> Figures], dirty : BOOLEAN]
    /\ reading \in [day : Nat, line : Nat \ {0}]
    /\ server \in {"up", "down", "load", "replay", "rollup", "flush"}
    /\ lock \in PingWorkers \cup {NoOne}
    /\ ping_worker \in [PingWorkers -> Requests]
    /\ sent \subseteq [n : 1..MaxPings, id : Devices, at : 0..MaxPingTime]
    /\ answered \subseteq 1..MaxPings /\ mixed \subseteq 1..MaxPings

\* An ended day has at most one row that can be read, whatever was cut short
\* and however often it was summed up (rollup, written_dates).
OneRowPerDay ==
    \A d \in Days : Cardinality({i \in DOMAIN daily : Whole(daily, i) /\ daily[i].day = d}) <= 1

\* No ping counts twice, in whatever order threads enter theirs and whatever a
\* restart replays: a device's count never exceeds what it sent (replay, record).
NeverCountedTwice ==
    \A d \in Devices : index.devices[d].pings <= Cardinality({p \in sent : p.id = d})

\* As long as nothing fails a log is thrown away only after its day has its
\* row (maintain: rollup before prune_old_pings).
SummedBeforePruned ==
    [][\A d \in Days : trouble = 0 /\ log[d] # <<>> /\ log'[d] = <<>> => d \in written_dates]_ping_vars

\* A ping that was answered can be read in its log, unless another thread's
\* write got between its two or its line runs into one that a crash or a failing
\* write left as a beginning or without its end: each such line hides at most one
\* other (store_ping).
OnlyMixedLinesAreLost ==
    Cardinality({p \in sent :
        /\ p.n \in answered \ mixed /\ log[DayOf(p.at)] # <<>>
        /\ Line(p.n, p.id, p.at) \notin Readable(log[DayOf(p.at)])}) <= torn + Cardinality(mixed)

\* What is counted and summed up is so once: a day has one row, a ping counts
\* once for its device, and its line is in the log to be counted by (index.rs,
\* daily.rs, store.rs).
CountedOnce == PingsTypeOK /\ OneRowPerDay /\ NeverCountedTwice /\ OnlyMixedLinesAreLost

\* After a restart every device is at least as new as its last line that can
\* be read in the logs of the last days (index.rs, Index::load: the test
\* a_crash_after_the_snapshot_is_recovered_from_the_ping_log).
LogRecovers ==
    server = "rollup" =>
        \A d \in Days : d > DayOf(ping_now) - REPLAY_DAYS =>
            \A line \in Readable(log[d]) : index.devices[line.id].last_seen >= line.at
=============================================================================
