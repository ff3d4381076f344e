SPECIFICATION Spec
CONSTANTS
    UNKNOWN = UNKNOWN
    REST = REST
    NoMsg = NoMsg
    Msgs = {m1, m2}
    Workers = {"w1", "w2"}
    MaxTicket = 2
    MAX_FILES = 2
    MaxTrouble = 1
    Threads = {"w1", "w2"}
    Senders = {"s"}
    Most <- SmallMost
    Span <- SmallSpan
    MaxTime = 2
    PingWorkers = {"w1", "w2"}
    Devices = {1, 2}
    MaxPings = 2
    MaxPingTime = 7
    MaxPingTrouble = 1
    LAG = 1
    DAY_SECS = 2
    REPLAY_DAYS = 1
    KEEP_DAYS = 2
    DEVICE_CAP = 2
    Parts = {"limits", "tickets", "pings", "calendar", "stats"}
INVARIANTS RatesHold TicketsSound CountedOnce FiguresAreRight
PROPERTIES TicketsAreNotReused SummedBeforePruned
CHECK_DEADLOCK FALSE
