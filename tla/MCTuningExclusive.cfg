SPECIFICATION CtlSpec
CONSTANTS
    small = small
    large = large
    None = None
    Controllers = {small, large}
    Devices = {d1, d2}
    Threads = {t1, t2}
    Block <- Blocks
    DefaultBlock = 1
    Overlap = {}
    MaxCalls = 0
    Instances = {small, large}
    HostBlock <- HostBlocks
    Targets = {1, 5}
    DEFAULT_TARGET = 3
    MAX_TARGET = 5
    Queues = {1, 2}
    DEFAULT_QUEUE = 2
    MaxRequests = 2
    Parts = {"tuning"}
INVARIANT FellBackWasTried
