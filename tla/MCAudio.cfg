SPECIFICATION AudioSpec
CONSTANTS
    MaxId = 2
    Foreign = {}
    Capacity = 3
    Span = 1
    Target = 2
    Quiet = 2
    Blocks = {2}
    MaxPushed = 4
    MaxOverruns = 1
    MaxLosses = 0
    Channels = 2
    CapacityFrames = 2
    PushLens = {2, 3, 6}
    PullLens = {2, 3, 6}
    DiscardLens = {1, 3}
    MaxPushes = 4
    MaxUnderruns = 1
    Devices <- MCDevices
    MIN_QUEUE_PERIODS = 1
    MAX_QUEUE_PERIODS = 4
    QueuePeriods = {0, 2, 9}
    Writes = {2, 3}
    MaxFrames = 9
    TargetLevel = 16384
    RingFrames = 40960
    Skews <- MCSkews
    Seeds <- MCSeeds
    Levels = {0, 8192, 16384}
    MAX_CORRECTION = 2048
    KP = 8
    KI = 256
    LAG = 4
    WARMUP = 4
    SETTLE_CHECK = 10
    SETTLE_MIN = 50
    SETTLE_TOL = 2
    SETTLE_STABLE_CHECKS = 3
    SETTLE_COLD = 100
    SETTLE_WARM = 50
    TOLERANCE = 512
    MaxDisturbed = 1
    MIN_CAPACITY_FRAMES = 2048
    Ms = {0, 5, 30, 120, 500}
    HostBlocks = {16, 512, 16384}
    Periods = {48, 480, 5000}
    Rates = {441, 480, 1920}
    Fills = {0, 2, 3}
    NOTHING = 99
    MaxPeriods = 3
INVARIANTS BridgeSound LedgerCountsOnce OrdersTakeEffectOnce NeverStranded SinkSound DriftHeld RangesTell
PROPERTIES ImplementsFifo OnlyTheQuietAreDropped
