SPECIFICATION DesktopSpec
CONSTANTS
    e1 = e1
    e2 = e2
    m1 = m1
    m2 = m2
    NoMsg = NoMsg
    Instances = {"h1", "h2"}
    EDITOR = "editor"
    UNSET = UNSET
    RETRY_GAP = 1
    DEFAULT_GAP = 2
    MIN_GAP = 1
    MAX_GAP = 2
    READ_ATTEMPTS = 2
    Nexts = {9}
    MaxTime = 2
    MaxClaims = 2
    MaxTrouble = 1
    MaxClicks = 1
    MaxVersion = 2
    UPDATE_VIEW_INTERVAL = 2
    BUSY_MIN = 1
    BUSY_MAX = 3
    INSTALL_BUTTON_COOLDOWN = 2
    SEND_PATIENCE = 2
    WAIT = 1
    MaxHalves = 4
    MaxPresses = 2
    Editors <- MCEditors
    Msgs <- MCMsgs
    MAX_ATTEMPTS = 2
    OUTBOX_CAP = 1
    SENT_CAP = 1
    FAILED_CAP = 1
    MaxFaults = 2
    MaxLost = 1
    PromptEditors = {"a", "b"}
    MaxOpens = 3
    Dpis = {96, 120, 144, 192}
    Extra = {0, 7, 140}
    Screens <- MCScreens
    Centres <- MCCentres
    Chrome <- MCChrome
    Readers = {"r1", "r2"}
    Locales <- MCLocales
    NoLocale <- MCNoLocale
    Floors = {0, 2, 9}
    Values = {1, 3, 6, 9}
    ceiling = 6
    steps = {1, 2, 4}
    Deltas <- MCDeltas
    MaxMoved = 12
    Periods = {11, 13, 27, 30, 53, 100, 107}
    Chars = {"plain", "space", "quote", "backslash"}
    MaxArg = 3
    timeout_ms = 2
    Scopes = {"user", "machine"}
    Builds = {1, 2}
    VERSION = 2
    MaxCommands = 2
    MaxLoads = 2
    MaxEdits = 2
    MaxReleases = 3
INVARIANTS FeedbackSound CacheHonest SettingsFileHolds EditorSound InstallSound ArgumentsReach
PROPERTY AnswersTheClick
CHECK_DEADLOCK FALSE
