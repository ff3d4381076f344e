SPECIFICATION Spec
CONSTANTS
    Recoverable = {"DeviceLost", "DeviceNotFound"}
    Fatal = {"StreamInit"}
    SettleAfter = 2
    MaxUnplugs = 2
    MaxGlitches = 2
INVARIANTS NeverSettledEarly
