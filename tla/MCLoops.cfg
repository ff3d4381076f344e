SPECIFICATION LoopsSpec
CONSTANTS
    MaxId = 1
    Foreign = {}
    Capacity = 3
    Span = 1
    Target = 2
    Quiet = 2
    Blocks = {2}
    MaxPushed = 4
    MaxOverruns = 1
    MaxLosses = 1
PROPERTIES TracksAreServed WaitsEnd HttpServes
