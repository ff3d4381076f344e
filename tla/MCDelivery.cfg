SPECIFICATION DeliverySpec
CONSTANTS
    p1 = p1
    p2 = p2
    Procs <- MCProcs
    None = None
    MaxVersion = 2
    MaxCrashes = 1
PROPERTIES Offered Resolved
CHECK_DEADLOCK FALSE
