SPECIFICATION Spec
CONSTANTS
    Buckets <- MCBuckets
    Looks <- MCLooks
    Days <- MCDays
    Dwell <- MCDwell
    PartialFills = {600}
    LastTick = 2
    Window = 1
    Grace = 1
    WindowEnd = 3
    SolarCutoff = 2
    AbortFrom = 1
    MaxCycles = 3
    MaxFaults = 1
INVARIANTS
    HedgeOrders
CHECK_DEADLOCK FALSE
