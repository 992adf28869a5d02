SPECIFICATION Spec
CONSTANTS
    Cities = {c1, c2}
    c1 = c1
    c2 = c2
    FastPoll = 1
    Scan = 2
    RulesTTL = 5
    IdleBook = 5
    ArmBook = 2
    IdleMetar = 5
    ArmMetar = 2
    Recent = 1
    Cooldown = 1
    Midnight = 4
    MaxClock = 6
    MaxSlow = 1
    MaxSilent = 2
    MaxFaults = 1
INVARIANTS
    FedToday
    ArmedFeedsHot
    EveryFeedPolled
PROPERTIES
    RulesSteady
CHECK_DEADLOCK FALSE
SYMMETRY MCSymmetry
