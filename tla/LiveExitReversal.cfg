SPECIFICATION FairSpec
CONSTANTS
    Sessions <- RevSessions
    Legs <- RevLegs
    Owner <- RevOwner
    YesLegs <- RevLegs
    RefireLegs <- RevRefire
    Restable <- RevRestable
    Lane <- RevLane
    NoLeg = NoLeg
    Lots = {3}
    MinOrder = 2
    TpMin = 1
    TpHalf = 2
    MaxAttempts = 1
    Floor = 1
    Slip = 1
    TpBid = 2
    MaxBid = 1
    MaxFaults = 0
INVARIANTS
    RemainderTracked
PROPERTIES
    PendingExitsComplete
