SPECIFICATION Spec
CONSTANTS
    Sessions <- LockSessions
    Legs <- LockLegs
    Owner <- LockOwner
    YesLegs <- LockLegs
    RefireLegs = {}
    Restable <- LockLegs
    Lane <- LockLane
    NoLeg = NoLeg
    Lots = {3, 5}
    MinOrder = 2
    TpMin = 2
    TpHalf = 4
    MaxAttempts = 1
    Floor = 1
    Slip = 1
    TpBid = 3
    MaxBid = 3
    MaxFaults = 2
INVARIANTS
    TypeOK
    Conserved
    Backed
    SellGuarded
    AttemptsCapped
    LiquidatedIsFlat
