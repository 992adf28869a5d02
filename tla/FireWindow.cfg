SPECIFICATION Spec
CONSTANTS
    Sessions <- MCSessions
    Fires <- MCFires
    Kind <- MCKind
    Key <- MCKey
    Legs <- MCLegs
    FireOf <- MCFireOf
    Token <- MCToken
    Tokens <- MCTokens
    YesLegs <- MCYesLegs
    Cap <- MCCap
    Floor <- MCFloor
    Target <- MCTarget
    Setups <- MCSetups
    Ladders <- MCLadders
    One = 3
    Absent = Absent
    Bad = Bad
    DefaultLo = 1
    DefaultHi = 3
    DustTop = 2
    NextBucket = NextBucket
    TargetBucket = TargetBucket
    NoChannel = NoChannel
    Channel <- MCChannel
    Bands <- MCBands
    MinSizes <- MCMinSizes
    Capital = 6
    Rungs = 2
    NoFire = NoFire
    NoLeg = NoLeg
    MaxFaults = 1
INVARIANTS
    TypeOK
    LedgerMatches
    WalletExplained
    SpendBounded
    CostNotInflated
    DepthConserved
    FiredOnce
