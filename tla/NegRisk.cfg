SPECIFICATION EitherSpec
CONSTANTS
    Tokens = {a, b, o}
    Other = o
    Books <- MCBooks
    a = a
    b = b
    o = o
    MaxAge = 3
    MaxSkew = 1
    One = 10
    Hurdle = 1
    HalfSpread = 1
    QuoteSize = 10
    Capital = 40
    Budget = 12
    MinArbCash = 6
    MinMakerCash = 3
    Chunk = 12
    InvCap = 16
    SellCap = 3
    NoWinner = NoWinner
    MaxTrades = 4
    Counts = {2, 3}
    Size = 2
INVARIANTS
    AccountSound
    EquityExplained
    BasketSafe
CHECK_DEADLOCK FALSE
