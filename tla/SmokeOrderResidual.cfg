SPECIFICATION Spec
CONSTANTS
    One = 20
    Tick = 2
    MinSize = 5
    Cap = 18
    Dust = 1
    FireBudget = 60
    MaxOpen = 2
    MaxCapital = 200
    Tokens <- MCTokens
    Sessions <- MCSessions
    Books <- MCBooks
    Accounts <- MCAccounts
    Commands <- MCCommands
    OtherPrices = {4, 6}
    Attempts = 2
    ListAttempts = 2
    MaxMoves = 2
    MaxFaults = 2
    MaxTurns = 0
INVARIANT ResidualReported
CHECK_DEADLOCK FALSE
