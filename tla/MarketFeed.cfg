SPECIFICATION FairSpec
CONSTANTS
    Tokens = {t1, t2}
    Rules <- MCRules
    Levels = {1, 2}
    t1 = t1
    t2 = t2
    Deltas <- MCDeltas
    FirstBook <- MCFirstBook
    MaxAge = 0
    MaxClock = 2
    MaxChanges = 1
    MaxFaults = 1
INVARIANTS
    BooksSound
    FeedConsistent
    StampHonest
    NoTokenMissed
PROPERTIES
    BooksConverge
