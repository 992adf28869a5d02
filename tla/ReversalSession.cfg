SPECIFICATION Spec
CONSTANTS
    Sessions <- MCSessions
    Temps = {1, 2, 3}
    Width = 1
    Margin = 0
    Curves <- MCCurves
    SleeveBuckets = {2}
    MaxEntries = 1
    MaxFaults = 1
    Capital = 3
    StrategyCap = 0
    MaxFires = 2
    SleeveOn = TRUE
    NoSession = NoSession
INVARIANTS
    RecordsSound
    FiresSound
    LedgerSound
PROPERTIES
    LifeGoesForward
