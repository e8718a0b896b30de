CONSTANTS
    Key = {k1, k2, k3}
    Absent = Absent
    NoKey = NoKey
    NoCall = NoCall
    Val <- MCVal
    SizeOf <- MCSizeOf
    SizeMod = 16
    MaxMem = 5
    Policy = "lru"
    MaxTouches = 3
SPECIFICATION OrderSpec
INVARIANTS
    TypeOK
    Accounting
    WithinBudget
    MapsInStep
    EvictorKnowsEntries
    NeverEvictsFromEmpty
    LoopKnowsItsNeed
    ShrinkAlwaysFits
PROPERTIES
    SetReturns
    KeepsPromise
    EvictsLeastRecentlyUsed
\* The program stops where its behaviour is undefined.
CHECK_DEADLOCK FALSE
