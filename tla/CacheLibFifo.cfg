CONSTANTS
    Key = {k1, k2}
    Absent = Absent
    NoKey = NoKey
    NoCall = NoCall
    Val <- MCVal
    SizeOf <- MCSizeOf
    SizeMod = 16
    MaxMem = 5
    Policy = "fifo"
    MaxTouches = 4
SPECIFICATION Spec
ACTION_CONSTRAINT BoundedTouches
INVARIANTS
    WithinBudget
    EvictorKnowsEntries
    NeverEvictsFromEmpty
PROPERTIES
    SetReturns
    KeepsPromise
\* The program stops where its behaviour is undefined.
CHECK_DEADLOCK FALSE
