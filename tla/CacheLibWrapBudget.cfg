CONSTANTS
    Key = {k1, k2}
    Absent = Absent
    NoKey = NoKey
    NoCall = NoCall
    Val <- MCValWide
    SizeOf <- MCSizeOf
    SizeMod = 8
    MaxMem = 6
    Policy = "lru"
    MaxTouches = 2
SPECIFICATION Spec
INVARIANT
    WithinBudget
CHECK_DEADLOCK FALSE
