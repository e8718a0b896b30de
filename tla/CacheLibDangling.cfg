CONSTANTS
    Key = {k1, k2}
    Absent = Absent
    NoKey = NoKey
    NoCall = NoCall
    Val <- MCVal
    SizeOf <- MCSizeOf
    SizeMod = 16
    MaxMem = 5
    Policy = "lru"
    MaxTouches = 2
SPECIFICATION Spec
INVARIANT
    SetIsDefined
CHECK_DEADLOCK FALSE
