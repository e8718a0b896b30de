CONSTANTS
    Key = {k1, k2, k3}
    Absent = Absent
    NoKey = NoKey
    NoCall = NoCall
    Val <- MCVal
    SizeOf <- MCSizeOf
    SizeMod = 16
    MaxMem = 5
    Policy = "none"
    MaxTouches = 1
SPECIFICATION Spec
INVARIANTS
    Accounting
    WithinBudget
    ShrinkAlwaysFits
