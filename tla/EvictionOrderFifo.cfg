CONSTANTS
    Key = {k1, k2, k3}
    Absent = Absent
    NoKey = NoKey
    NoCall = NoCall
    Val <- MCVal
    SizeOf <- MCSizeOf
    SizeMod = 16
    MaxMem = 3
    Policy = "fifo"
    MaxTouches = 6
SPECIFICATION BoundedOrderSpec
PROPERTY
    EvictsFirstIn
\* The program stops where its behaviour is undefined.
CHECK_DEADLOCK FALSE
