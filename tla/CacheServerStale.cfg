CONSTANTS
    Key = {k1, k2}
    Absent = Absent
    NoKey = NoKey
    NoCall = NoCall
    Val <- MCVal
    SizeOf <- MCSizeOf
    SizeMod = 8
    MaxMem = 2
    Policy = "lru"
    Session = {s1, s2}
    NThreads = 2
    NoSession = NoSession
    NoRequest = NoRequest
    NoReply = NoReply
    Torn = Torn
SPECIFICATION ServerSpec
INVARIANT
    GetAnswersItsOwnKey
CHECK_DEADLOCK FALSE
