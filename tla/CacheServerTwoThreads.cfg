CONSTANTS
    Key = {k1, k2}
    Absent = Absent
    NoKey = NoKey
    NoCall = NoCall
    Val <- MCVal
    SizeOf <- MCSizeOf
    SizeMod = 8
    MaxMem = 2
    Policy = "lru"
    Session = {s1, s2}
    NThreads = 2
    NoSession = NoSession
    NoRequest = NoRequest
    NoReply = NoReply
    Torn = Torn
SPECIFICATION ServerSpec
INVARIANTS
    ServerTypeOK
    OneCallAtATime
    SpaceReportedIsWithinBudget
    OnlyGetsDisturbGets
PROPERTIES
    MutexIsReleased
    RequestsAreAnswered
    SerialButForCopies
\* The program stops where its behaviour is undefined or an assertion fails.
CHECK_DEADLOCK FALSE
