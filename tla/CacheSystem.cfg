CONSTANTS
    Key = {k1}
    Absent = Absent
    NoKey = NoKey
    NoCall = NoCall
    Val <- MCVal
    SizeOf <- MCSizeOf
    SizeMod = 8
    MaxMem = 3
    Policy = "lru"
    Session = {s1, s2}
    NThreads = 1
    NoSession = NoSession
    NoRequest = NoRequest
    NoReply = NoReply
    Torn = Torn
    NoClient = NoClient
    Garbles <- MCGarbles
    Flaky = {s1}
SPECIFICATION BoundedSystemSpec
INVARIANTS
    SystemTypeOK
    InLockstep
    SizesFitInt
    GetAnswersItsOwnKey
    ResetLeavesNoSpaceUsed
PROPERTIES
    ImplementsSerialServer
    ImplementsRemoteCache
    CallsEnd
\* The program stops where its behaviour is undefined or an assertion fails.
CHECK_DEADLOCK FALSE
