CONSTANTS
    Key = {k1, k2, k3, k4}
    NoKey = NoKey
    Node = {n1, n2, n3, n4}
    Null = Null
SPECIFICATION Spec
INVARIANTS
    TypeOK
    OnlyMappedNodesLive
    DereferencesAreDefined
    ListIsConsistent
PROPERTY
    ImplementsPolicy
\* Nothing is called on an evictor that has been destroyed.
CHECK_DEADLOCK FALSE
