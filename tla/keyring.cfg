CONSTANTS
    Key = {k1, k2, k3}
    Proc = {p1, p2}
    TTL = 2
    MaxStall = 1
    Overlap = 3
    MaxNow = 7
    NoKey = NoKey
SYMMETRY Symmetry
SPECIFICATION Spec
INVARIANTS
    TypeOK
    OneActiveKey
    TokensVerifiable
    RecordedKeysHaveFiles
PROPERTIES
    LifecycleForward
    SigningNeverLost
    ImplementsRing
    ServesJwks
CHECK_DEADLOCK FALSE
