CONSTANTS
    Req = {r1, r2}
    Kid = {k1, k2}
    First = k1
    User = {alice}
    JwksTTL = 2
    StaleTTL = 1
    StatusTTL = 1
    UnknownTTL = 2
    Cooldown = 1
    Delay = 1
    MaxVersion = 0
    MaxNow = 6
    NoReq = NoReq
    NoKid = NoKid
    NoUser = NoUser
SYMMETRY Symmetry
VIEW View
SPECIFICATION Spec
PROPERTIES
    OnlyUnexpiredKeys
CHECK_DEADLOCK FALSE
