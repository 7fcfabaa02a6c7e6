CONSTANTS
    Req = {r1, r2}
    Kid = {k1}
    First = k1
    User = {alice}
    JwksTTL = 2
    StaleTTL = 1
    StatusTTL = 2
    UnknownTTL = 2
    Cooldown = 1
    Delay = 2
    MaxVersion = 2
    MaxNow = 6
    NoReq = NoReq
    NoKid = NoKid
    NoUser = NoUser
SYMMETRY Symmetry
VIEW View
SPECIFICATION Spec
PROPERTIES
    RevocationBounded
CHECK_DEADLOCK FALSE
