CONSTANTS
    Req = {r1, r2}
    Kid = {k1, k2}
    First = k1
    User = {alice}
    JwksTTL = 1
    StaleTTL = 1
    StatusTTL = 1
    UnknownTTL = 1
    Cooldown = 1
    Delay = 1
    MaxVersion = 0
    MaxNow = 1
    NoReq = NoReq
    NoKid = NoKid
    NoUser = NoUser
SPECIFICATION FairSpec
PROPERTIES
    RequestsAnswered
CHECK_DEADLOCK FALSE
