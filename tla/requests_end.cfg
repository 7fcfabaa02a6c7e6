CONSTANTS
    User = {root, alice}
    Role = {"admin"}
    Admins = {root}
    Subject = {alice}
    Grant = {g1, g2}
    Req = {r1, r2}
    MaxVersion = 2
    NoUser = NoUser
    NoGrant = NoGrant
    NoRole = NoRole
SPECIFICATION FairSpec
PROPERTIES
    RequestsEnd
CHECK_DEADLOCK FALSE
