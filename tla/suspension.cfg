CONSTANTS
    User = {root, alice}
    Role = {"admin"}
    Admins = {root}
    Subject = {alice}
    Grant = {g1, g2}
    Req = {r1, r2}
    MaxVersion = 3
    NoUser = NoUser
    NoGrant = NoGrant
    NoRole = NoRole
SYMMETRY Symmetry
SPECIFICATION Spec
PROPERTIES
    SuspensionHolds
CHECK_DEADLOCK FALSE
