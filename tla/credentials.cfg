CONSTANTS
    User = {alice}
    Token = {t1, t2}
    Password = {p1, p2}
    Req = {r1, r2}
    MaxWrong = 6
    NoUser = NoUser
    NoToken = NoToken
    NoPassword = NoPassword
    NoReq = NoReq
SYMMETRY Symmetry
SPECIFICATION Spec
INVARIANTS
    TypeOK
    TokenRedeemedOnce
    LockoutEarned
    MailedTokenStored
PROPERTIES
    OwnTokenOnly
    LockHolds
CHECK_DEADLOCK FALSE
