CONSTANTS
    Login = {web, native}
    Native = {native}
    Account = {a1, a2}
    Txn = {t1, t2}
    PCode = {p1, p2}
    Code = {c1, c2}
    Grant = {g1, g2}
    Req = {r1, r2}
    MaxVersion = 2
    NoLogin = NoLogin
    NoAccount = NoAccount
    NoTxn = NoTxn
    NoPCode = NoPCode
    NoCode = NoCode
    NoGrant = NoGrant
SYMMETRY Symmetry
SPECIFICATION Spec
INVARIANTS
    TypeOK
    SessionMatchesLogin
    CodeSpentByFirstUse
    LogoutRevokes
PROPERTIES
    LoginNeverReactivates
    ImplementsPromise
CHECK_DEADLOCK FALSE
