CONSTANTS
    Browser = {b1, b2}
    Flow = {f1, f2}
    Subject = {s1}
    User = {u0, u1, u2}
    LocalUser = u0
    Key = {k1, k2}
    Req = {r1, r2}
    NoBrowser = NoBrowser
    NoFlow = NoFlow
    NoSubject = NoSubject
    NoUser = NoUser
    NoKey = NoKey
    NoProvider = NoProvider
    NoMail = NoMail
SYMMETRY Symmetry
SPECIFICATION Spec
CHECK_DEADLOCK FALSE
INVARIANT SignUpPossible
