SPECIFICATION Spec
CONSTANTS
    Account = {a1}
    Token = {t1, t2, t3}
    Request = {p1, p2}
    None = None
    VerifyTTL = 2
    ResetTTL = 1
    Throttle = 1
    MaxClock = 2
SYMMETRY Symmetry
CHECK_DEADLOCK FALSE
INVARIANTS
    LinkInv
    NobodyIsStranded
PROPERTIES
    PasswordNeedsLink
    ThrottleCountsMails
