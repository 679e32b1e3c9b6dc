SPECIFICATION Spec
CONSTANTS
    b1 = b1
    f1 = f1
    f2 = f2
    Tab = {b1}
    Flow = {f1, f2}
    Token = {t1, t2, t3}
    home <- Homes
    None = None
    Retries = 1
    MaxLoads = 1
CHECK_DEADLOCK FALSE
INVARIANT SignOutIsFinal
