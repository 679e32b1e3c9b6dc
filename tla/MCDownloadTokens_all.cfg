SPECIFICATION FairSpec
CONSTANTS
    u1 = u1
    User = {u1, u2}
    Token = {t1, t2}
    Request = {p1, p2}
    Screen = {s1}
    account <- Accounts
    None = None
    TTL = 1
    MaxClock = 2
CHECK_DEADLOCK FALSE
INVARIANTS
    DownloadInv
    LiveTokenIsKept
PROPERTIES
    ImplementsOneTimeLink
    ZipPressEnds
