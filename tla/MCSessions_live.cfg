SPECIFICATION FairSpec
CONSTANTS
    User = {u1}
    Sid = {s1, s2, s3}
    Request = {p1, p2}
    None = None
    TTL = 1
    Retention = 0
    MaxClock = 0
    MaxPassword = 1
PROPERTIES
    RequestsAreAnswered
