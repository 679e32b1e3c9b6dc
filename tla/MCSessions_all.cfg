SPECIFICATION Spec
CONSTANTS
    User = {u1}
    Sid = {s1, s2, s3}
    Request = {p1, p2}
    None = None
    TTL = 1
    Retention = 0
    MaxClock = 1
    MaxPassword = 1
SYMMETRY Symmetry
INVARIANTS
    ReplayIsDetected
    ReplayInv
PROPERTIES
    SnapshotIsRevoked
    RevocationIsFinal
    ImplementsSessionLine
