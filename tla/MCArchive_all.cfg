SPECIFICATION Spec
CONSTANTS
    Photo = {h1}
    Receipt = {r1, r2}
    Expense = {e1, e2}
    Request = {p1, p2}
    None = None
SYMMETRY Symmetry
CHECK_DEADLOCK FALSE
INVARIANTS
    ArchiveInv
    BytesArePresent
    BackupIsWhole
    DocumentIsFiledOnce
