SPECIFICATION FairSpec
CONSTANTS
    v1 = v1
    c1 = c1
    c2 = c2
    shop = shop
    myr = myr
    Visit = {v1}
    Category = {c1, c2}
    Code = {myr}
    Name = {shop}
    MaxTyped = 1
    MaxCalls = 2
    MaxOthers = 1
    None = None
CHECK_DEADLOCK FALSE
INVARIANTS
    DetailInv
    OwnDeleteIsNotMissing
PROPERTIES
    OnlyTypedIsWritten
    EditsEnd
