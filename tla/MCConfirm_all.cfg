SPECIFICATION FairSpec
CONSTANTS
    v1 = v1
    shop = shop
    c1 = c1
    Visit = {v1}
    Category = {c1}
    Merchant = {shop}
    Reading = {shop}
    MaxCalls = 2
    MaxOthers = 1
    None = None
CHECK_DEADLOCK FALSE
INVARIANTS
    ConfirmInv
    NoticeIsTrue
PROPERTIES
    RulesAreApproved
    SavesEnd
