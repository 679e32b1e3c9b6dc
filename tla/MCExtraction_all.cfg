SPECIFICATION FairSpec
CONSTANTS
    Upload = {u1, u2}
    Image = {i1}
    Receipt = {r1}
    Attempt = {1, 2}
    Readable = {i1}
    configured <- Service
    Payload <- Payloads
    Lines <- LineLists
    None = None
    MaxClock = 1
CHECK_DEADLOCK FALSE
INVARIANTS
    ExtractionInv
    ListIsNoOlder
PROPERTIES
    ImplementsReceiptReadings
    UploadIsAnswered
