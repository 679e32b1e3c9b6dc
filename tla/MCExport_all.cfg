SPECIFICATION FairExport
CONSTANTS
    Expense = {1, 2, 3}
    Date = {1, 2}
    Receipt = {r1}
    Null = Null
    BatchSize = 2
    MaxWrites = 2
CHECK_DEADLOCK FALSE
INVARIANTS
    ExportInv
    SteadyIsExportedOnce
    SteadyCellIsTrue
    DoneIsWhole
PROPERTIES
    ExportEnds
