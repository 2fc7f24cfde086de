SPECIFICATION Spec
CONSTANTS
    first = first
    second = second
    v1 = v1
    NoImport = NoImport
    NoVersion = NoVersion
    Import <- Two
    Version <- Versions
    CollectionVersion <- Mixed
    Deletable <- NoOne
    MaxRuns = 2
    MaxFaults = 1
    MaxPrunes = 1
    MaxEdits = 1
CHECK_DEADLOCK FALSE
INVARIANTS
    TypeOK
    ImportIsReal
    ImportHistoryIsTrue
