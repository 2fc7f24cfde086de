SPECIFICATION FairSpec
CONSTANTS
    first = first
    second = second
    v1 = v1
    NoImport = NoImport
    NoVersion = NoVersion
    Import <- One
    Version <- Versions
    CollectionVersion <- Mixed
    Deletable <- One
    MaxRuns = 2
    MaxFaults = 1
    MaxPrunes = 1
    MaxEdits = 1
CHECK_DEADLOCK FALSE
PROPERTIES
    ImportSettles
    ImportRecorded
