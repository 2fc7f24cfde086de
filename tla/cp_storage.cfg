SPECIFICATION FairSpec
CONSTANTS
    root = root
    child = child
    NoPipeline = NoPipeline
    Pipeline <- One
    Parent <- Alone
    TriggerType <- Manual
    Incremental <- One
    Base <- Bases
    Signing = "none"
    Deletable <- One
    Growable <- One
    MaxRuns = 1
    MaxDay = 2
    MaxSize = 2
    MaxTriggers = 0
    MaxFaults = 1
    MaxPrunes = 0
CHECK_DEADLOCK FALSE
PROPERTIES
    DeletionCompletes
