SPECIFICATION FairSpec
CONSTANTS
    root = root
    child = child
    NoPipeline = NoPipeline
    Pipeline <- One
    Parent <- Alone
    TriggerType <- Manual
    Incremental <- NoOne
    Base <- NoBase
    Signing = "none"
    Deletable <- NoOne
    Growable <- One
    MaxRuns = 1
    MaxDay = 1
    MaxSize = 1
    MaxTriggers = 1
    MaxFaults = 0
    MaxPrunes = 0
CHECK_DEADLOCK FALSE
PROPERTIES
    TriggerHonoured
