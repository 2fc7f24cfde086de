SPECIFICATION Spec
CONSTANTS
    root = root
    child = child
    NoPipeline = NoPipeline
    Pipeline <- Two
    Parent <- Family
    TriggerType <- Manual
    Incremental <- NoOne
    Base <- NoBase
    Signing = "none"
    Deletable <- One
    Growable <- NoOne
    MaxRuns = 2
    MaxDay = 1
    MaxSize = 1
    MaxTriggers = 0
    MaxFaults = 0
    MaxPrunes = 0
CHECK_DEADLOCK FALSE
INVARIANTS
    VolumeOutlivesUse
ACTION_CONSTRAINT
    PromptCaches
