SPECIFICATION Spec
CONSTANTS
    root = root
    child = child
    NoPipeline = NoPipeline
    Pipeline <- One
    Parent <- Alone
    TriggerType <- Manual
    Incremental <- NoOne
    Base <- NoBase
    Signing = "enabled"
    Deletable <- NoOne
    Growable <- NoOne
    MaxRuns = 2
    MaxDay = 1
    MaxSize = 1
    MaxTriggers = 1
    MaxFaults = 1
    MaxPrunes = 1
CHECK_DEADLOCK FALSE
INVARIANTS
    TypeOK
    CompleteIsReal
    BoundRunAgrees
    HistoryIsTrue
PROPERTIES
    RefNeverSwapped
    ImplementsLifecycle
