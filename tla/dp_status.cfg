SPECIFICATION FairSpec
CONSTANTS
    Modes <- Both
    Connected <- SomeConnected
    Airgapped <- SomeAirgapped
    CRDAware <- Aware
    Breakable <- Everything
    Collected = FALSE
    MaxChanges = 1
CHECK_DEADLOCK FALSE
INVARIANTS
    TypeOK
PROPERTIES
    DeployedUnderFinalizer
    PhaseConverges
    PlatformDeleted
    
