SPECIFICATION FairSpec
CONSTANTS
    MaxChange = 2
CHECK_DEADLOCK FALSE
INVARIANTS
    TypeOK
PROPERTIES
    NoLostUpdate
    Heals
    
    
