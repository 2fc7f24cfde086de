SPECIFICATION FairSpec
CONSTANTS
    base = base
    update = update
    first = first
    second = second
    third = third
    NoRun = NoRun
    Run <- Three
    Collection <- Family
    Of <- BaseThenUpdate
    Earlier <- InOrder
    Child <- Updates
    Prefixed <- NoName
    Config <- Both
    MaxChunk = 2
    Faults = {"task", "part", "abort"}
    MaxFaults = 1
CHECK_DEADLOCK FALSE
INVARIANTS
    TypeOK
    
    
    CompleteIsComplete
    

    
