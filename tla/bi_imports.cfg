SPECIFICATION FairSpec
CONSTANTS
    big = big
    small = small
    first = first
    second = second
    master = master
    NoBundle = NoBundle
    Bundle <- Both
    Name <- Names
    CRName <- Named
    Size <- Sizes
    MaxSize = 2
    Node <- OneMaster
    Job <- OneJob
    Given <- Either
    MaxRuns = 2
    MaxFaults = 1
CHECK_DEADLOCK FALSE
INVARIANTS
    TypeOK
    CompleteIsThere
    ManifestsAfterContent
PROPERTIES
    BundlesImported
