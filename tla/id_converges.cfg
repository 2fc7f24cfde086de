SPECIFICATION FairSpec
CONSTANTS
    Realms <- AllRealms
    Removable <- OfEachKind
    MaxSize = 3
    MaxSecrets = 2
    MaxFaults = 1
    MaxEvents = 1
INVARIANTS
    TypeOK
    ClientsBeforeAnalyzer
PROPERTIES
    CredentialsKept
    
    RedirectReturns
