SPECIFICATION FairSpec
CONSTANTS
    s1 = s1
    s2 = s2
    tester = tester
    other = other
    NoAddress = NoAddress
    Socket <- MCSocket
    Address <- MCAddress
    AcceptableAddress <- MCAcceptable
    InitialInactivity = 2
    GeneralInactivity = 2
    Settings <- MCSettings
    Capacity = 1
    Plans <- MCPlans
    Chunks <- MCChunks
    LastDue = 1
INVARIANTS
    NoOrphanEntry
PROPERTIES
    RoutedOnlyAfterTheTesterWasTold
    NoReplyBeforeItIsDue
    
    UnactivatedSocketEnds
