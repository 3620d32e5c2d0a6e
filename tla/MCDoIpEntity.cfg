SPECIFICATION EntitySpec
CONSTANTS
    s1 = s1
    s2 = s2
    s3 = s3
    testerA = testerA
    testerB = testerB
    testerC = testerC
    ecu = ecu
    NoAddress = NoAddress
    Socket <- MCSocket
    Address <- MCAddress
    AcceptableAddress <- MCAcceptable
    InitialInactivity = 2
    GeneralInactivity = 3
    Settings <- MCSettings
    Capacity = 2
    Plans <- MCPlans
SYMMETRY Symmetry
INVARIANTS
    UniqueSourceAddress
    
PROPERTIES
    RoutingIsGrantedOnce
