SPECIFICATION FairSpec
CONSTANTS
    n1 = n1
    n2 = n2
    role = role
    gateway = gateway
    Nodes <- TwoNodes
    Guids <- ThreeGuids
    Types <- TwoTypes
    Home <- HomeOf
    TypeOf <- Roles
    MaxSend = 1
INVARIANTS TypeOK AtMostOnce
PROPERTIES AddresseeReached
CHECK_DEADLOCK FALSE
