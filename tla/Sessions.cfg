SPECIFICATION Spec
CONSTANTS
    d1 = d1
    d2 = d2
    d3 = d3
    l1 = l1
    l2 = l2
    l3 = l3
    Devices <- MCDevices
    Logins <- MCLogins
    MaxDevices = 1
    MaxRequests = 1
    MaxSecond = 1
    None = None
CONSTRAINT FewLater
SYMMETRY DevicesAndLogins
INVARIANTS
    TypeOK
    SessionsBounded
    LoginTokenFits
PROPERTIES
    ImplementsTokens
CHECK_DEADLOCK FALSE
