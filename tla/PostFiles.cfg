SPECIFICATION Spec
CONSTANTS
    k1 = k1
    k2 = k2
    k3 = k3
    r1 = r1
    r2 = r2
    Posts = {p1}
    Keys <- MCKeys
    Requests <- MCRequests
    MaxFiles = 2
    MaxLinks = 2
    None = None
SYMMETRY KeysAndRequests
INVARIANTS
    TypeOK
    AtMostMaxFiles
    OneMainImage
PROPERTIES
    ImplementsGallery
CHECK_DEADLOCK FALSE
