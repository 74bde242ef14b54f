SPECIFICATION MessagesSpec
CONSTANTS
    u1 = u1
    u2 = u2
    m1 = m1
    m2 = m2
    f1 = f1
    f2 = f2
    r1 = r1
    r2 = r2
    Users <- MCUsers
    AdminUsers <- MCAdmins
    Readers <- MCReaders
    Ids <- MCIds
    Files <- MCFiles
    Requests <- MCRequests
    BatchLimit = 1
    MaxBegun = 3
    None = None
    Gone = Gone
SYMMETRY Alike
INVARIANTS
    MessagesAreKept
PROPERTIES
    RowsGoAfterFiles
CHECK_DEADLOCK FALSE
