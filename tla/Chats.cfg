SPECIFICATION Spec
CONSTANTS
    u1 = u1
    u2 = u2
    u3 = u3
    p1 = p1
    c1 = c1
    c2 = c2
    r1 = r1
    r2 = r2
    Users <- MCUsers
    Verified <- MCVerified
    Clients <- MCClients
    Leavers <- MCLeavers
    Parties <- MCParties
    Author <- MCAuthor
    Purged <- MCPurged
    ChatIds <- MCChatIds
    Requests <- MCRequests
    MaxRequests = 2
    None = None
    Gone = Gone
CONSTRAINT FewLeave
SYMMETRY RequestsAlike
INVARIANTS
    ChatsAreKept
    ListIsCurrent
CHECK_DEADLOCK FALSE
