SPECIFICATION Spec
CONSTANTS
    u1 = u1
    u2 = u2
    p1 = p1
    c1 = c1
    r1 = r1
    r2 = r2
    Users <- MCUsers
    Anonymous = Anonymous
    Posts <- MCPosts
    Comments <- MCComments
    PostOf <- MCPostOf
    Author <- MCAuthor
    Admins <- MCAdmins
    Requests <- MCRequests
    None = None
SYMMETRY Alike
CONSTRAINT Small
INVARIANTS
    LikesAreCounted
    CopiesAreCurrent
CHECK_DEADLOCK FALSE
