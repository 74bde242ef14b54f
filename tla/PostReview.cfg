SPECIFICATION Spec
CONSTANTS
    p1 = p1
    m1 = m1
    m2 = m2
    Posts <- MCPosts
    Staff <- MCStaff
    Admin = admin
    None = None
    Tried <- MCTried
    MaxDeciding = 2
    MaxReviews = 3
CONSTRAINT FewWriters
SYMMETRY StaffSymmetry
INVARIANTS
    TypeOK
    NewestReviewIsActive
    ApprovalDecidesStatus
PROPERTIES
    PublishedByDecision
    ImplementsHistory
CHECK_DEADLOCK FALSE
