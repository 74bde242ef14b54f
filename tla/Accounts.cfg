SPECIFICATION AccountsSpec
CONSTANTS
    u1 = u1
    u2 = u2
    t1 = t1
    t2 = t2
    google = google
    r1 = r1
    r2 = r2
    Users <- MCUsers
    Tokens <- MCTokens
    Profiles <- MCProfiles
    Requests <- MCRequests
    Others <- MCOthers
    Attempts = 2
    MaxOpen = 2
    Nothing = Nothing
CONSTRAINT FewOrRoles
SYMMETRY Alike
INVARIANTS
    AccountsAreSound
    DeadAfterAllTries
CHECK_DEADLOCK FALSE
