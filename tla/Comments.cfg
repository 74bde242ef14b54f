SPECIFICATION FairSpec
CONSTANTS
    c1 = c1
    d1 = d1
    Comments <- MCComments
    Deleters <- MCDeleters
    MaxVersion = 2
    MaxTries = 2
    MaxRequests = 1
    MaxTally = 2
    Idle = Idle
INVARIANTS
    TypeOK
    StatusMatchesVerdict
    ApprovedWasJudged
PROPERTIES
    RejectionStands
    JobsEnd
CHECK_DEADLOCK FALSE
