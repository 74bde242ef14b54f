SPECIFICATION FairSpec
CONSTANTS
    r1 = r1
    r2 = r2
    r3 = r3
    Requests <- MCRequests
    Payload <- MCPayload
    None = None
INVARIANTS
    TypeOK
    Serialised
    AnswersFit
PROPERTIES
    RequestsEnd
CHECK_DEADLOCK FALSE
