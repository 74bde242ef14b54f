SPECIFICATION ThrottlerSpec
CONSTANTS
    pay = pay
    a = a
    b = b
    r1 = r1
    r2 = r2
    Keys <- MCKeys
    Payments <- MCPayments
    Calls <- MCCalls
    Limit = 1
    Ttl = 2
    Block = 1
    MaxKeys = 1
    MaxHits = 2
    NoCall = NoCall
CONSTRAINT OneCounter
SYMMETRY Alike
INVARIANTS
    LimiterHolds
    CountersExpire
CHECK_DEADLOCK FALSE
