SPECIFICATION Spec
CONSTANTS
    p1 = p1
    p2 = p2
    t1 = t1
    t2 = t2
    thePost = thePost
    MaxWebhooks = 2
    MaxOfOne = 4
    NoTxn = NoTxn
    NoAttempt = NoAttempt
    Payments <- MCPayments
    Posts <- MCPosts
    PostOf <- MCPostOf
    Txns <- MCTxns
SYMMETRY Alike
INVARIANTS
    TypeOK
    ConfirmedIffSuccess
    LedgerMatchesRows
    CreditedOnce
    LastAttemptBacksConfirmation
PROPERTIES
    ConfirmationIsFinal
    ImplementsLedger
CONSTRAINT FewWebhooks
CHECK_DEADLOCK FALSE
