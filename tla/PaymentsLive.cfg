SPECIFICATION FairSpec
CONSTANTS
    p1 = p1
    p2 = p2
    t1 = t1
    t2 = t2
    thePost = thePost
    MaxWebhooks = 3
    MaxOfOne = 3
    NoTxn = NoTxn
    NoAttempt = NoAttempt
    Payments <- MCOnePayment
    Posts <- MCPosts
    PostOf <- MCPostOfOne
    Txns = {t1}
PROPERTIES
    WebhooksAnswered
CHECK_DEADLOCK FALSE
