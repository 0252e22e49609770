CONSTANTS
    m1 = m1
    m2 = m2
    w1 = w1
    w2 = w2
    wd = wd
    None = None
    Messages <- TwoMessages
    Rpc <- OneRpc
    Workers <- OneWorker
    SubscribedTo <- Subscription
    RetryMax <- NoRetry
    DeadLettering = {}
    Limit <- WithResubscribe
    MaxCopies = 8
    Prefetch = 2
SPECIFICATION Spec
INVARIANTS NoLoss DeadLetterExhausted
CHECK_DEADLOCK FALSE
