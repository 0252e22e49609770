CONSTANTS
    m1 = m1
    m2 = m2
    w1 = w1
    w2 = w2
    wd = wd
    None = None
    Messages <- OneRpc
    Rpc <- OneRpc
    Workers <- OneWorker
    SubscribedTo <- Subscription
    RetryMax <- OneRetry
    DeadLettering = {"work"}
    Limit <- OneCloseFault
    MaxCopies = 7
    Prefetch = 1
SPECIFICATION Spec
INVARIANTS SameChannelAck
CHECK_DEADLOCK FALSE
