CONSTANTS
    m1 = m1
    m2 = m2
    w1 = w1
    w2 = w2
    wd = wd
    None = None
    Messages <- OneRpc
    Rpc <- OneRpc
    Workers <- OneWorkerAndDead
    SubscribedTo <- Subscription
    RetryMax <- OneRetry
    DeadLettering = {"work", "dead"}
    Limit <- CrashAndPublish
    MaxCopies = 7
    Prefetch = 1
SPECIFICATION FairSpec
INVARIANTS RpcAnswered
PROPERTIES Delivered ImplementsAtLeastOnce
CHECK_DEADLOCK FALSE
