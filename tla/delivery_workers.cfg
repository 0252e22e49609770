CONSTANTS
    m1 = m1
    m2 = m2
    w1 = w1
    w2 = w2
    wd = wd
    None = None
    Messages <- OneRpc
    Rpc <- OneRpc
    Workers <- TwoWorkers
    SubscribedTo <- Subscription
    RetryMax <- OneRetry
    DeadLettering = {"work"}
    Limit <- CrashAndClose
    MaxCopies = 8
    Prefetch = 1
SPECIFICATION Spec
INVARIANTS TypeOK NoLoss RetryLadder DeadLetterExhausted RunsOnce AttemptBudget
CHECK_DEADLOCK FALSE
