CONSTANTS
    s1 = s1
    s2 = s2
    s3 = s3
    Keys <- TwoKeys
    Shared <- Channel0
    DebugKeys = {}
    DeadLettering = FALSE
    Exchanges = {}
    MaxChannels = 3
    MaxAsserts = 0
    MaxFaults = 1
    Subscriptions = {s1, s2, s3}
    QualifierOf <- Qualifiers
    PrefetchOf <- Prefetches
    Topics = {s2}
    Hanging = {s2}
    Slow = {s1, s2}
    MaxUnacked = 2
SPECIFICATION Spec
INVARIANTS TypeOK OutcomeIsTrue PrefetchBound
PROPERTIES SubscribeSettles IsolatedSetup
CHECK_DEADLOCK FALSE
