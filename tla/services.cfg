CONSTANTS
    d = d
    t = t
    u = u
    a = a
    b = b
    toD = toD
    toT = toT
    master = master
    gateway = gateway
    Dead = Dead
    Subscriptions <- AllSubscriptions
    ServiceOf <- ServiceNames
    QualifierOf <- Qualifiers
    ExchangeNameOf <- ExchangeNames
    Wildcards <- HelloMatches
    DeadLetterQualifier <- BareName
    Agents = {a, b}
    Origins = {toD, toT, master, gateway}
    PublishedTo <- Targets
    Gateway = {gateway}
    Unknown <- OldAgent
    RetryOf <- Retries
    MaxTimeout = 6
    MaxReplyFaults = 1
SPECIFICATION Spec
INVARIANTS TypeOK RetryReachesItself RetryStaysHome BackoffKept DeadLetterArrives NothingUncounted
CHECK_DEADLOCK FALSE
