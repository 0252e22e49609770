CONSTANTS
    d = d
    t = t
    u = u
    a = a
    b = b
    toD = toD
    toT = toT
    master = master
    gateway = gateway
    Dead = Dead
    Subscriptions <- OnlyDirect
    ServiceOf <- ServiceNames
    QualifierOf <- Qualifiers
    ExchangeNameOf <- ExchangeNames
    Wildcards <- HelloMatches
    DeadLetterQualifier <- ReadmeName
    Agents = {}
    Origins = {toD}
    PublishedTo <- Targets
    Gateway = {}
    Unknown = {}
    RetryOf <- Retries
    MaxTimeout = 6
    MaxReplyFaults = 1
SPECIFICATION Spec
INVARIANTS DeadLetterArrives
CHECK_DEADLOCK FALSE
