CONSTANTS
    c1 = c1
    c2 = c2
    c3 = c3
    Keys = {"shared", "debug"}
    Shared = "shared"
    DebugKeys = {"debug"}
    DeadLettering = TRUE
    Exchanges = {"amq.direct"}
    MaxChannels = 9
    MaxAsserts = 4
    MaxFaults = 1
    Calls = {c1, c2, c3}
    ExchangeOf <- OneExchange
    Debugged = {c1, c2}
    Served = {c1}
    DebugKey = "debug"
    MaxTries = 1
SPECIFICATION Spec
INVARIANTS TypeOK WrittenOnce ExchangeCacheAlive ChannelCacheAlive OneChannelPerKey RoutedToDebug RejectedHasCause
PROPERTIES PublishSettles
CHECK_DEADLOCK FALSE
