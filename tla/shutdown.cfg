CONSTANTS
    f1 = f1
    f2 = f2
    m1 = m1
    m2 = m2
    m3 = m3
    Rpc = Rpc
    Functions <- TwoFunctions
    Messages <- ThreeMessages
    FunctionOf <- FunctionOfMessage
    Invoking = {m2}
    Late = {f2}
    RetryMax <- RetryOnF1
    MaxLost = 1
SPECIFICATION FairSpec
INVARIANTS TypeOK RegisterMatches
PROPERTIES TimesOutOnLateMessages ShutdownSettles AwaitsCurrentMessages
CHECK_DEADLOCK FALSE
