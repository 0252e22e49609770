CONSTANTS
    f1 = f1
    f2 = f2
    m1 = m1
    m2 = m2
    m3 = m3
    Rpc = Rpc
    Functions <- TwoFunctions
    Messages <- TwoMessages
    FunctionOf <- FunctionOfMessage
    Invoking = {m2}
    Late = {}
    RetryMax <- OneRetry
    MaxLost = 0
SPECIFICATION Spec
PROPERTIES SettledBeforeClose
CHECK_DEADLOCK FALSE
