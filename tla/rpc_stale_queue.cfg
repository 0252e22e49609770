CONSTANTS
    c1 = c1
    c2 = c2
    c3 = c3
    o1 = o1
    o2 = o2
    None = None
    Calls = {c1, c2}
    Parallels = {}
    Timed = {c1}
    Options = {o1, o2}
    OptionsOf <- SharedOptions
    MaxAnswers = 1
    MaxLost = 1
    MaxFailed = 0
SPECIFICATION FairSpec
PROPERTIES AnsweredAfterLoss
CHECK_DEADLOCK FALSE
