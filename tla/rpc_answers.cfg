CONSTANTS
    c1 = c1
    c2 = c2
    c3 = c3
    o1 = o1
    o2 = o2
    None = None
    Calls = {c1, c2, c3}
    Parallels = {c3}
    Timed = {c1}
    Options = {o1, o2}
    OptionsOf <- SharedOptions
    MaxAnswers = 2
    MaxLost = 1
    MaxFailed = 1
SPECIFICATION FairSpec
INVARIANTS TypeOK OwnAnswer CacheTracks
PROPERTIES SilentOnceCleared 
CHECK_DEADLOCK FALSE
