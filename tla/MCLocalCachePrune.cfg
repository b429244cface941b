SPECIFICATION FairSpec
CONSTANTS
    t1 = t1
    t2 = t2
    c1 = c1
    c2 = c2
    k1 = k1
    k2 = k2
    Threads = {t1, t2}
    Caches = {c1, c2}
    Keys = {k1, k2}
    Values = {9}
    KeyLength = 1
    Day = 17
    NoThread = NoThread
    NoCache = NoCache
    MaxData = 99
    Scenarios <- PruneScenarios
CHECK_DEADLOCK FALSE
PROPERTIES PruneNeedsExcess ExpiredRemoved
