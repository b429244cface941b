SPECIFICATION FairSpec
CONSTANTS
    Workers = {w1}
    Calls = {"new", "load", "join", "self"}
    HandlerSets <- AllOrNone
    MaxQueue = 1
    MaxDepth = 4
CHECK_DEADLOCK FALSE
PROPERTIES WorkerCompletes JoinEnds
