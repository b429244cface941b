SPECIFICATION Spec
CONSTANTS
    Workers = {w1}
    Calls = {"new", "preload", "postMessage"}
    HandlerSets <- AllOrNone
    MaxQueue = 1
    MaxDepth = 2
CHECK_DEADLOCK FALSE
INVARIANT OneThreadInside
