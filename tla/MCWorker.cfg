SPECIFICATION Spec
CONSTANTS
    Workers = {w1}
    Calls = {"new", "eval", "postMessage", "terminate", "preload", "waitForMessage", "join", "self"}
    HandlerSets <- AllOrNone
    MaxQueue = 1
    MaxDepth = 3
CHECK_DEADLOCK FALSE
INVARIANTS TypeOK CompleteAfterMain ErrorBeforeComplete CrashNeedsTeardown CloseIsLast
PROPERTY StatesAdvance
