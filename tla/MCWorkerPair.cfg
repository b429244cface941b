SPECIFICATION Spec
CONSTANTS
    Workers = {w1, w2}
    Calls = {"new", "clone", "join"}
    HandlerSets <- AllOrNone
    MaxQueue = 1
    MaxDepth = 4
CHECK_DEADLOCK FALSE
SYMMETRY Symmetry
INVARIANTS LinkedWhileListed JoinSound
