SPECIFICATION Spec
CONSTANTS
    Timers = {t1, t2}
    Events = {e1, e2, e3}
    NoTimer = NoTimer
    NoEvent = NoEvent
    MaxStarts = 2
    MaxDepth = 2
CHECK_DEADLOCK FALSE
SYMMETRY Symmetry
INVARIANT RestartSafe
