CONSTANTS
    d1 = d1
    d2 = d2
    w1 = w1
    w2 = w2
    e1 = e1
    e2 = e2
    Dispatchers = {d1, d2}
    Workers = {w1, w2}
    Service = Service
    App = App
    Events = {e1, e2}
    Nobody = Nobody
    Reserved = Reserved
    MaxPeriod = 1
    Scenarios <- SafetyScenarios
SPECIFICATION Spec
SYMMETRY Symmetry
CHECK_DEADLOCK FALSE
INVARIANTS
    TypeOK
    Serialized
    QueuedIsServed
    SleepCovered
    RemovedStaysRemoved
