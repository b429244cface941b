CONSTANTS
    Requests = {r1, r2, r3}
    VMs = {v1, v2, v3}
    WorkerVMs = {w1}
    PoolMax = 1
    Nobody = Nobody
    NoVM = NoVM
SPECIFICATION FairSpec
CHECK_DEADLOCK FALSE
INVARIANTS
    TypeOK
    PoolBounded
    CountCovered
PROPERTIES
    LeaseKept
    TemplateOnce
    AllocReturns
