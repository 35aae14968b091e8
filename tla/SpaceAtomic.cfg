\* Every kind of call on one replica, and faults before any effect.
CONSTANTS
    r1 = r1
    r2 = r2
    q1 = q1
    q2 = q2
    q3 = q3
    Requests = {q1, q2}
    Replicas = {r1}
    On <- OneReplica
    Pullers = {}
    Paths = {x, y}
    Data = {a, b}
    NoData = none
    Kinds = {"push", "put", "delete", "undelete"}
    Wants = {Infer}
    Tokens = {0, 1}
    Infer = Infer
    Free = Free
    FaultKinds = {"before", "unread", "unmirrored", "crash"}
    MaxFiles = 2
    MaxBatch = 2
    MaxCalls = 3
    MaxPulls = 0
    MaxFaults = 1
SPECIFICATION Spec
SYMMETRY Symmetry
INVARIANTS TypeOK TreeMirrors
PROPERTIES PushIsAtomic
CHECK_DEADLOCK FALSE
