\* Pushes alone on one replica, and a puller; nothing fails.
CONSTANTS
    r1 = r1
    r2 = r2
    q1 = q1
    q2 = q2
    q3 = q3
    Requests = {q1, q2}
    Replicas = {r1}
    On <- OneReplica
    Pullers = {u1}
    Paths = {x, y}
    Data = {a}
    NoData = none
    Kinds = {"push"}
    Wants = {Infer}
    Tokens = {0}
    Infer = Infer
    Free = Free
    FaultKinds = {}
    MaxFiles = 2
    MaxBatch = 1
    MaxCalls = 2
    MaxPulls = 1
    MaxFaults = 0
SPECIFICATION Spec
INVARIANT NothingBeforeCommit
CHECK_DEADLOCK FALSE
