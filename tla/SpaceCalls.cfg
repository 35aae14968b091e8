\* Every kind of call and of fault on two replicas, under fairness.
CONSTANTS
    r1 = r1
    r2 = r2
    q1 = q1
    q2 = q2
    q3 = q3
    Requests = {q1, q2, q3}
    Replicas = {r1, r2}
    On <- TwoReplicas
    Pullers = {}
    Paths = {x, y}
    Data = {a}
    NoData = none
    Kinds = {"push", "put", "delete", "undelete"}
    Wants = {Infer, 0}
    Tokens = {0, 1}
    Infer = Infer
    Free = Free
    FaultKinds = {"before", "after", "unread", "unmirrored", "crash"}
    MaxFiles = 1
    MaxBatch = 1
    MaxCalls = 2
    MaxPulls = 0
    MaxFaults = 1
SPECIFICATION FairSpec
PROPERTY CallsEnd
CHECK_DEADLOCK FALSE
