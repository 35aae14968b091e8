\* Pushes and a puller on one replica, with room for one file.
CONSTANTS
    r1 = r1
    r2 = r2
    q1 = q1
    q2 = q2
    q3 = q3
    Requests = {q1, q2}
    Replicas = {r1}
    On <- OneReplica
    Pullers = {u1}
    Paths = {x, y}
    Data = {a, b}
    NoData = none
    Kinds = {"push"}
    Wants = {Infer}
    Tokens = {}
    Infer = Infer
    Free = Free
    FaultKinds = {"before", "unread"}
    MaxFiles = 1
    MaxBatch = 2
    MaxCalls = 3
    MaxPulls = 1
    MaxFaults = 1
SPECIFICATION Spec
SYMMETRY Symmetry
INVARIANTS QuotaHolds HeadNamesContent PullNotStale
CHECK_DEADLOCK FALSE
