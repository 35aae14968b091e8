\* One replica, one interrupted call.
CONSTANTS
    Writers = {w1}
    Readers = {}
    Data = {a}
    NoData = none
    MutatingOps = {"put"}
    Tokens = {0, 1}
    MaxVersions = 2
    AtomicDelete = TRUE
    MaxN = 2
    MaxCalls = 3
    MaxFaults = 1
SPECIFICATION Spec
PROPERTY OrphanIsOverwritten
CHECK_DEADLOCK FALSE
