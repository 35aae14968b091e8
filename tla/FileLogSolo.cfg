CONSTANTS
    Writers = {w1}
    Readers = {}
    Data = {a, b}
    NoData = none
    MutatingOps = {"put", "delete", "undelete", "destroy"}
    Tokens = {0, 1, 2, 3, a, b}
    MaxVersions = 2
    AtomicDelete = TRUE
    MaxN = 4
    MaxCalls = 6
    MaxFaults = 1
SPECIFICATION Spec
INVARIANTS CurrentReadable BodiesMatch MirrorExact
PROPERTIES RefusedOnlyByRace
CHECK_DEADLOCK FALSE
