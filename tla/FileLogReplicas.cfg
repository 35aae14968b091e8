\* Two replicas over an S3 bucket; no client destroys versions.
CONSTANTS
    Writers = {w1, w2}
    Readers = {r1}
    Data = {a, b}
    NoData = none
    MutatingOps = {"put", "delete", "undelete"}
    Tokens = {0, 1, 2}
    MaxVersions = 2
    AtomicDelete = FALSE
    MaxN = 3
    MaxCalls = 4
    MaxFaults = 1
SPECIFICATION Spec
SYMMETRY Symmetry
INVARIANTS TypeOK NewestReadable AckedPutStands
PROPERTIES HistoryKept ReadsAreCommitted ImplementsAtomicFile
CHECK_DEADLOCK FALSE
