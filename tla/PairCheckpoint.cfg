\* Two instances change the page and write it by checkpoints.
SPECIFICATION Spec
CONSTANTS
    Inst = {n1, n2}
    NoInst = NoInst
    Master = n1
    MaxLsn = 3
    Impatient = {}
    MaxTimeouts = 1
    MaxTraffic = 2
    Evictors = {}
    Flushers = {n1, n2}
    Recycling = FALSE
    ClaimsOrdered = TRUE
    SlowWrites = FALSE
INVARIANTS
    RedoKept
    NoPanic
PROPERTIES
    EdpOnDisk
