\* Three instances, entry recycling, eviction on all but the master (which
\* PairPage.cfg has).  A holder of a copy that is queued behind a third
\* instance's request waits for it in a circle, which only a timeout ends.
SPECIFICATION Spec
CONSTANTS
    Inst = {n1, n2, n3}
    NoInst = NoInst
    Master = n1
    MaxLsn = 2
    Impatient = {}
    MaxTimeouts = 1
    MaxTraffic = 0
    Evictors = {n2, n3}
    Flushers = {}
    Recycling = TRUE
    ClaimsOrdered = TRUE
    SlowWrites = FALSE
SYMMETRY Others
INVARIANTS
    SingleWriter
    Fresh
    RoundEntryConverting
    DirCovers
CHECK_DEADLOCK FALSE
