\* Two instances, slow checkpoint writes, three versions; one evicts the page.
SPECIFICATION Spec
CONSTANTS
    Inst = {n1, n2}
    NoInst = NoInst
    Master = n1
    MaxLsn = 3
    Impatient = {}
    MaxTimeouts = 1
    MaxTraffic = 1
    Evictors = {n2}
    Flushers = {n1, n2}
    Recycling = FALSE
    ClaimsOrdered = TRUE
    SlowWrites = TRUE
INVARIANTS
    DirCovers
    NewestKept
PROPERTIES
    Coherent
