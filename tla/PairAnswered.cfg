\* Every request is answered.
SPECIFICATION FairSpec
CONSTANTS
    Inst = {n1, n2}
    NoInst = NoInst
    Master = n1
    MaxLsn = 2
    Impatient = {}
    MaxTimeouts = 1
    MaxTraffic = 0
    Evictors = {n1, n2}
    Flushers = {}
    Recycling = TRUE
    ClaimsOrdered = TRUE
    SlowWrites = FALSE
PROPERTIES
    AskAnswered
