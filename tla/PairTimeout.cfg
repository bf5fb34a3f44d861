\* Requests of the master instance time out and are repeated, the other one
\* writes the page by checkpoints.  A panic on a late request stops the system.
SPECIFICATION Spec
CONSTANTS
    Inst = {n1, n2}
    NoInst = NoInst
    Master = n1
    MaxLsn = 2
    Impatient = {n1}
    MaxTimeouts = 1
    MaxTraffic = 1
    Evictors = {n1}
    Flushers = {n2}
    Recycling = TRUE
    ClaimsOrdered = TRUE
    SlowWrites = FALSE
INVARIANTS
    TypeOK
    SingleWriter
    DirCovers
    RoundEntryConverting
    CatalogueSound
PROPERTIES
    ForgottenIdle
CHECK_DEADLOCK FALSE
