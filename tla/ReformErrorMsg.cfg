\* Three instances, one that is not the master of the lock crashes.
SPECIFICATION Spec
CONSTANTS
    a = a
    b = b
    c = c
    NoInst = NoInst
    Inst = {a, b, c}
    Master = a
    Sess <- TrioSess3
    Timed = {}
    Mortal = {b}
    Rsn = {0, 1}
INVARIANTS
    Exclusive
CHECK_DEADLOCK FALSE
