\* Two instances, one of which may crash; a panic (NoPanic) stops the system.
SPECIFICATION Spec
CONSTANTS
    a = a
    b = b
    c = c
    NoInst = NoInst
    Inst = {a, b}
    Master = a
    Sess <- PairSess4
    Timed <- SlowB
    Mortal = {a, b}
    Rsn = {0, 1}
INVARIANTS
    Covered
CHECK_DEADLOCK FALSE
