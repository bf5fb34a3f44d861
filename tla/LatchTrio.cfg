\* Three instances, two sessions on one of them, one of which uses timed calls.
SPECIFICATION Spec
CONSTANTS
    a = a
    b = b
    c = c
    NoInst = NoInst
    Inst = {a, b, c}
    Master = a
    Sess <- TrioSess
    Timed <- SlowB
    Mortal = {}
    Rsn = {0}
INVARIANTS
    TypeOK
    Exclusive
    Covered
    NoPanic
