\* Two sessions of the master and one of another instance, under fairness.
SPECIFICATION FairSpec
CONSTANTS
    a = a
    b = b
    c = c
    NoInst = NoInst
    Inst = {a, b}
    Master = a
    Sess <- PairSess
    Timed = {}
    Mortal = {}
    Rsn = {0}
PROPERTIES
    LatchTaken
    QueuedGranted
    UpgradeGranted
