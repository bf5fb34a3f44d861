\* Three nodes lose each other; the database of one need not have joined.
SPECIFICATION Spec
CONSTANTS
    N = 3
    Mortal = {}
    Booting = {0}
    Cuts <- Forward
    Clock <- InTime
    Period = 0
    MaxRound = 1
    MaxFails = 0
    MaxStarts = 0
PROPERTIES
    BestGroup
CHECK_DEADLOCK FALSE
