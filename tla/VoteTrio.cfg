\* Three nodes, two of which may crash, also as master of an arbitration; the
\* third may vote too late to be counted.
SPECIFICATION Spec
CONSTANTS
    N = 3
    Mortal = {0, 1}
    Booting = {}
    Cuts = {}
    Clock <- LastLate
    Period = 0
    MaxRound = 2
    MaxFails = 1
    MaxStarts = 0
INVARIANTS
    TypeOK
    AllFenced
PROPERTIES
    FencedFirst
    LargestGroup
    VotesTogether
CHECK_DEADLOCK FALSE
