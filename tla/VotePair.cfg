\* Two nodes, which may crash; one may be started again.
SPECIFICATION FairSpec
CONSTANTS
    N = 2
    Mortal = {0, 1}
    Booting = {}
    Cuts = {}
    Clock <- InTime
    Period = 0
    MaxRound = 2
    MaxFails = 1
    MaxStarts = 1
PROPERTIES
    FencedFirst
    VoteEnds
    NobodyBehind
CHECK_DEADLOCK FALSE
