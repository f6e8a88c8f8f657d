SPECIFICATION Spec
CONSTANTS
    Limit = 2
    Modes = {TRUE, FALSE}
    MinRounds = 1
    Extensions = {1, 3}
    MaxRound = 3
    MaxLaunches = 3
INVARIANTS
    EachRoundRankedOnce
    CheckpointExplainsItsRounds
CHECK_DEADLOCK FALSE
