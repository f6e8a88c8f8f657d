SPECIFICATION DSSpec
CONSTANTS
    Runners = {r1}
    Reapers = {p1}
    Inputs = {a, b}
    NoInput = none
    MaxAttempts = 3
INVARIANTS
    ReturnsOwnOutput
    CommittedHasItsOutput
PROPERTIES
    OnlyReapersUndoTerminal
CHECK_DEADLOCK FALSE
