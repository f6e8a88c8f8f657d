SPECIFICATION FairSpec
CONSTANTS
    Callers = {logical, plain}
    Logical = {logical}
    Costs = {0, 2, 3}
    Budget = 6
    Threshold = 2
    MaxConcurrent = 1
    MaxAttempts = 2
    MaxCalls = 3
INVARIANTS
    SpendWithinHeadroom
    HeadroomIsAccounted
    RecordedIsNeverPaidAgain
    CircuitIsConsistent
PROPERTIES
    CallsEnd
CHECK_DEADLOCK FALSE
