SPECIFICATION Spec
CONSTANTS
    Jobs = {j1}
    Workers = {w1, w2}
    MaxQueue = 0
    MaxAwaiting = 2
    Requests = {"create", "resume"}
    Outcomes = {"needs_continuation"}
INVARIANTS
    OneEnginePerJob
CHECK_DEADLOCK FALSE
