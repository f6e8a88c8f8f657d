SPECIFICATION FairSpec
CONSTANTS
    Jobs = {j1}
    Workers = {w1, w2}
    MaxQueue = 0
    MaxAwaiting = 2
    Requests = {"create", "resume", "cancel", "restart"}
    Outcomes = {"needs_continuation"}
INVARIANTS
    PermitsMatchLoad
    EnginesMeetByOverlap
    IdleJobIsNotRunning
    TerminalMeansStopped
PROPERTIES
    JobsTerminate
CHECK_DEADLOCK FALSE
