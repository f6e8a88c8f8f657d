SPECIFICATION LPFairSpec
CONSTANTS
    MaxUpdates = 4
    MaxSessions = 2
INVARIANTS
    PersistedInOrder
    EventsFollowSnapshots
PROPERTIES
    FlushMeansDurable
    ResultIsLast
    WaitsEnd
CHECK_DEADLOCK FALSE
