SPECIFICATION Spec
CONSTANTS
    report = report
    rerun = rerun
    critique = critique
    Evidence <- Items
    Ref <- RefOf
    Absent = Absent
    NoEvent = NoEvent
    Multiline <- CritiqueRows
    Torn = {"fragment", "half_character", "event"}
    MaxLedger = 5
    MaxLog = 7
    MaxPending = 1
    MaxSessions = 2
SYMMETRY Reruns
INVARIANTS
    CachesAreLogged
    DecisionsReplay
CHECK_DEADLOCK FALSE
