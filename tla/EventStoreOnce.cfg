SPECIFICATION Spec
CONSTANTS
    Events = {e1, e2, e3}
    Multiline = {e2}
    Plain = {e3}
    Torn = {"fragment", "half_character", "event"}
    NoEvent = none
    MaxBatch = 2
    MaxLog = 6
INVARIANTS
    LoggedOnce
    AckedEventsStay
CHECK_DEADLOCK FALSE
