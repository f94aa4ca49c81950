SPECIFICATION Spec
CONSTANTS
    None = None
    SessionIds = {s1, s2}
    Requests = {r1, r2}
    MaxEvents = 5
PROPERTIES
    EndAnnouncedTruly
CHECK_DEADLOCK FALSE
