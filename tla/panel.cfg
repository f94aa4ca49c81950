SPECIFICATION FairSpec
CONSTANTS
    None = None
    SessionIds = {s1, s2}
    Requests = {r1, r2}
    MaxEvents = 4
INVARIANTS
    TypeOK
    DialButtonHeld
PROPERTIES
    PanelCatchesUp
    DialButtonFreed
CHECK_DEADLOCK FALSE
