SPECIFICATION Spec
CONSTANTS
    None = None
    SessionIds = {s1, s2, s3, s4, s5}
    CallUuids = {u1, u2}
    MaxInvalidInputs = 1
    MaxOtpAttempts = 0
    TTL = 1
    MaxSessions = 3
    Maintenance = {"delete", "clear"}
    MaxListed = 2
SYMMETRY IdSymmetry
INVARIANTS
    IndexLeadsHome
    NewestListed
PROPERTY
    EntryKept
CHECK_DEADLOCK FALSE
