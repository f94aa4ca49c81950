SPECIFICATION Spec
CONSTANTS
    None = None
    SessionIds = {s1, s2}
    CallUuids = {u1}
    MaxInvalidInputs = 3
    MaxOtpAttempts = 2
    TTL = 1
    MaxSessions = 2
    Faults = {"loss", "reply"}
    MaxFaults = 2
INVARIANTS
    TypeOK
    OtpCapKept
    ToleranceKept
    StageTracksCaller
    NeverRecreated
CHECK_DEADLOCK FALSE
