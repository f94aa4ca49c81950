SPECIFICATION Spec
CONSTANTS
    None = None
    SessionIds = {s1, s2}
    CallUuids = {u1, u2}
    MaxInvalidInputs = 1
    MaxOtpAttempts = 0
    TTL = 1
    MaxSessions = 1
    Faults = {"restart", "timeout"}
    MaxFaults = 1
SYMMETRY IdSymmetry
INVARIANTS
    OwnSession
    IndexSound
    StoreBounded
    Inv
PROPERTIES
    OtpGate
CHECK_DEADLOCK FALSE
