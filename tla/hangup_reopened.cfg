SPECIFICATION Spec
CONSTANTS
    None = None
    SessionIds = {s1}
    CallUuids = {u1}
    MaxInvalidInputs = 2
    MaxOtpAttempts = 0
    TTL = 1
    MaxSessions = 1
    Faults = {}
    MaxFaults = 0
INVARIANTS
    ClosedStaysClosed
CHECK_DEADLOCK FALSE
