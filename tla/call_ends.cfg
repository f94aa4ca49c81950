SPECIFICATION FairSpec
CONSTANTS
    None = None
    SessionIds = {s1, s2}
    CallUuids = {u1}
    MaxInvalidInputs = 2
    MaxOtpAttempts = 2
    TTL = 1
    MaxSessions = 2
    Faults = {"restart", "loss", "timeout", "reply"}
    MaxFaults = 2
PROPERTIES
    LineReleased
    EndRecorded
CHECK_DEADLOCK FALSE
