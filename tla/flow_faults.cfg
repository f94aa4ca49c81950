SPECIFICATION Spec
CONSTANTS
    None = None
    SessionIds = {s1, s2}
    CallUuids = {u1}
    MaxInvalidInputs = 2
    MaxOtpAttempts = 2
    TTL = 1
    MaxSessions = 1
    Faults = {"restart", "expiry", "loss", "timeout", "reply"}
    MaxFaults = 2
INVARIANTS
    CallersInv
    LanguageHonoured
    OperatorCanHangUp
    CapForgottenOnlyWithSession
PROPERTIES
    OtpGate
    GoodbyeEarned
    ServedInStage
    ImplementsJourney
CHECK_DEADLOCK FALSE
