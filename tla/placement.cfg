SPECIFICATION Spec
CONSTANTS
    None = None
    Numbers = {n1, n2}
    ApiErrors = {"authentication", "invalid", "not_found", "other", "no_uuid", "unreachable"}
INVARIANTS
    TypeOK
    NeverDialsItself
    HangupConfirmed
PROPERTY
    RefusalOnRecord
CHECK_DEADLOCK FALSE
