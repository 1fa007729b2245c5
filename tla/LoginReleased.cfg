SPECIFICATION LoginSpec
CONSTANTS
    MaxSession = 2
    HasAccess = FALSE
    None = None
INVARIANTS ReleasedTakesNobody
CHECK_DEADLOCK FALSE
