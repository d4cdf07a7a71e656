SPECIFICATION Spec
CONSTANTS
    Nobody = Nobody
    MaxAttempts = 2
INVARIANT HandshakeAgrees
CHECK_DEADLOCK FALSE
