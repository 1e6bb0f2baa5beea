SPECIFICATION Spec
CONSTANTS
    MaxFid = 3
    MaxOdom = 3
    MaxGps = 0
INVARIANTS
    RejectedStaysOut
CHECK_DEADLOCK FALSE
