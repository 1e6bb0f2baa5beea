SPECIFICATION Spec
CONSTANTS
    MaxFid = 3
    MaxOdom = 3
    MaxGps = 1
INVARIANTS
    TypeOK
    FiducialUsedOnce
    RawPoseIsRecent
CHECK_DEADLOCK FALSE
