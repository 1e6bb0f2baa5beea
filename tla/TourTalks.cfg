CONSTANTS
    long = long
    short = short
    None = None
    Files <- MCFiles
    Unreadable = {}
    Short = {short}
    Count <- MCCount
    Named <- MCNamed
    NearOrigin <- MCNearOrigin
    Garbage = {}
    ResendAfter = 2
    AbortAfter = 3
    Stall = 1
    VisitedSlots = 4
    MaxCrashes = 1
    MaxMail = 2
    Statuses = {"Playing", "Ended", "Opening", "Buffering", "Error"}
    AudioFiles <- MCAudioFiles
    PartialNames <- MCPartialNames
    SlowStart = TRUE
    ShortClips = FALSE
SPECIFICATION SysSpec
INVARIANTS
    SysTypeOK
    PlaysAtStandstill
PROPERTIES
    WaitsForThisClip
    EndIsHeard
    GuidesTour
    PlayedClipEndsWait
    AcceptPhaseEnds
CHECK_DEADLOCK FALSE
