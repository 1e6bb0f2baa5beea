CONSTANTS
    long = long
    short = short
    None = None
    Files <- LongOnly
    Unreadable = {}
    Short = {}
    Count <- MCCount
    Named <- MCNamed
    NearOrigin <- MCNearOrigin
    Garbage = {}
    ResendAfter = 2
    AbortAfter = 3
    Stall = 1
    VisitedSlots = 4
    MaxCrashes = 0
    MaxMail = 2
    Statuses = {"Playing", "Ended", "Opening", "Buffering", "Error"}
    AudioFiles <- MCAllAudio
    PartialNames <- MCPartialNames
    SlowStart = TRUE
    ShortClips = FALSE
SPECIFICATION SysSpec
PROPERTIES
    AudioWaitEnds
CHECK_DEADLOCK FALSE
