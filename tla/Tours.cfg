CONSTANTS
    long = long
    short = short
    missing = missing
    None = None
    Files <- AllFiles
    Unreadable <- MCUnreadable
    Short <- MCShort
    Count <- MCCount
    Named <- MCNamed
    NearOrigin <- MCNearOrigin
    Garbage <- MCGarbage
    ResendAfter = 2
    AbortAfter = 4
    Stall = 2
    VisitedSlots = 4
    MaxCrashes = 1
    MaxMail = 3
    Statuses = {"Playing", "Ended"}
SPECIFICATION Spec
INVARIANTS
    TypeOK
    StandsStillForTalk
    DrivesToCurrent
    ResendsBounded
    EachTalkOnce
    RandomTourComplete
    AbortsStopTheBase
    
PROPERTIES
    ImplementsTour
CHECK_DEADLOCK FALSE
