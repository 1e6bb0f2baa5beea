CONSTANTS
    long = long
    short = short
    missing = missing
    None = None
    Files <- LongOnly
    Unreadable <- MCUnreadable
    Short <- MCShort
    Count <- MCCount
    Named <- MCNamed
    NearOrigin <- MCNearOrigin
    Garbage <- MCGarbage
    ResendAfter = 2
    AbortAfter = 4
    Stall = 1
    VisitedSlots = 4
    MaxCrashes = 0
    MaxMail = 2
    Statuses = {"Playing", "Ended"}
SPECIFICATION FairSpec
PROPERTIES
    TalkFollowsArrival
CHECK_DEADLOCK FALSE
