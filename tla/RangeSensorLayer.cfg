SPECIFICATION Spec
CONSTANTS
    Width = 3
    Zeros = {0, 1}
    Cones <- MCCones
    MaxReadings = 2
    MaxReconfigs = 2
INVARIANTS
    TypeOK
    NoReadingLost
    MasterShowsLayer
PROPERTIES
    ImplementsFlow
    ReadingsProcessed
    DisabledIsCurrent
CHECK_DEADLOCK FALSE
