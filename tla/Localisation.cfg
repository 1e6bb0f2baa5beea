SPECIFICATION Spec
CONSTANTS
    mapped = mapped
    strange = strange
    hidden = hidden
    None = None
    Virtual = Virtual
    MapOdom = MapOdom
    Ids <- MCIds
    Ignored <- MCIgnored
    MapFile <- MCMapFile
    Images <- MCImages
    Calibrations = {"good", "zero"}
    Patience = 2
INVARIANTS
    TypeOK
    FollowsMarker
    FreshTransform
    FewLatePoses
PROPERTIES
    PosesKeepComing
CHECK_DEADLOCK FALSE
