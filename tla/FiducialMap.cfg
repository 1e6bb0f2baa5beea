SPECIFICATION Spec
CONSTANTS
    f1 = f1
    f2 = f2
    f3 = f3
    Fids = {f1, f2, f3}
    Zero = Zero
    NoFid = NoFid
    Files <- MapFiles
    InitFrames = 2
    MaxObs = 2
    MaxClears = 2
INVARIANTS TypeOK OneDatum Connected OriginCarriesMap
PROPERTIES FixedStays ImplementsNet InitEnds
CHECK_DEADLOCK FALSE
