CONSTANTS
    Threads = {t1, t2}
    Builder = builder
    Settings <- TwoLimitsAndOff
    Overrides <- GlobalOrRoute
    Global = Global
    Scale = 2
    PerSecond = 3
    MaxRate = 2
    MaxBurst = 2
    MaxTime = 3
    MaxFills = 2
SPECIFICATION BucketSpec
SYMMETRY Symmetry
CHECK_DEADLOCK FALSE
INVARIANT BucketIsSound
