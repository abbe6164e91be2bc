SPECIFICATION Spec
CONSTANTS
    k1 = k1
    k2 = k2
    t1 = t1
    t2 = t2
    NoKey = NoKey
    Key = {k1,k2}
    Client = {t1,t2}
    MaxClock = 2
    MaxChunk = 2
    MaxSplit = 1
    Bound = 1
    BatchSize = 2
    Ops = {"ins","upd","del","key"}
    Calls = {"truncate","set_format","retry_dead"}
    Faulty = TRUE
INVARIANT ChunksCurrent
PROPERTY DocsStayCovered
SYMMETRY Symmetry
CHECK_DEADLOCK FALSE
