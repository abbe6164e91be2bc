SPECIFICATION FairSpec
CONSTANTS
    N = 2
    FeedSize = 1
    BatchSize = 1
    MaxOps = 2
    Modes = {"none","queue","cursor"}
    Calls = {"set_format", "promote", "reset"}
    Overlap = FALSE
    Faulty = TRUE
INVARIANT OwedTracked
PROPERTY OwedSettles CursorEnds
CHECK_DEADLOCK FALSE
