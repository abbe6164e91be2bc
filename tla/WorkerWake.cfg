SPECIFICATION FairSpec
CONSTANTS
    Row = {r1}
    NoRow = NoRow
    Session = {s1}
    JobId = {j1, j2}
    MaxRetries = 1
    MaxEnqueues = 2
    MaxVersion = 2
    MaxCrashes = 1
    BatchSize = 1
    Unfit = {}
    Calls = {"timeout", "pause", "prepare"}
    Outcomes = {"ok", "retry", "raise", "dead"}
INVARIANTS VersionHeld NoLostKick
PROPERTY JobsServed
CHECK_DEADLOCK FALSE
