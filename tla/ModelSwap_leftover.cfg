SPECIFICATION FairSpec
CONSTANTS
    a = a
    b = b
    Model = {a, b}
    MaxRev = 3
    Roots <- MCCleanRoots
    Commands = {"pull"}
    MaxRuns = 2
    Faults = {"remove"}
    MaxFaults = 2
PROPERTY LeftoverHarmless
