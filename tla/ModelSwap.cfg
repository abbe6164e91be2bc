SPECIFICATION FairSpec
CONSTANTS
    a = a
    b = b
    Model = {a, b}
    MaxRev = 3
    Roots <- MCRoots
    Commands = {"pull", "rm", "activate", "deactivate"}
    MaxRuns = 2
    Faults = {"crash", "lost", "load", "move", "remove", "restart"}
    MaxFaults = 3
INVARIANTS Recoverable EngineServesDisk
PROPERTIES StoreSpec RecoverySettles
