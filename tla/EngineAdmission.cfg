SPECIFICATION ProgressSpec
CONSTANTS
    embed = embed
    convert = convert
    bridge = bridge
    r1 = r1
    r2 = r2
    Request = {r1, r2}
    Model = {bridge, embed, convert}
    Plan <- Plans
    PoolSize <- Pools
    Limit = 1
    Threads = 2
    MaxLoads <- Loads
INVARIANTS RootsWithinLimit InstancesWithinPool NothingLeaks
PROPERTY Completes
CHECK_DEADLOCK FALSE
