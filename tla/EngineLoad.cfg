SPECIFICATION FairSpec
CONSTANTS
    bridge = bridge
    convert = convert
    embed = embed
    Model = {bridge, convert, embed}
    Deps <- Chain
    Enabled = {bridge, convert, embed}
    Caller = {c1, c2}
    Requested = {convert, embed}
    Serialized = TRUE
    Scan = TRUE
INVARIANTS SettledWhole OneNativeLoad StartedWhole ResolverCovers
PROPERTY OkMeansReady LoadReturns
CHECK_DEADLOCK FALSE
