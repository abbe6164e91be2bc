CONSTANTS
    openai = openai
    Local = local
    Requests = {r1, r2}
    Providers = {openai}
    Directories <- Edits
    Boot <- Unconfigured
    MaxInflight = 1
    ResponseBudget = 2
    Envelope = 2
    Reloaders = {"a", "b"}
    MaxReloads = 2
    MaxBusy = 3
    MaxChunks <- Chunks
    MaxRetries = 1
    Unknown = 16
SPECIFICATION FairSpec
INVARIANT IngressInStep EngineResponsesBounded ProviderResponsesBounded ProviderCap
PROPERTY EveryCallAnswered
CHECK_DEADLOCK FALSE
