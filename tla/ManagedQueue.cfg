SPECIFICATION StoredSpec
CONSTANTS
    Row = {r1,r2}
    NoRow = NoRow
    Session = {s1}
    Server = {a, b}
    NoServer = NoServer
    JobId = {j1,j2}
    MaxRetries = 1
    BatchSize = 1
    MaxStatements = 1
    MaxFaults = 1
    ReuseKeys = FALSE

INVARIANTS TypeOK RowTracked
PROPERTY WritesCurrent Settles
CHECK_DEADLOCK FALSE
