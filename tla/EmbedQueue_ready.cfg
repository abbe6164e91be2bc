SPECIFICATION Spec
CONSTANTS
    r1 = r1
    s1 = s1
    j1 = j1
    j2 = j2
    NoRow = NoRow
    Row = {r1}
    Session = {s1}
    JobId = {j1,j2}
    MaxClock = 2
    MaxReg = 0
    BatchSize = 1
    MaxRetries = 1
SYMMETRY Symmetry
INVARIANT ReadyIsCurrent
CHECK_DEADLOCK FALSE
