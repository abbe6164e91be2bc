SPECIFICATION Spec
CONSTANTS
    r1 = r1
    r2 = r2
    s1 = s1
    j1 = j1
    j2 = j2
    NoRow = NoRow
    Row = {r1,r2}
    Session = {s1}
    JobId = {j1,j2}
    MaxClock = 2
    MaxReg = 1
    BatchSize = 2
    MaxRetries = 1
SYMMETRY Symmetry
INVARIANT OneUnclaimedPerRow AttemptsBounded BatchOwned FullInv
PROPERTY StaysTracked DeadLettersKept 
CHECK_DEADLOCK FALSE
