SPECIFICATION Spec
CONSTANTS
    NoModel = NoModel
    InitModel = A
    Admin = {a1}
    Model = {A,B}
    NKeys = 2
    BatchSize = 1
    MaxClock = 2
    MaxMig = 1
    Strategy = {"convert"}
    Hand = {"base","scratch"}
    Faulty = TRUE
INVARIANT OneMigration
PROPERTY ModelsKept RowsKept 
CHECK_DEADLOCK FALSE
