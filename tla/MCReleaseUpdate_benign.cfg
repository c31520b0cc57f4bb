SPECIFICATION FairSpec
CONSTANTS
    Requests = {r1, r2, r3}
    None = None
    Versions = {1, 2, 3}
    FirstVersion = 1
    SchemaOf <- StepSchema
    MinSchema <- AnyMin
    MaxSchema <- AnyMax
    Faults = {"write", "apiCrash"}
    r1 = r1
    r2 = r2
    r3 = r3
INVARIANTS
    CurrentInstalled
PROPERTIES
    RestoredClaimIsTrue
    UpdateMovesForward
    TasksEnd
CHECK_DEADLOCK FALSE
