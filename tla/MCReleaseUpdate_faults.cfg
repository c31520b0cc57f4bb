SPECIFICATION Spec
CONSTANTS
    Requests = {r1, r2, r3}
    None = None
    Versions = {1, 2, 3}
    FirstVersion = 1
    SchemaOf <- StepSchema
    MinSchema <- StepMin
    MaxSchema <- StepMax
    Faults = {"write", "apiCrash", "kill", "relink", "restart", "claim"}
    r1 = r1
    r2 = r2
    r3 = r3
SYMMETRY RequestSymmetry
INVARIANTS
    TaskFilesAgree
PROPERTIES
    LinkMovesToCompatible
    SuccessIsComplete
    VisibleNeverRegresses
    TaskSpec
CHECK_DEADLOCK FALSE
