SPECIFICATION Spec
CONSTANTS
    Requests = {r1, r2}
    None = None
    Versions = {1, 2, 3}
    FirstVersion = 1
    SchemaOf <- StepSchema
    MinSchema <- StepMin
    MaxSchema <- StepMax
    Faults = {}
    r1 = r1
    r2 = r2
PROPERTIES
    RollbackOnlySwitches
CHECK_DEADLOCK FALSE
