SPECIFICATION Spec
CONSTANTS
    Requests = {r1, r2, r3}
    None = None
    Versions = {1, 2, 3}
    FirstVersion = 1
    SchemaOf <- StepSchema
    MinSchema <- StepMin
    MaxSchema <- StepMax
    Faults = {}
    r1 = r1
    r2 = r2
    r3 = r3
PROPERTIES
    RefusalReleasesLock
CHECK_DEADLOCK FALSE
