SPECIFICATION FairSpec
CONSTANTS
    Users = {u1}
    None = None
    Files = {1, 2}
    Deletions = {d1}
    Stuck = {1}
    Faults = {"remove"}
    MaxMishaps = 1
    u1 = u1
    d1 = d1
PROPERTIES
    FailuresResolve
CHECK_DEADLOCK FALSE
