SPECIFICATION FairSpec
CONSTANTS
    Users = {u1}
    None = None
    Files = {1, 2}
    Deletions = {d1}
    Stuck = {}
    Faults = {"remove", "db", "reply", "crash", "job"}
    MaxMishaps = 1
    u1 = u1
    d1 = d1
INVARIANTS
    StoredFilesStay
    RowsAgree
PROPERTIES
    LeftoversGo
CHECK_DEADLOCK FALSE
