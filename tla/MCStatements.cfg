SPECIFICATION StatementsSpec
CONSTANTS
    Accounts = {a1, a2}
    Sessions = {s1}
    Requests = {r1, r2}
    Nobody = Nobody
    Users = {a1, a2}
    Captors = {c1}
    Jobs = {j1}
    NoLabel = NoLabel
    Zones <- Shanghai
    Instants <- MCInstants
    Chosen <- MCChosen
    MaxEditions = 1
    Callers = {q1, q2, q3, q4}
    Conns = {d1, d2}
    a1 = a1
    a2 = a2
    s1 = s1
    r1 = r1
    r2 = r2
    c1 = c1
    j1 = j1
    q1 = q1
    q2 = q2
    q3 = q3
    q4 = q4
    d1 = d1
    d2 = d2
SYMMETRY Symmetry
INVARIANTS
    OnlyAuthenticated
    SessionsKeepUp
    SnapshotsAreWhole
    JobsAreComplete
    ListsAloneBlock
PROPERTIES
    SnapshotsGrowNewer
