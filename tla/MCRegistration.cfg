SPECIFICATION FairSpec
CONSTANTS
    Registrations = {r1, r2}
    Codes = {c1, c2}
    Names = {n1}
    None = None
    Limits = {1}
    Expiries = {1}
    MaxTime = 1
    Faults = {"db", "reply"}
    r1 = r1
    r2 = r2
    c1 = c1
    c2 = c2
    n1 = n1
INVARIANTS
    UsesAreCounted
PROPERTIES
    Admitted
    RegistrationsEnd
    MembershipSpec
CHECK_DEADLOCK FALSE
