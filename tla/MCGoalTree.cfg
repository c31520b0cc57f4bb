SPECIFICATION FairSpec
CONSTANTS
    Goals = {g1, g2, g3}
    Root = Root
    Absent = Absent
    Tabs = {t1, t2}
    g1 = g1
    g2 = g2
    g3 = g3
    t1 = t1
    t2 = t2
INVARIANTS
    GoalsAreAcyclic
PROPERTIES
    WalkIsExact
    DeletedGoalsStayGone
    WalksEnd
