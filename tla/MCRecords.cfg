SPECIFICATION RecordsSpec
CONSTANTS
    Members = {m1, m2, m3}
    Root = Root
    Absent = Absent
    Tabs = {t1, t2}
    Clients = {t1, t2}
    NoRow = NoRow
    MaxMinutes = 1
    Recorded = {"READING"}
    Users = {u}
    Captors = {}
    Jobs = {j}
    NoLabel = NoLabel
    Zones <- MCZones
    Instants <- MCInstants
    Chosen = {}
    MaxEditions = 0
    u = u
    j = j
    m1 = m1
    m2 = m2
    m3 = m3
    t1 = t1
    t2 = t2
SYMMETRY Symmetry
INVARIANTS
    TeamIsAcyclic
    DayIsWhole
    LabelsAreExplained
PROPERTIES
    DeletionKeepsTheRest
