SPECIFICATION SnapshotSpec
CONSTANTS
    Users = {u1}
    NoLabel = NoLabel
    Captors = {}
    Jobs = {j}
    Zones <- Shanghai
    Instants <- MCInstants
    Chosen = {}
    MaxEditions = 1
    u1 = u1
    j = j
INVARIANTS
    LabelsAreJustFinished
