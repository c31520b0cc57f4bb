------------------------------ MODULE MCRecords ------------------------------
(***************************************************************************)
(* Records of one user that several requests write at once, the team and the *)
(* worklog of a day, and the months that snapshots of the team are labelled *)
(* with. A behaviour follows one of the three; MCStatements has the captures. *)
(***************************************************************************)
EXTENDS TeamTree, LearningMinutes, TeamSnapshots, TLC

VARIABLE followed

Symmetry == Permutations(Members) \cup Permutations(Tabs)

Fixed(offset) == [at |-> 0, before |-> offset, after |-> offset]

\* The first midnight of October 2023 is skipped in Asuncion, that of
\* November 2015 repeated in Havana.
Asuncion == [at |-> DateUTC(2023, 9, 1) * HalfHours + 8, before |-> -8, after |-> -6]
Havana == [at |-> DateUTC(2015, 10, 1) * HalfHours + 10, before |-> -8, after |-> -10]

MCZones == {Fixed(16), Fixed(0), Fixed(-16), Fixed(-22), Asuncion, Havana}

\* Noon of a first of a month, and the end of other ones
MCInstants == {DateUTC(2023, 9, 1) * HalfHours + 24, DateUTC(2015, 10, 30) * HalfHours + 30,
               DateUTC(2016, 0, 31) * HalfHours + 30, DateUTC(2016, 2, 1) * HalfHours + 10}

all == <<followed, vars, learningVars, snapshotVars>>

RecordsInit ==
    /\ followed \in {"team", "day", "labels"}
    /\ Init /\ LearningInit /\ SnapshotInit

TeamStep == followed = "team" /\ UNCHANGED <<followed, learningVars, snapshotVars>> /\ Next
DayStep == followed = "day" /\ UNCHANGED <<followed, vars, snapshotVars>> /\ LearningNext
\* Bound: one snapshot shows its label as well as many.
MaxSnapshots == 1

LabelStep ==
    /\ followed = "labels" /\ UNCHANGED <<followed, vars, learningVars>> /\ SnapshotNext
    /\ Cardinality(DOMAIN snapshots') <= MaxSnapshots

RecordsNext == TeamStep \/ DayStep \/ LabelStep

RecordsSpec == RecordsInit /\ [][RecordsNext]_all
=============================================================================
