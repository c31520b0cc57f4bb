----------------------------- MODULE MCStatements -----------------------------
(***************************************************************************)
(* Statements of several requests and jobs that meet in the database: about *)
(* the sessions of browsers, the snapshots of teams, or for a connection. A *)
(* behaviour follows one of the three.                                     *)
(***************************************************************************)
EXTENDS BrowserSessions, TeamSnapshots, ConnPool, TLC

VARIABLE followed

\* Users are represented by the same values as accounts.
Symmetry == Permutations(Accounts) \cup Permutations(Sessions) \cup Permutations(Requests)

Shanghai == {[at |-> 0, before |-> 16, after |-> 16]}

\* Noon of the first of October 2023; a day in August
MCInstants == {DateUTC(2023, 9, 1) * HalfHours + 24}
MCChosen == {DateUTC(2023, 7, 15)}

all == <<followed, vars, snapshotVars, poolVars>>

StatementsInit ==
    /\ followed \in {"sessions", "captures", "pool"}
    /\ Init /\ SnapshotInit /\ PoolInit
    /\ followed # "sessions" => live = {}

SessionStep == followed = "sessions" /\ UNCHANGED <<followed, snapshotVars, poolVars>> /\ Next

\* Bound: there are at most two snapshots.
MaxSnapshots == 2

CaptureStep ==
    /\ followed = "captures" /\ UNCHANGED <<followed, vars, poolVars>> /\ SnapshotNext
    /\ Cardinality(DOMAIN snapshots') <= MaxSnapshots

PoolStep == followed = "pool" /\ UNCHANGED <<followed, vars, snapshotVars>> /\ PoolNext

StatementsNext == SessionStep \/ CaptureStep \/ PoolStep

StatementsSpec == StatementsInit /\ [][StatementsNext]_all
=============================================================================
