--------------------------- MODULE MCTeamSnapshots ---------------------------
(* An instance of TeamSnapshots: one job for one account east of Greenwich. *)
EXTENDS TeamSnapshots

Shanghai == {[at |-> 0, before |-> 16, after |-> 16]}

\* Noon of the first of October 2023
MCInstants == {DateUTC(2023, 9, 1) * HalfHours + 24}
=============================================================================
