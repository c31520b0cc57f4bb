----------------------------- MODULE MCGoalTree -----------------------------
(* A small instance of GoalTree; its liveness rules out symmetry. *)
EXTENDS GoalTree
=============================================================================
