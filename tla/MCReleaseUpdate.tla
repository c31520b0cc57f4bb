-------------------------- MODULE MCReleaseUpdate --------------------------
(* Small instances of ReleaseUpdate: two or three requests, three releases. *)
EXTENDS ReleaseUpdate, TLC

\* Release 2 keeps release 1 compatible, release 3 breaks release 1.
StepSchema == [v \in Versions |-> v]
StepMin    == [v \in Versions |-> IF v = 3 THEN 2 ELSE 1]
StepMax    == [v \in Versions |-> v + 1]

\* Every release accepts every schema.
AnyMin == [v \in Versions |-> 1]
AnyMax == [v \in Versions |-> 3]

RequestSymmetry == Permutations(Requests)
=============================================================================
