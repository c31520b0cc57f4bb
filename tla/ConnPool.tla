------------------------------ MODULE ConnPool ------------------------------
(***************************************************************************)
(* The connections of one process to PostgreSQL, and the requests or jobs  *)
(* that take them. Most hold one for a statement or a transaction. Some    *)
(* read the rows of a list and take a second one for each row, while the   *)
(* first is still busy with the list: ListItems of the knowledge, List of  *)
(* the calendar, the retries of the file cleanup and the monthly snapshots.*)
(***************************************************************************)
EXTENDS Integers, FiniteSets

CONSTANTS
    Callers,  \* requests under way in the API, or the one job of the jobs command
    Conns     \* what the pool may open, pool_max_conns of them

ASSUME PoolAssumption == IsFiniteSet(Callers) /\ IsFiniteSet(Conns) /\ Conns # {}

VARIABLES
    held,   \* the connections of each caller
    stage,  \* what it does with them, or wants a connection for
    waits   \* it waits in Acquire

poolVars == <<held, stage, waits>>

Stages == {"none", "statement", "rows", "tags", "tagged", "files"}

PoolTypeOK ==
    /\ held \in [Callers -> SUBSET Conns]
    /\ stage \in [Callers -> Stages]
    /\ waits \in [Callers -> BOOLEAN]

PoolInit ==
    /\ held = [r \in Callers |-> {}]
    /\ stage = [r \in Callers |-> "none"]
    /\ waits = [r \in Callers |-> FALSE]

Free == Conns \ UNION {held[r] : r \in Callers}

-----------------------------------------------------------------------------
(* External: pgxpool. Nothing here depends on the order in which it serves. *)

\* Query, Begin, Exec and QueryRow of the pool begin with this.
Acquire(r, next) ==
    /\ ~waits[r]
    /\ stage' = [stage EXCEPT ![r] = next]
    /\ waits' = [waits EXCEPT ![r] = TRUE]
    /\ UNCHANGED held

Acquired(r) ==
    /\ waits[r]
    /\ \E c \in Free : held' = [held EXCEPT ![r] = @ \cup {c}]
    /\ waits' = [waits EXCEPT ![r] = FALSE]
    /\ UNCHANGED stage

-----------------------------------------------------------------------------
(* What the services do with connections                                   *)

\* One statement outside any transaction, or a transaction; QueryRow, Exec and
\* rows that are read to their end.
Statement(r) == stage[r] = "none" /\ Acquire(r, "statement")

List(r) == stage[r] = "none" /\ Acquire(r, "rows")

\* A row has been read: its tags, attendees, or whatever comes first.
LoadRelations(r) == stage[r] = "rows" /\ Acquire(r, "tags")

\* Variant: the files are asked for inside the loop over the tags.
StillOpen(r) == {held[r]}

\* Rows that were read to their end give their connection back: Next closes them when
\* it returns false, and the Close before the next query only repeats that.
Closed(r) == {held[r] \ {c} : c \in held[r]}

CloseTags(r) ==
    /\ stage[r] = "tags" /\ ~waits[r]
    /\ \E left \in Closed(r) : held' = [held EXCEPT ![r] = left]
    /\ stage' = [stage EXCEPT ![r] = "tagged"]
    /\ UNCHANGED waits

LoadFiles(r) == stage[r] = "tagged" /\ Acquire(r, "files")

\* The relations of the row are there; what its queries deferred to close is closed.
Related(r) ==
    /\ stage[r] = "files" /\ ~waits[r]
    /\ \E c \in held[r] : held' = [held EXCEPT ![r] = {c}]
    /\ stage' = [stage EXCEPT ![r] = "rows"]
    /\ UNCHANGED waits

GivenBack(r) ==
    /\ held' = [held EXCEPT ![r] = {}]
    /\ stage' = [stage EXCEPT ![r] = "none"]

\* The transaction has ended, or the rows have.
Done(r) ==
    /\ stage[r] \in {"statement", "rows"} /\ ~waits[r]
    /\ GivenBack(r)
    /\ UNCHANGED waits

\* The client has gone, the deadline of the job has passed, or a query fails: every
\* error return closes what is open.
Leave(r) ==
    /\ stage[r] # "none"
    /\ GivenBack(r)
    /\ waits' = [waits EXCEPT ![r] = FALSE]

-----------------------------------------------------------------------------
PoolNext == \E r \in Callers :
    \/ Statement(r) \/ List(r) \/ Acquired(r)
    \/ LoadRelations(r) \/ CloseTags(r) \/ LoadFiles(r) \/ Related(r)
    \/ Done(r) \/ Leave(r)

PoolSpec == PoolInit /\ [][PoolNext]_poolVars

-----------------------------------------------------------------------------
(* Properties                                                              *)

\* Nothing moves any more unless a caller gives up.
Stuck == Free = {} /\ \A r \in Callers : held[r] # {} => waits[r]

\* Lists that wait for a second connection.
Listing == {r \in Callers : waits[r] /\ held[r] # {}}

\* The pool only blocks when there are as many lists at once as connections, each
\* with one of them: requests with one connection never block it, however many there
\* are, and fewer lists never do.
ListsAloneBlock == Stuck => Cardinality(Conns) <= Cardinality(Listing)
=============================================================================
