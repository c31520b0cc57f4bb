----------------------------- MODULE QueryCache -----------------------------
(***************************************************************************)
(* One query of the browser's TanStack Query cache, as src/frontend uses   *)
(* it (no retries, no refetch on focus).  A query keeps the last answer    *)
(* until a newer one arrives; a refetch asked for while an answer is under *)
(* way starts over when there is data to show, and joins the fetch under   *)
(* way when there is none.                                                 *)
(***************************************************************************)

CONSTANT NoData  \* nothing has been fetched yet

Query(Data) ==
    [data : Data \cup {NoData}, failed : BOOLEAN, busy : BOOLEAN, seen : Data \cup {NoData}]

Blank == [data |-> NoData, failed |-> FALSE, busy |-> FALSE, seen |-> NoData]

\* isPending, and the data a page may show
IsPending(q) == q.data = NoData /\ ~q.failed
IsShown(q) == q.data # NoData /\ ~q.failed
AtRest(q) == ~q.busy

Started(q) ==
    IF q.busy THEN q
    ELSE [q EXCEPT !.busy = TRUE, !.seen = NoData, !.failed = @ /\ q.data # NoData]

\* invalidateQueries and refetch (cancelRefetch)
Restarted(q) ==
    IF q.busy /\ q.data = NoData THEN q
    ELSE Started([q EXCEPT !.busy = FALSE])

\* The server reads what its answer will say; the answer arrives later.
MayRead(q) == q.busy /\ q.seen = NoData
ReadAs(q, v) == [q EXCEPT !.seen = v]
MayAnswer(q) == q.busy /\ q.seen # NoData
Answered(q) == [data |-> q.seen, failed |-> FALSE, busy |-> FALSE, seen |-> NoData]
Failed(q) == [q EXCEPT !.failed = TRUE, !.busy = FALSE, !.seen = NoData]

\* cancelQueries, and setQueryData (which leaves a fetch under way)
Cancelled(q) == [q EXCEPT !.busy = FALSE, !.seen = NoData]
Stored(q, v) == [q EXCEPT !.data = v, !.failed = FALSE]
=============================================================================
