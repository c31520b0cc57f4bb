---------------------------- MODULE ReleaseTask ----------------------------
(***************************************************************************)
(* What the Version Center promises about release tasks, whatever files    *)
(* and processes it is built from: one holder at a time, a committed       *)
(* request runs at most once, and its outcome is reported at most once, by *)
(* the task itself while it holds the lock.                                *)
(*                                                                         *)
(* The lock of a request that waits can be given up (Lapse). From then on  *)
(* holding it is not what lets a request act, and a later request may      *)
(* replace the one that waits. What stays: one request runs at a time,     *)
(* once, and it alone reports, once.                                       *)
(***************************************************************************)
CONSTANTS Requests, None

VARIABLES
    holder,  \* the request that may act, or None
    phase,   \* new, queued, running, over
    report,  \* the last outcome shown
    astray   \* the lock of a waiting request has been given up

vars == <<holder, phase, report, astray>>

NoReport == [id |-> None, ok |-> FALSE]

Init ==
    /\ holder = None
    /\ phase = [r \in Requests |-> "new"]
    /\ report = NoReport
    /\ astray = FALSE

MayAct(r) == holder = r \/ astray

Move(r, from, to) == phase[r] = from /\ phase' = [phase EXCEPT ![r] = to]

Hold(r) ==
    /\ holder = None /\ phase[r] = "new"
    /\ holder' = r
    /\ UNCHANGED <<phase, report, astray>>

\* An enqueue that fails, or an operator who clears a task that is gone.
Drop(r) ==
    /\ holder = r /\ (phase[r] \in {"new", "over"} \/ astray)
    /\ holder' = None
    /\ UNCHANGED <<phase, report, astray>>

\* The request comes in the place of one that still waits.
Commit(r) ==
    /\ MayAct(r) /\ phase[r] = "new"
    /\ phase' = [q \in Requests |-> IF q = r THEN "queued"
                                    ELSE IF phase[q] = "queued" THEN "over" ELSE phase[q]]
    /\ UNCHANGED <<holder, report, astray>>

Lapse(r) ==
    /\ holder = r /\ phase[r] = "queued"
    /\ astray' = TRUE
    /\ UNCHANGED <<holder, phase, report>>

\* One task at a time.
Begin(r) ==
    /\ MayAct(r) /\ \A q \in Requests : phase[q] # "running"
    /\ Move(r, "queued", "running")
    /\ UNCHANGED <<holder, report, astray>>

\* The progress of the running task replaces the outcome of an earlier one.
Announce(r) ==
    /\ MayAct(r) /\ phase[r] = "running" /\ report.id # r
    /\ report' = NoReport
    /\ UNCHANGED <<holder, phase, astray>>

Report(r, ok) ==
    /\ MayAct(r) /\ phase[r] = "running" /\ report.id # r
    /\ report' = [id |-> r, ok |-> ok]
    /\ UNCHANGED <<holder, phase, astray>>

End(r) ==
    /\ MayAct(r) /\ report.id = r
    /\ Move(r, "running", "over")
    /\ holder' = None
    /\ UNCHANGED <<report, astray>>

\* The task dies: it keeps the lock and nothing more is reported.
Abandon(r) == MayAct(r) /\ Move(r, "running", "over") /\ UNCHANGED <<holder, report, astray>>

Next == \E r \in Requests :
    \/ Hold(r) \/ Drop(r) \/ Commit(r) \/ Lapse(r) \/ Begin(r) \/ Announce(r)
    \/ (\E ok \in BOOLEAN : Report(r, ok)) \/ End(r) \/ Abandon(r)

Spec == Init /\ [][Next]_vars
=============================================================================
