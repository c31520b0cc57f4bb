---------------------------- MODULE VersionCenter ----------------------------
(***************************************************************************)
(* The Version Center of a SUPER_ADMIN: it watches the release tasks of    *)
(* the server by polling while the status it shows is of a running task,   *)
(* and stores the answers of its own requests in the same query.           *)
(*                                                                         *)
(* A status is a number: 2k - 1 while task k runs, 2k once it is over.     *)
(***************************************************************************)
EXTENDS Naturals, QueryCache

CONSTANT MaxTasks  \* bound: release tasks

ASSUME VersionAssumption == MaxTasks \in Nat /\ NoData \notin Nat

VARIABLES
    centerOpen, \* the dialog is open, and with it the query enabled
    release,    \* the query ["admin", "system", "release"]
    checking,   \* the request that checks for a new version
    confirm,    \* the confirmation in front, for an update or a rollback
    action,     \* the update and the rollback under way
    task,       \* server: its status
    mine,       \* history: the status with which an own request was accepted
    calm        \* history: nothing else was under way when it was answered

versionVars == <<centerOpen, release, checking, confirm, action, task, mine, calm>>

Actions == {"update", "rollback"}
NotAsked == [phase |-> "idle", as |-> 0]

IsRunning(status) == status % 2 = 1
ShowsRunning == release.data # NoData /\ IsRunning(release.data)
Asking(a) == action[a].phase # "idle"

VersionInit ==
    /\ centerOpen = FALSE /\ release = Blank
    /\ checking = NotAsked /\ confirm = "none"
    /\ action = [a \in Actions |-> NotAsked]
    /\ task \in {0, 1} /\ mine = 0 /\ calm = TRUE

\* Enabling the query fetches it; its data are never fresh.
OpenCenter ==
    /\ ~centerOpen
    /\ centerOpen' = TRUE /\ release' = Started(release)
    /\ UNCHANGED <<checking, confirm, action, task, mine, calm>>

CloseCenter ==
    /\ centerOpen
    /\ centerOpen' = FALSE
    /\ UNCHANGED <<release, checking, confirm, action, task, mine, calm>>

\* Every 2.5 seconds while the dialog shows a running task
Poll ==
    /\ centerOpen /\ ShowsRunning /\ AtRest(release)
    /\ release' = Started(release)
    /\ UNCHANGED <<centerOpen, checking, confirm, action, task, mine, calm>>

ReadRelease ==
    /\ MayRead(release)
    /\ release' = ReadAs(release, task)
    /\ UNCHANGED <<centerOpen, checking, confirm, action, task, mine, calm>>

AnswerRelease ==
    /\ MayAnswer(release)
    /\ release' = Answered(release)
    /\ UNCHANGED <<centerOpen, checking, confirm, action, task, mine, calm>>

\* The server may be restarting.
ReleaseFails ==
    /\ release.busy
    /\ release' = Failed(release)
    /\ UNCHANGED <<centerOpen, checking, confirm, action, task, mine, calm>>

\* The button of the title waits for a running task; the one below an error
\* does not.
Check ==
    /\ centerOpen /\ checking.phase = "idle"
    /\ ~ShowsRunning \/ release.failed
    /\ checking' = [phase |-> "sent", as |-> 0]
    /\ UNCHANGED <<centerOpen, release, confirm, action, task, mine, calm>>

ServeCheck ==
    /\ checking.phase = "sent"
    /\ checking' = [phase |-> "served", as |-> task]
    /\ UNCHANGED <<centerOpen, release, confirm, action, task, mine, calm>>

AnswerCheck ==
    /\ checking.phase = "served"
    /\ release' = Stored(release, checking.as)
    /\ checking' = NotAsked
    /\ UNCHANGED <<centerOpen, confirm, action, task, mine, calm>>

CheckFails ==
    /\ checking.phase # "idle"
    /\ checking' = NotAsked
    /\ UNCHANGED <<centerOpen, release, confirm, action, task, mine, calm>>

\* A newer release, or an installed version that allows a rollback, is listed.
OpenConfirm(a) ==
    /\ centerOpen /\ confirm = "none"
    /\ release.data # NoData /\ ~ShowsRunning
    /\ confirm' = a
    /\ UNCHANGED <<centerOpen, release, checking, action, task, mine, calm>>

\* A dialog can be left with Escape while its request is under way.
Dismiss ==
    /\ confirm # "none"
    /\ confirm' = "none"
    /\ UNCHANGED <<centerOpen, release, checking, action, task, mine, calm>>

Confirm(a) ==
    /\ confirm = a /\ ~Asking(a)
    /\ action' = [action EXCEPT ![a] = [phase |-> "sent", as |-> 0]]
    /\ UNCHANGED <<centerOpen, release, checking, confirm, task, mine, calm>>

\* Queue: one task at a time, and the answer carries its status.
ServeAction(a) ==
    /\ action[a].phase = "sent"
    /\ ~IsRunning(task) /\ task < 2 * MaxTasks
    /\ task' = task + 1
    /\ action' = [action EXCEPT ![a] = [phase |-> "served", as |-> task']]
    /\ UNCHANGED <<centerOpen, release, checking, confirm, mine, calm>>

Settled == AtRest(release) /\ checking.phase = "idle"

\* Variant: the answer is not stored, only fetched again.
FetchAccepted(status) == release' = Started(release)

\* setQueryData with the status that the request was answered with
ShowAccepted(status) == release' = Stored(release, status)

AnswerAction(a) ==
    /\ action[a].phase = "served"
    /\ ShowAccepted(action[a].as)
    /\ confirm' = IF confirm = a THEN "none" ELSE confirm
    /\ action' = [action EXCEPT ![a] = NotAsked]
    /\ mine' = action[a].as
    /\ calm' = (Settled /\ \A b \in Actions \ {a} : ~Asking(b))
    /\ UNCHANGED <<centerOpen, checking, task>>

\* Refused, not sent, or its answer lost in the restart
ActionFails(a) ==
    /\ Asking(a)
    /\ action' = [action EXCEPT ![a] = NotAsked]
    /\ UNCHANGED <<centerOpen, release, checking, confirm, task, mine, calm>>

\* The updater ends the task, or another administrator queues one.
TaskMoves ==
    /\ task < 2 * MaxTasks
    /\ task' = task + 1
    /\ UNCHANGED <<centerOpen, release, checking, confirm, action, mine, calm>>

VersionNext ==
    \/ OpenCenter \/ CloseCenter
    \/ Poll \/ ReadRelease \/ AnswerRelease \/ ReleaseFails
    \/ Check \/ ServeCheck \/ AnswerCheck \/ CheckFails
    \/ \E a \in Actions : OpenConfirm(a) \/ Confirm(a) \/ ServeAction(a) \/ AnswerAction(a)
                          \/ ActionFails(a)
    \/ Dismiss \/ TaskMoves

VersionSpec == VersionInit /\ [][VersionNext]_versionVars

-----------------------------------------------------------------------------
(* Properties                                                              *)

\* An update or a rollback that was accepted while nothing else of the dialog
\* was under way is not lost from view: as long as its task runs the dialog
\* shows it running, so that polling goes on and no second action is offered,
\* whatever later polls, checks and failures answer, in whatever order.
AcceptedIsFollowed == calm /\ mine # 0 /\ task = mine => ShowsRunning
=============================================================================
