------------------------ MODULE ReleaseUpdateProofs ------------------------
(***************************************************************************)
(* Theorems about ReleaseUpdate for every set of requests, releases,       *)
(* manifests and faults; the few that need SchemasAgree and RestoresWork   *)
(* say so.                                                                 *)
(***************************************************************************)
EXTENDS ReleaseUpdate, TLAPS

\* The steps of a handler, without the ones that only change other variables.
LEMMA HandlerCases ==
    ASSUME NEW r \in Requests, Handler(r)
    PROVE  \/ Validate(r) \/ AcquireLock(r) \/ LockRefused(r)
           \/ WriteQueuedStatus(r) \/ QueuedStatusFails(r)
           \/ WriteRequest(r) \/ WriteRequestFails(r) \/ UndoQueuedStatus(r)
  BY DEF Handler

\* When the script ends only its memory is cleared.
LEMMA ExitKeepsTypes ==
    ASSUME TypeOK, Exit, UNCHANGED <<apiVars, status, queuedStatus, trigger, lapsed, running>>,
           UNCHANGED <<bLink, wLink, wDirs, schema>>,
           lock' \in Requests \cup {None}, bDirs' \subseteq Versions
    PROVE  TypeOK'
<1>1. /\ upc' \in {"idle", "claimed", "queued"} \cup Progress \cup Recovery \cup Ending
      /\ claim' = None /\ upc' = "idle"
      /\ installed' \in BOOLEAN
      /\ prevB' \in Versions /\ prevW' \in Versions /\ note' \in Notes
  BY ConstantsAssumption DEF Exit, Notes
<1>2. QED
  BY <1>1 DEF TypeOK, apiVars

\* Every step keeps the types.
LEMMA TypeStep ==
    ASSUME TypeOK, [Next]_vars
    PROVE  TypeOK'
<1> USE ConstantsAssumption
<1> USE DEF TypeOK
<1>1. ASSUME NEW r \in Requests, Handler(r) PROVE TypeOK'
  <2> USE DEF InFlight, fileVars, relVars, memVars
  <2>1. CASE Validate(r)
    BY <2>1 DEF Validate
  <2>2. CASE AcquireLock(r)
    BY <2>2 DEF AcquireLock
  <2>3. CASE LockRefused(r)
    BY <2>3 DEF LockRefused
  <2>4. CASE WriteQueuedStatus(r)
    BY <2>4 DEF WriteQueuedStatus
  <2>5. CASE QueuedStatusFails(r)
    BY <2>5 DEF QueuedStatusFails
  <2>6. CASE WriteRequest(r)
    BY <2>6 DEF WriteRequest
  <2>7. CASE WriteRequestFails(r)
    BY <2>7 DEF WriteRequestFails
  <2>8. CASE UndoQueuedStatus(r)
    BY <2>8 DEF UndoQueuedStatus
  <2>9. QED
    BY <1>1, <2>1, <2>2, <2>3, <2>4, <2>5, <2>6, <2>7, <2>8, HandlerCases
<1>2. CASE ApiCrash
  BY <1>2 DEF ApiCrash, RestartApi, StartedBuild, Down, InFlight, fileVars, relVars, memVars
<1>3. CASE Forward
  <2> USE DEF Enter, WriteStatus, States, Progress, Recovery, Ending,
              apiVars, fileVars, relVars, memVars
  <2>1. CASE ClaimRequest
    BY <2>1 DEF ClaimRequest
  <2>2. CASE AnnounceQueued
    BY <2>2 DEF AnnounceQueued
  <2>3. CASE StartDownload
    BY <2>3 DEF StartDownload
  <2>4. CASE Downloaded
    BY <2>4 DEF Downloaded
  <2>5. CASE Verified
    BY <2>5 DEF Verified
  <2>6. CASE RollbackVerified
    BY <2>6 DEF RollbackVerified
  <2>7. CASE RollbackRefused
    BY <2>7, ExitKeepsTypes DEF RollbackRefused
  <2>8. CASE BackedUp
    BY <2>8 DEF BackedUp
  <2>9. CASE Migrate
    <3>1. claim \in Requests /\ Target \in Versions
      BY <2>9 DEF Migrate, Target
    <3>2. schema' \in Nat /\ bDirs' \subseteq Versions /\ wDirs' \subseteq Versions
      BY <2>9, <3>1 DEF Migrate
    <3>3. QED
      BY <2>9, <3>2 DEF Migrate
  <2>10. CASE Installed
    BY <2>10 DEF Installed
  <2>11. CASE SwitchBackend
    BY <2>11 DEF SwitchBackend, Target
  <2>12. CASE SwitchWeb
    BY <2>12 DEF SwitchWeb, Target
  <2>13. CASE Restart
    BY <2>13 DEF Restart, RestartApi, StartedBuild, InFlight
  <2>14. CASE Healthy
    BY <2>14 DEF Healthy
  <2>15. QED
    BY <1>3, <2>1, <2>2, <2>3, <2>4, <2>5, <2>6, <2>7, <2>8, <2>9, <2>10,
       <2>11, <2>12, <2>13, <2>14 DEF Forward
<1>8. CASE Backward
  <2> USE DEF WriteStatus, States, Progress, Recovery, Ending, Notes,
              apiVars, fileVars, relVars, memVars
  <2>1. CASE StepFails
    BY <2>1 DEF StepFails
  <2>2. CASE MigrateFails
    BY <2>2 DEF MigrateFails, Target
  <2>3. CASE SwitchedStepFails
    BY <2>3 DEF SwitchedStepFails, RestartApi, RestartCommandFails, StartedBuild, InFlight
  <2>4. CASE RestoreBackend
    BY <2>4 DEF RestoreBackend
  <2>5. CASE RestoreWeb
    BY <2>5 DEF RestoreWeb
  <2>6. CASE Revive
    BY <2>6 DEF Revive, RestartApi, StartedBuild, InFlight
  <2>7. CASE RestoreFails
    BY <2>7 DEF RestoreFails, RestartApi, RestartCommandFails, StartedBuild, InFlight
  <2>8. CASE Purge
    <3>1. bDirs' \subseteq Versions /\ wDirs' \subseteq Versions
      BY <2>8 DEF Purge, RemoveTarget
    <3>2. QED
      BY <2>8, <3>1 DEF Purge
  <2>9. CASE ReportFailure
    BY <2>9 DEF ReportFailure
  <2>10. CASE Discard
    <3>1. bDirs' \subseteq Versions /\ wDirs' \subseteq Versions
      BY <2>10 DEF Discard, RemoveTarget
    <3>2. QED
      BY <2>10, <3>1 DEF Discard
  <2>11. CASE CleanQueuedStatus
    BY <2>11 DEF CleanQueuedStatus
  <2>12. CASE ReleaseLock
    BY <2>12, ExitKeepsTypes DEF ReleaseLock
  <2>13. CASE ClaimFails
    BY <2>13 DEF ClaimFails
  <2>14. QED
    BY <1>8, <2>1, <2>2, <2>3, <2>4, <2>5, <2>6, <2>7, <2>8, <2>9, <2>10,
       <2>11, <2>12, <2>13 DEF Backward
<1>4. CASE Killed
  BY <1>4, ExitKeepsTypes DEF Killed, fileVars
<1>5. CASE OperatorUnlock
  BY <1>5 DEF OperatorUnlock, apiVars, relVars, memVars
<1>6. CASE UNCHANGED vars
  BY <1>6 DEF vars, apiVars, fileVars, relVars, memVars
<1>7. QED
  BY <1>1, <1>2, <1>3, <1>4, <1>5, <1>6, <1>8 DEF Next, Updater

\* Every variable keeps its type: in particular the links always name published
\* releases and status.json only ever holds a state the Version Center knows.
THEOREM TypeCorrect == Spec => []TypeOK
<1> USE ConstantsAssumption
<1>1. Init => TypeOK
  <2> SUFFICES ASSUME Init PROVE TypeOK
    OBVIOUS
  <2> USE DEF Init
  <2>1. /\ pc \in [Requests -> {"new", "rejected", "accepted", "dead"} \cup InFlight]
        /\ req \in [Requests -> [action : Actions, target : Versions]]
    BY DEF Actions
  <2>2. status \in [id : Requests \cup {None}, state : States, note : Notes]
    BY DEF NoStatus, States, Notes
  <2>3. /\ running \in Versions \cup {Down} /\ schema \in Nat
        /\ bDirs \subseteq Versions /\ wDirs \subseteq Versions
    OBVIOUS
  <2>4. QED
    BY <2>1, <2>2, <2>3 DEF TypeOK, Notes
<1>2. TypeOK /\ [Next]_vars => TypeOK'
  BY TypeStep
<1>3. QED
  BY <1>1, <1>2, PTL DEF Spec

-----------------------------------------------------------------------------
(* The lock                                                                *)

\* What a step of the updater, or the death of a process, can do to the files and
\* to the handlers: a restart of the API only ends handlers in flight.
HandlersOnlyDie ==
    \A r \in Requests : pc'[r] = pc[r] \/ (pc[r] \in InFlight /\ pc'[r] = "dead")

TaskGoesOn ==
    /\ HandlersOnlyDie
    /\ UNCHANGED <<lock, trigger, lapsed, claim>>
    /\ queuedStatus' \in {None, queuedStatus}
    /\ upc' = "idle" <=> upc = "idle"

TaskStops ==
    /\ Exit /\ upc # "idle"
    /\ UNCHANGED <<pc, trigger, lapsed, queuedStatus>>
    /\ lock' \in {None, lock}

\* Every step that is not a handler's, a claim or the operator's either keeps the
\* task going or ends the updater process.
LEMMA UpdaterFrame ==
    ASSUME TypeOK, Updater \/ Killed \/ ApiCrash
    PROVE  ClaimRequest \/ ClaimFails \/ TaskGoesOn \/ TaskStops
<1> USE DEF TypeOK, TaskGoesOn, TaskStops, HandlersOnlyDie, apiVars, fileVars, memVars
<1>1. CASE ApiCrash
  BY <1>1 DEF ApiCrash, RestartApi
<1>2. CASE Killed
  BY <1>2 DEF Killed
<1>3. CASE Forward
  BY <1>3 DEF Forward, Enter, AnnounceQueued, StartDownload, Downloaded, Verified,
       RollbackVerified, RollbackRefused, BackedUp, Migrate, Installed, SwitchBackend,
       SwitchWeb, Restart, RestartApi, Healthy
<1>4. CASE Backward
  BY <1>4 DEF Backward, ClaimFails, StepFails, MigrateFails, SwitchedStepFails, RestartApi,
       RestartCommandFails, RestoreBackend, RestoreWeb, Revive, RestoreFails, Purge,
       ReportFailure, Discard, CleanQueuedStatus, ReleaseLock
<1>5. QED
  BY <1>1, <1>2, <1>3, <1>4 DEF Updater

\* The lock is the task (TaskHoldsLock), and the queued status is the task's own.
\* Both depend on claims: only a failing one lets a task lose its lock.
LockInv ==
    /\ TaskHoldsLock /\ QueuedStatusIsOwn
    /\ lapsed => "claim" \in Faults

LEMMA LockInvStep ==
    ASSUME TypeOK, LockInv, [Next]_vars
    PROVE  LockInv'
<1> USE ConstantsAssumption DEF TypeOK, LockInv, TaskHoldsLock, QueuedStatusIsOwn
<1>1. ASSUME NEW r \in Requests, Handler(r) PROVE LockInv'
  <2> USE DEF fileVars, memVars
  <2>1. CASE Validate(r)
    BY <2>1 DEF Validate
  <2>2. CASE AcquireLock(r)
    BY <2>2 DEF AcquireLock, LockFree
  <2>3. CASE LockRefused(r)
    BY <2>3 DEF LockRefused
  <2>4. CASE WriteQueuedStatus(r)
    BY <2>4 DEF WriteQueuedStatus
  <2>5. CASE QueuedStatusFails(r)
    BY <2>5 DEF QueuedStatusFails
  <2>6. CASE WriteRequest(r)
    BY <2>6 DEF WriteRequest
  <2>7. CASE WriteRequestFails(r)
    BY <2>7 DEF WriteRequestFails
  <2>8. CASE UndoQueuedStatus(r)
    BY <2>8 DEF UndoQueuedStatus
  <2>9. QED
    BY <1>1, <2>1, <2>2, <2>3, <2>4, <2>5, <2>6, <2>7, <2>8, HandlerCases
<1>2. CASE OperatorUnlock
  BY <1>2 DEF OperatorUnlock, apiVars, memVars, InFlight
<1>3. CASE ClaimRequest
  BY <1>3 DEF ClaimRequest, apiVars
<1>4. CASE TaskGoesOn
  BY <1>4 DEF TaskGoesOn, HandlersOnlyDie, InFlight
<1>5. CASE TaskStops
  BY <1>5 DEF TaskStops, Exit
<1>6. CASE UNCHANGED vars
  BY <1>6 DEF vars, apiVars, fileVars, memVars
<1>7. CASE ClaimFails
  BY <1>7 DEF ClaimFails, apiVars, memVars
<1>8. QED
  BY <1>1, <1>2, <1>3, <1>4, <1>5, <1>6, <1>7, UpdaterFrame DEF Next

\* Until a claim fails there is one task at a time, and it owns the lock from the
\* moment a handler creates it until the updater has cleaned up, in spite of every
\* other fault. After a failed claim still only committed requests wait and run.
THEOREM OneTaskHoldsLock == Spec => []TaskHoldsLock
<1>1. Init => LockInv
  BY ConstantsAssumption DEF Init, LockInv, TaskHoldsLock, QueuedStatusIsOwn
<1>2. TypeOK /\ LockInv /\ [Next]_vars => LockInv'
  BY LockInvStep
<1>3. LockInv => TaskHoldsLock
  BY DEF LockInv
<1>4. QED
  BY <1>1, <1>2, <1>3, TypeCorrect, PTL DEF Spec

\* Until a claim fails no clean-up of one request leaves the status of another one
\* in its place.
THEOREM StatusBelongsToTask == Spec => []QueuedStatusIsOwn
<1>1. Init => LockInv
  BY ConstantsAssumption DEF Init, LockInv, TaskHoldsLock, QueuedStatusIsOwn
<1>2. TypeOK /\ LockInv /\ [Next]_vars => LockInv'
  BY LockInvStep
<1>3. LockInv => QueuedStatusIsOwn
  BY DEF LockInv
<1>4. QED
  BY <1>1, <1>2, <1>3, TypeCorrect, PTL DEF Spec

\* Lock, request and queued status speak of one task until a claim fails, in spite
\* of every other fault.
THEOREM TaskFilesBelongTogether == Spec => []TaskFilesAgree
<1>1. TaskHoldsLock /\ QueuedStatusIsOwn => TaskFilesAgree
  BY DEF TaskFilesAgree
<1>2. QED
  BY <1>1, OneTaskHoldsLock, StatusBelongsToTask, PTL

-----------------------------------------------------------------------------
(* What a task knows at each stage                                         *)

\* From the check of the manifest to the health check: the target accepts the
\* schema, the links it has moved name it, and the restarted API is its build.
StageInv ==
    /\ upc \in {"downloading", "verifying"} => Action = "update"
    /\ upc = "backing_up" /\ Action = "rollback" => Compatible(Target, schema)
    /\ upc \in {"installing", "switching", "switchingWeb", "restarting", "health_check"}
         => Compatible(Target, schema)
    /\ upc \in {"switchingWeb", "restarting", "health_check"} => bLink = Target
    /\ upc \in {"restarting", "health_check"} => wLink = Target
    /\ upc = "health_check" => running \in {Down, Target}

\* A handler does not touch the request of the task, nor what StageInv speaks of.
LEMMA HandlerKeepsTask ==
    ASSUME TypeOK, LockInv, NEW r \in Requests, Handler(r)
    PROVE  /\ UNCHANGED <<upc, claim, schema, bLink, wLink, running, status, prevB, prevW>>
           /\ claim # None => Target' = Target /\ Action' = Action
<1> USE DEF TypeOK, LockInv, TaskHoldsLock, Target, Action, fileVars, relVars, memVars
<1>1. CASE Validate(r)
  BY <1>1, ConstantsAssumption DEF Validate
<1>2. CASE ~Validate(r)
  BY <1>2, HandlerCases DEF AcquireLock, LockRefused, WriteQueuedStatus, QueuedStatusFails,
       WriteRequest, WriteRequestFails, UndoQueuedStatus
<1>3. QED
  BY <1>1, <1>2

LEMMA StageInvStep ==
    ASSUME TypeOK, LockInv, StageInv, [Next]_vars
    PROVE  StageInv'
<1>1. ASSUME NEW r \in Requests, Handler(r) PROVE StageInv'
  BY <1>1, HandlerKeepsTask DEF StageInv, Compatible, TypeOK, Ending
<1> USE DEF StageInv, Target, Action, apiVars, relVars, memVars
<1>2. CASE ApiCrash
  BY <1>2 DEF ApiCrash, RestartApi, StartedBuild, Compatible
<1>3. CASE Forward
  <2> USE DEF Enter
  <2>1. CASE ClaimRequest
    BY <2>1 DEF ClaimRequest
  <2>2. CASE RollbackVerified
    BY <2>2 DEF RollbackVerified, Compatible
  <2>3. CASE Verified
    BY <2>3 DEF Verified
  <2>4. CASE BackedUp
    BY <2>4 DEF BackedUp, TypeOK, Actions, Ending, Compatible
  <2>5. CASE Migrate
    BY <2>5 DEF Migrate, Compatible
  <2>6. CASE Installed
    BY <2>6 DEF Installed, Compatible
  <2>7. CASE SwitchBackend
    BY <2>7 DEF SwitchBackend, Compatible
  <2>8. CASE SwitchWeb
    BY <2>8 DEF SwitchWeb, Compatible
  <2>9. CASE Restart
    BY <2>9 DEF Restart, RestartApi, StartedBuild, Compatible
  <2>10. CASE AnnounceQueued \/ StartDownload \/ Downloaded \/ RollbackRefused \/ Healthy
    BY <2>10 DEF AnnounceQueued, StartDownload, Downloaded, RollbackRefused, Healthy, Exit
  <2>11. QED
    BY <1>3, <2>1, <2>2, <2>3, <2>4, <2>5, <2>6, <2>7, <2>8, <2>9, <2>10 DEF Forward
<1>4. CASE Backward
  BY <1>4 DEF Backward, ClaimFails, StepFails, MigrateFails, SwitchedStepFails, RestoreBackend, RestoreWeb,
       Revive, RestoreFails, Purge, ReportFailure, Discard, CleanQueuedStatus, ReleaseLock, Exit
<1>5. CASE Killed
  BY <1>5 DEF Killed, Exit
<1>6. CASE OperatorUnlock
  BY <1>6 DEF OperatorUnlock, Compatible
<1>7. CASE UNCHANGED vars
  BY <1>7 DEF vars, Compatible
<1>8. QED
  BY <1>1, <1>2, <1>3, <1>4, <1>5, <1>6, <1>7 DEF Next, Updater

\* The three invariants together, from which the action properties follow.
TaskInv == TypeOK /\ LockInv /\ StageInv

LEMMA TaskInvHolds == Spec => []TaskInv
<1>1. Init => LockInv /\ StageInv
  BY ConstantsAssumption DEF Init, LockInv, TaskHoldsLock, QueuedStatusIsOwn, StageInv
<1>2. TypeOK /\ LockInv /\ StageInv /\ [Next]_vars => LockInv' /\ StageInv'
  BY LockInvStep, StageInvStep
<1>3. QED
  BY <1>1, <1>2, TypeCorrect, PTL DEF Spec, TaskInv

\* Neither a switch nor a restore points the backend at a release that does not
\* accept the schema, whatever failed, crashed or was killed before.
THEOREM BackendAcceptsSchema == Spec => LinkMovesToCompatible
<1>1. TaskInv /\ [Next]_vars => (bLink' # bLink => Compatible(bLink', schema'))
  <2> SUFFICES ASSUME TaskInv, [Next]_vars, bLink' # bLink
               PROVE  Compatible(bLink', schema')
    OBVIOUS
  <2>1. SwitchBackend \/ RestoreBackend
    <3>1. ~(\E r \in Requests : Handler(r))
      BY HandlerKeepsTask DEF TaskInv
    <3>2. ~(ApiCrash \/ Killed \/ OperatorUnlock \/ UNCHANGED vars)
      BY DEF ApiCrash, Killed, OperatorUnlock, vars, relVars
    <3>3. Updater
      BY <3>1, <3>2 DEF Next
    <3>4. QED
      BY <3>3 DEF Updater, Forward, Backward, ClaimRequest, AnnounceQueued, StartDownload,
           Downloaded, Verified, RollbackVerified, RollbackRefused, BackedUp, Migrate, Installed,
           SwitchWeb, Restart, Healthy, ClaimFails, StepFails, MigrateFails, SwitchedStepFails, RestoreWeb,
           Revive, RestoreFails, Purge, ReportFailure, Discard, CleanQueuedStatus, ReleaseLock,
           relVars
  <2>2. CASE SwitchBackend
    BY <2>2 DEF SwitchBackend, TaskInv, StageInv
  <2>3. CASE RestoreBackend
    BY <2>3 DEF RestoreBackend, PreviousUsable
  <2>4. QED
    BY <2>1, <2>2, <2>3
<1>2. QED
  BY <1>1, TaskInvHolds, PTL DEF Spec, LinkMovesToCompatible

\* "succeeded" is only reported for a release that both links name, that the API
\* runs, and that accepts the schema.
THEOREM SuccessReportIsTrue == Spec => SuccessIsComplete
<1> DEFINE Complete ==
      LET t == req[status'.id].target
      IN  bLink = t /\ wLink = t /\ running = t /\ Compatible(t, schema)
<1>1. TaskInv /\ [Next]_vars =>
        (status' # status /\ status'.state = "succeeded" => Complete)
  <2> SUFFICES ASSUME TaskInv, [Next]_vars, status' # status, status'.state = "succeeded"
               PROVE  Complete
    OBVIOUS
  <2>1. ~(\E r \in Requests : Handler(r))
    BY HandlerKeepsTask DEF TaskInv
  <2>2. ~(ApiCrash \/ Killed \/ OperatorUnlock \/ UNCHANGED vars)
    BY DEF ApiCrash, Killed, OperatorUnlock, vars
  <2>3. ~Backward
    BY DEF Backward, ClaimFails, StepFails, MigrateFails, SwitchedStepFails, RestoreBackend, RestoreWeb,
         Revive, RestoreFails, Purge, ReportFailure, WriteStatus, Discard, CleanQueuedStatus,
         ReleaseLock
  <2>4. Healthy
    BY <2>1, <2>2, <2>3 DEF Next, Updater, Forward, Enter, WriteStatus, ClaimRequest,
         AnnounceQueued, StartDownload, Downloaded, Verified, RollbackVerified, RollbackRefused,
         BackedUp, Migrate, Installed, SwitchBackend, SwitchWeb, Restart
  <2>5. QED
    BY <2>4 DEF Healthy, WriteStatus, TaskInv, StageInv, Target
<1>2. QED
  BY <1>1, TaskInvHolds, PTL DEF Spec, SuccessIsComplete

-----------------------------------------------------------------------------
(* The releases on disk, when no release breaks the schema of another      *)

\* Every release accepts every schema that a migration can leave behind.
SchemasAgree ==
    \A v \in Versions, s \in Nat :
        (\E a, b \in Versions : SchemaOf[a] <= s /\ s <= SchemaOf[b]) => Compatible(v, s)

\* The updater is not killed and the commands that restore succeed; handlers
\* fail and the API crashes as they like.
RestoresWork == Faults \subseteq {"write", "apiCrash"}

\* What a request asks for is another release than b, an update a newer one.
Leads(r, b) == req[r].target # b /\ (req[r].action = "update" => req[r].target > b)

\* the stages in which a link may not be what the API runs
Moved == {"switchingWeb", "restarting", "health_check", "restoring", "restoringWeb", "reviving"}
Switched == Moved \cup {"purging"}

ReleaseInv ==
    /\ CurrentInstalled
    /\ \E a, b \in Versions : SchemaOf[a] <= schema /\ schema <= SchemaOf[b]
    /\ upc \notin Moved => running = bLink /\ wLink = bLink
    /\ \A r \in Requests : pc[r] \in InFlight => Leads(r, running)
    /\ trigger # None => Leads(trigger, bLink)
    /\ upc \notin Moved \cup {"idle", "cleaning", "unlocking"} => Leads(claim, bLink)
    /\ upc = "backing_up" /\ Action = "rollback" => Target \in bDirs /\ Target \in wDirs
    /\ upc \in {"installing", "switching"} => Target \in bDirs /\ Target \in wDirs
    /\ upc \in Switched =>
        /\ Leads(claim, prevB)
        /\ prevW = prevB /\ prevB \in bDirs /\ prevB \in wDirs
        /\ bLink \in {prevB, Target} /\ wLink \in {prevB, Target} /\ running \in {prevB, Target}
    /\ upc = "switchingWeb" => Target \in wDirs
    /\ upc \in {"restoringWeb", "reviving", "purging"} => bLink = prevB
    /\ upc \in {"reviving", "purging"} => wLink = prevB
    /\ note = "restored" =>
        /\ upc \in {"failing", "cleaning", "unlocking"}
        /\ bLink = prevB /\ prevW = prevB

\* A task keeps its lock when no claim fails.
LEMMA ClaimsWork ==
    ASSUME LockInv, RestoresWork
    PROVE  ~lapsed /\ (upc # "idle" => claim # None /\ lock = claim) /\ ~ClaimFails
  BY DEF LockInv, TaskHoldsLock, RestoresWork, ClaimFails

LEMMA ReleasesUntouched ==
    ASSUME ReleaseInv,
           UNCHANGED <<upc, claim, schema, running, prevB, prevW, bLink, wLink, bDirs, wDirs, note>>,
           upc # "idle" => req'[claim] = req[claim],
           \A r \in Requests : pc'[r] \in InFlight => Leads(r, running)',
           trigger' # None => Leads(trigger, bLink)'
    PROVE  ReleaseInv'
<1>1. upc # "idle" => Target' = Target /\ Action' = Action
  BY DEF Target, Action
<1>2. upc # "idle" => Leads(claim, bLink)' = Leads(claim, bLink)
                      /\ Leads(claim, prevB)' = Leads(claim, prevB)
  BY DEF Leads
<1>3. QED
  BY <1>1, <1>2 DEF ReleaseInv, CurrentInstalled, Moved, Switched

\* A handler queues only what leads, and touches no release.
LEMMA HandlerKeepsReleases ==
    ASSUME TypeOK, LockInv, ReleaseInv, RestoresWork, NEW r \in Requests, Handler(r)
    PROVE  ReleaseInv'
<1> USE ClaimsWork, ConstantsAssumption DEF TypeOK, LockInv, TaskHoldsLock, fileVars, relVars, memVars
<1>1. /\ UNCHANGED <<upc, claim, schema, running, prevB, prevW, bLink, wLink, bDirs, wDirs, note>>
      /\ upc # "idle" => req'[claim] = req[claim]
  BY HandlerCases DEF Validate, AcquireLock, LockRefused, WriteQueuedStatus, QueuedStatusFails,
       WriteRequest, WriteRequestFails, UndoQueuedStatus
<1>2. CASE Validate(r)
  <2>1. trigger' = trigger /\ (trigger # None => req'[trigger] = req[trigger])
    BY <1>2 DEF Validate
  <2>2. \A q \in Requests : pc'[q] \in InFlight => Leads(q, running)'
    <3> SUFFICES ASSUME NEW q \in Requests, pc'[q] \in InFlight PROVE Leads(q, running)'
      OBVIOUS
    <3>1. CASE q = r
      BY <1>2, <3>1 DEF Validate, MayQueue, Leads, Actions
    <3>2. CASE q # r
      BY <1>2, <3>2 DEF Validate, ReleaseInv, Leads
    <3>3. QED
      BY <3>1, <3>2
  <2>3. trigger' # None => Leads(trigger, bLink)'
    BY <1>1, <2>1 DEF ReleaseInv, Leads
  <2>4. QED
    BY <1>1, <2>2, <2>3, ReleasesUntouched
<1>3. CASE ~Validate(r)
  <2>1. pc[r] \in InFlight /\ req' = req
    BY <1>3, HandlerCases DEF AcquireLock, LockRefused, WriteQueuedStatus, QueuedStatusFails,
         WriteRequest, WriteRequestFails, UndoQueuedStatus, InFlight
  <2>2. \A q \in Requests \ {r} : pc'[q] = pc[q]
    BY <1>3, HandlerCases DEF AcquireLock, LockRefused, WriteQueuedStatus, QueuedStatusFails,
         WriteRequest, WriteRequestFails, UndoQueuedStatus
  <2>3. \A q \in Requests : pc'[q] \in InFlight => Leads(q, running)'
    BY <1>1, <2>1, <2>2 DEF ReleaseInv, Leads
  <2>4. trigger' = trigger \/ (trigger' = r /\ pc[r] = "described")
    BY <1>3, HandlerCases DEF AcquireLock, LockRefused, WriteQueuedStatus, QueuedStatusFails,
         WriteRequest, WriteRequestFails, UndoQueuedStatus
  <2>5. trigger' # None => Leads(trigger, bLink)'
    <3>1. CASE trigger' = trigger
      BY <1>1, <2>1, <3>1 DEF ReleaseInv, Leads
    <3>2. CASE trigger' = r /\ pc[r] = "described"
      <4>1. upc = "idle"
        BY <3>2
      <4>2. Leads(r, running) /\ running = bLink
        BY <3>2, <4>1 DEF ReleaseInv, InFlight, Moved
      <4>3. QED
        BY <1>1, <2>1, <3>2, <4>2 DEF Leads
    <3>3. QED
      BY <2>4, <3>1, <3>2
  <2>6. QED
    BY <1>1, <2>1, <2>3, <2>5, ReleasesUntouched
<1>4. QED
  BY <1>2, <1>3

\* A restart ends the handlers that looked at the build it replaces.
LEMMA UpdaterKeepsLeads ==
    ASSUME TypeOK, LockInv, ReleaseInv, RestoresWork, Updater \/ ApiCrash
    PROVE  /\ req' = req
           /\ \A r \in Requests : pc'[r] \in InFlight => Leads(r, running)'
           /\ trigger' # None => Leads(trigger, bLink)'
<1> DEFINE Restarted == \A r \in Requests : pc'[r] \notin InFlight
<1>1. req' = req /\ (UNCHANGED <<pc, running>> \/ Restarted)
  <2>1. CASE ApiCrash \/ Restart \/ SwitchedStepFails \/ Revive \/ RestoreFails
    <3>1. ~RestartCommandFails
      BY DEF RestoresWork, RestartCommandFails
    <3>2. RestartApi => Restarted
      BY DEF RestartApi, InFlight, TypeOK
    <3>3. req' = req /\ (UNCHANGED <<pc, running>> \/ RestartApi)
      BY <2>1, <3>1 DEF ApiCrash, Restart, SwitchedStepFails, Revive, RestoreFails
    <3>4. QED
      BY <3>2, <3>3
  <2>2. CASE Forward /\ ~Restart
    BY <2>2 DEF Forward, ClaimRequest, AnnounceQueued, StartDownload, Downloaded, Verified,
         RollbackVerified, RollbackRefused, BackedUp, Migrate, Installed, SwitchBackend,
         SwitchWeb, Healthy, apiVars
  <2>3. CASE Backward /\ ~(SwitchedStepFails \/ Revive \/ RestoreFails)
    BY <2>3 DEF Backward, ClaimFails, StepFails, MigrateFails, RestoreBackend, RestoreWeb, Purge,
         ReportFailure, Discard, CleanQueuedStatus, ReleaseLock, apiVars
  <2>4. QED
    BY <2>1, <2>2, <2>3 DEF Updater
<1>2. trigger' # None => trigger' = trigger /\ bLink' = bLink
  <2>1. CASE ClaimRequest
    BY <2>1 DEF ClaimRequest
  <2>2. CASE ~ClaimRequest
    <3>1. trigger' = trigger
      BY <2>2, UpdaterFrame, ClaimsWork, ConstantsAssumption DEF TaskGoesOn, TaskStops
    <3>2. bLink' = bLink \/ upc # "idle"
      BY <2>2 DEF Updater, Forward, Backward, ApiCrash, AnnounceQueued, StartDownload,
           Downloaded, Verified, RollbackVerified, RollbackRefused, BackedUp, Migrate, Installed,
           SwitchBackend, SwitchWeb, Restart, Healthy, ClaimFails, StepFails, MigrateFails,
           SwitchedStepFails, RestoreBackend, RestoreWeb, Revive, RestoreFails, Purge,
           ReportFailure, Discard, CleanQueuedStatus, ReleaseLock, relVars
    <3>3. QED
      BY <3>1, <3>2, ClaimsWork DEF LockInv, TaskHoldsLock
  <2>3. QED
    BY <2>1, <2>2
<1>3. QED
  BY <1>1, <1>2 DEF ReleaseInv, Leads

\* The request of a running task does not change.
LEMMA TaskRequestStays ==
    ASSUME req' = req, claim' = claim
    PROVE  /\ Target' = Target /\ Action' = Action
           /\ Leads(claim, bLink)' <=> Leads(claim, bLink')
           /\ Leads(claim, prevB)' <=> Leads(claim, prevB')
  BY DEF Target, Action, Leads

\* What the updater finds when it starts to switch, and what it goes back to.
LEMMA ForwardKeepsReleases ==
    ASSUME TypeOK, LockInv, StageInv, ReleaseInv, RestoresWork, Forward
    PROVE  ReleaseInv'
<1> DEFINE Reached == \E a, b \in Versions : SchemaOf[a] <= schema /\ schema <= SchemaOf[b]
<1>0. /\ req' = req
      /\ \A r \in Requests : pc'[r] \in InFlight => Leads(r, running)'
      /\ trigger' # None => Leads(trigger, bLink)'
  BY UpdaterKeepsLeads DEF Updater
<1>a. Action \in Actions \/ upc = "idle"
  BY ClaimsWork DEF TypeOK, Action
<1>r. Reached /\ (schema' = schema => Reached')
  BY DEF ReleaseInv
<1> USE DEF CurrentInstalled, Moved, Switched, apiVars, fileVars, relVars, memVars
<1>1. CASE ClaimRequest
  <2>1. Leads(claim, bLink)'
    BY <1>1 DEF ClaimRequest, ReleaseInv, Leads
  <2>2. QED
    BY <1>0, <1>1, <1>r, <2>1 DEF ClaimRequest, ReleaseInv
<1>2. CASE AnnounceQueued \/ StartDownload \/ Downloaded \/ Verified
  <2>1. /\ upc \in {"claimed", "queued", "downloading", "verifying"} /\ Enter(upc')
        /\ upc' \in {"queued", "downloading", "verifying", "backing_up"}
        /\ upc' = "backing_up" => Action = "update"
        /\ UNCHANGED <<relVars, running, schema>>
    BY <1>2 DEF AnnounceQueued, StartDownload, Downloaded, Verified, Enter, StageInv
  <2>2. QED
    BY <1>0, <1>r, <2>1, TaskRequestStays DEF Enter, ReleaseInv
<1>3. CASE RollbackVerified \/ BackedUp \/ Installed
  <2>1. /\ upc \in {"queued", "backing_up", "installing"} /\ Enter(upc')
        /\ UNCHANGED <<relVars, running, schema>>
        /\ \/ upc' = "backing_up" /\ Target \in bDirs /\ Target \in wDirs
           \/ upc' = "migrating" /\ Action = "update"
           \/ upc' = "switching" /\ upc = "backing_up" /\ Action = "rollback"
           \/ upc' = "switching" /\ upc = "installing"
    BY <1>3, <1>a DEF RollbackVerified, BackedUp, Installed, Enter, Actions
  <2>2. QED
    BY <1>0, <1>r, <1>a, <2>1, TaskRequestStays DEF Enter, ReleaseInv, Actions
<1>4. CASE RollbackRefused
  BY <1>0, <1>4, <1>r DEF RollbackRefused, Exit, ReleaseInv
<1>5. CASE Migrate
  <2>1. claim' = claim /\ Target \in Versions
    BY <1>5, ClaimsWork DEF Migrate, TypeOK, Target
  <2>2. Reached'
    BY <1>5, <2>1, ConstantsAssumption DEF Migrate
  <2>3. QED
    BY <1>0, <1>5, <2>1, <2>2, TaskRequestStays DEF Migrate, ReleaseInv
<1>6. CASE SwitchBackend
  <2>1. claim' = claim /\ Target \in bDirs /\ Target \in wDirs
    BY <1>6 DEF SwitchBackend, ReleaseInv
  <2>2. Leads(claim, prevB') /\ running = bLink /\ wLink = bLink
    BY <1>6 DEF SwitchBackend, ReleaseInv
  <2>3. QED
    BY <1>0, <1>6, <1>r, <2>1, <2>2, TaskRequestStays DEF SwitchBackend, ReleaseInv
<1>7. CASE SwitchWeb
  <2>1. claim' = claim /\ Target \in bDirs /\ Target \in wDirs
    BY <1>7 DEF SwitchWeb, Enter, StageInv, ReleaseInv
  <2>2. QED
    BY <1>0, <1>7, <1>r, <2>1, TaskRequestStays DEF SwitchWeb, Enter, ReleaseInv
<1>8. CASE Restart
  BY <1>0, <1>8, <1>r, TaskRequestStays DEF Restart, RestartApi, StartedBuild, Enter, ReleaseInv
<1>9. CASE Healthy
  <2>1. upc' = "cleaning" /\ bLink = Target /\ wLink = Target /\ running = Target /\ note # "restored"
    BY <1>9 DEF Healthy, StageInv, ReleaseInv
  <2>2. QED
    BY <1>0, <1>9, <1>r, <2>1, TaskRequestStays DEF Healthy, ReleaseInv
<1>10. QED
  BY <1>1, <1>2, <1>3, <1>4, <1>5, <1>6, <1>7, <1>8, <1>9 DEF Forward

\* Every installed release accepts the schema at hand.
LEMMA SchemaIsAccepted ==
    ASSUME TypeOK, ReleaseInv, SchemasAgree, NEW v \in Versions
    PROVE  Compatible(v, schema)
  BY DEF TypeOK, ReleaseInv, SchemasAgree

\* Whatever the script takes back, it never removes what the links name.
LEMMA BackwardKeepsReleases ==
    ASSUME TypeOK, LockInv, StageInv, ReleaseInv, SchemasAgree, RestoresWork, Backward
    PROVE  ReleaseInv'
<1> DEFINE Reached == \E a, b \in Versions : SchemaOf[a] <= schema /\ schema <= SchemaOf[b]
<1>0. /\ req' = req
      /\ \A r \in Requests : pc'[r] \in InFlight => Leads(r, running)'
      /\ trigger' # None => Leads(trigger, bLink)'
  BY UpdaterKeepsLeads DEF Updater
<1>r. Reached /\ (schema' = schema => Reached')
  BY DEF ReleaseInv
<1>l. \A b : Leads(claim, b) => Target # b
  BY DEF Leads, Target
<1>c. /\ ~RestartCommandFails /\ "relink" \notin Faults /\ bLink \in bDirs
      /\ upc = "restoring" => PreviousUsable
  <2>1. upc = "restoring" => prevB \in bDirs /\ prevB \in Versions
    BY DEF ReleaseInv, TypeOK, Switched, Moved
  <2>2. QED
    BY <2>1, SchemaIsAccepted DEF RestoresWork, RestartCommandFails, PreviousUsable, ReleaseInv,
       CurrentInstalled
<1> USE DEF CurrentInstalled, Moved, Switched, apiVars, fileVars, relVars, memVars
<1>1. CASE StepFails
  BY <1>0, <1>1, <1>r, TaskRequestStays DEF StepFails, ReleaseInv
<1>2. CASE MigrateFails
  <2>1. claim' = claim /\ Target \in Versions
    BY <1>2, ClaimsWork DEF MigrateFails, TypeOK, Target
  <2>2. Reached'
    BY <1>2, <1>r, <2>1, ConstantsAssumption DEF MigrateFails, TypeOK
  <2>3. QED
    BY <1>0, <1>2, <2>1, <2>2, TaskRequestStays DEF MigrateFails, ReleaseInv
<1>3. CASE SwitchedStepFails
  <2>1. /\ upc \in {"switchingWeb", "restarting", "health_check"} /\ upc' = "restoring"
        /\ running' \in {running, bLink} /\ UNCHANGED <<relVars, schema, memVars>>
    BY <1>3, <1>c DEF SwitchedStepFails, RestartApi, StartedBuild
  <2>2. QED
    BY <1>0, <1>r, <2>1, TaskRequestStays DEF ReleaseInv
<1>4. CASE RestoreBackend
  BY <1>0, <1>4, <1>r, TaskRequestStays DEF RestoreBackend, ReleaseInv
<1>5. CASE RestoreWeb
  BY <1>0, <1>5, <1>r, TaskRequestStays DEF RestoreWeb, ReleaseInv
<1>6. CASE Revive
  <2>1. upc = "reviving" /\ upc' = "purging" /\ running' = bLink /\ UNCHANGED <<relVars, schema, memVars>>
    BY <1>6, <1>c DEF Revive, RestartApi, StartedBuild
  <2>2. QED
    BY <1>0, <1>r, <2>1, TaskRequestStays DEF ReleaseInv
<1>7. CASE RestoreFails
  <2>1. /\ upc = "reviving" /\ upc' = "failing" /\ running' = bLink /\ note' = "manual"
        /\ UNCHANGED <<relVars, schema, claim, installed, prevB, prevW>>
    BY <1>7, <1>c DEF RestoreFails, RestartApi, StartedBuild
  <2>2. QED
    BY <1>0, <1>r, <2>1, TaskRequestStays DEF ReleaseInv
<1>8. CASE Purge
  <2>1. Target # prevB /\ bLink = prevB /\ wLink = prevB
    BY <1>8, <1>l DEF Purge, ReleaseInv
  <2>2. QED
    BY <1>0, <1>8, <1>r, <2>1, TaskRequestStays DEF Purge, RemoveTarget, ReleaseInv
<1>9. CASE ReportFailure
  BY <1>0, <1>9, <1>r, TaskRequestStays DEF ReportFailure, ReleaseInv
<1>10. CASE Discard
  <2>1. Target # bLink /\ wLink = bLink
    BY <1>10, <1>l DEF Discard, ReleaseInv
  <2>2. QED
    BY <1>0, <1>10, <1>r, <2>1, TaskRequestStays DEF Discard, RemoveTarget, ReleaseInv
<1>11. CASE CleanQueuedStatus
  BY <1>0, <1>11, <1>r, TaskRequestStays DEF CleanQueuedStatus, ReleaseInv
<1>12. CASE ReleaseLock
  BY <1>0, <1>12, <1>r DEF ReleaseLock, Exit, ReleaseInv
<1>13. QED
  BY <1>1, <1>2, <1>3, <1>4, <1>5, <1>6, <1>7, <1>8, <1>9, <1>10, <1>11, <1>12, ClaimsWork
     DEF Backward

LEMMA ReleaseInvStep ==
    ASSUME TaskInv, SchemasAgree, RestoresWork, ReleaseInv, [Next]_vars
    PROVE  ReleaseInv'
<1> USE DEF TaskInv
<1>1. CASE \E r \in Requests : Handler(r)
  BY <1>1, HandlerKeepsReleases
<1>2. CASE ApiCrash
  <2>1. /\ req' = req
        /\ \A r \in Requests : pc'[r] \in InFlight => Leads(r, running)'
        /\ trigger' # None => Leads(trigger, bLink)'
    BY <1>2, UpdaterKeepsLeads
  <2>2. running' = bLink /\ UNCHANGED <<relVars, schema, upc, memVars>>
    BY <1>2 DEF ApiCrash, RestartApi, StartedBuild, ReleaseInv, CurrentInstalled
  <2>3. QED
    BY <2>1, <2>2, TaskRequestStays DEF ReleaseInv, CurrentInstalled, Moved, Switched, relVars, memVars
<1>3. CASE Updater
  BY <1>3, ForwardKeepsReleases, BackwardKeepsReleases DEF Updater
<1>4. CASE Killed
  BY <1>4 DEF Killed, RestoresWork
<1>5. CASE OperatorUnlock \/ UNCHANGED vars
  <2>1. UNCHANGED <<req, pc, trigger, upc, claim, schema, running, prevB, prevW, bLink, wLink, bDirs, wDirs, note>>
    BY <1>5 DEF OperatorUnlock, vars, apiVars, fileVars, relVars, memVars
  <2>2. QED
    BY <2>1, ReleasesUntouched DEF ReleaseInv, Leads
<1>6. QED
  BY <1>1, <1>2, <1>3, <1>4, <1>5 DEF Next

LEMMA ReleaseInvHolds ==
    ASSUME SchemasAgree, RestoresWork
    PROVE  Spec => [](TaskInv /\ ReleaseInv)
<1>1. Init => ReleaseInv
  BY ConstantsAssumption DEF Init, ReleaseInv, CurrentInstalled, Moved, Switched, InFlight
<1>2. TaskInv /\ ReleaseInv /\ [Next]_vars => ReleaseInv'
  BY ReleaseInvStep
<1>3. QED
  BY <1>1, <1>2, TaskInvHolds, PTL DEF Spec

\* While releases accept each other's schema and the restore commands work, the
\* `current` links name installed releases: no failed update removes the one in use.
THEOREM CurrentIsInstalled ==
    ASSUME SchemasAgree, RestoresWork
    PROVE  Spec => []CurrentInstalled
<1>1. ReleaseInv => CurrentInstalled
  BY DEF ReleaseInv
<1>2. QED
  BY <1>1, ReleaseInvHolds, PTL

\* Under the same conditions "the application was restored" is only reported when
\* it was: both links are back, and the release they name is installed and serves.
THEOREM RestoredReportIsTrue ==
    ASSUME SchemasAgree, RestoresWork
    PROVE  Spec => RestoredClaimIsTrue
<1> DEFINE Restored == /\ bLink = prevB /\ wLink = prevW
                       /\ prevB \in bDirs /\ prevW \in wDirs
                       /\ running = prevB /\ Compatible(prevB, schema)
<1>1. TaskInv /\ ReleaseInv /\ [Next]_vars =>
        (status' # status /\ status'.note = "restored" => Restored)
  <2> SUFFICES ASSUME TaskInv, ReleaseInv, [Next]_vars, status' # status, status'.note = "restored"
               PROVE  Restored
    OBVIOUS
  <2>1. ~(\E r \in Requests : Handler(r))
    BY HandlerKeepsTask DEF TaskInv
  <2>2. ~(ApiCrash \/ Killed \/ OperatorUnlock \/ UNCHANGED vars)
    BY DEF ApiCrash, Killed, OperatorUnlock, vars
  <2>3. note = "restored" /\ upc \notin {"cleaning", "unlocking"}
    BY <2>1, <2>2 DEF Next, Updater, Forward, Backward, Enter, WriteStatus, ClaimRequest,
       AnnounceQueued, StartDownload, Downloaded, Verified, RollbackVerified, RollbackRefused,
       BackedUp, Migrate, Installed, SwitchBackend, SwitchWeb, Restart, Healthy, ClaimFails, StepFails,
       MigrateFails, SwitchedStepFails, RestoreBackend, RestoreWeb, Revive, RestoreFails, Purge,
       ReportFailure, Discard, CleanQueuedStatus, ReleaseLock
  <2>4. upc = "failing" /\ bLink = prevB /\ prevW = prevB
    BY <2>3 DEF ReleaseInv
  <2>5. running = bLink /\ wLink = bLink /\ CurrentInstalled
    BY <2>4 DEF ReleaseInv, Moved
  <2>6. Compatible(prevB, schema)
    BY SchemaIsAccepted DEF TaskInv, TypeOK
  <2>7. QED
    BY <2>4, <2>5, <2>6 DEF CurrentInstalled
<1>2. QED
  BY <1>1, ReleaseInvHolds, PTL DEF Spec, RestoredClaimIsTrue

\* Under the same conditions a successful update leaves a newer release than it
\* found: the lock keeps what the handler compared true until the health check.
THEOREM UpdatesMoveForward ==
    ASSUME SchemasAgree, RestoresWork
    PROVE  Spec => UpdateMovesForward
<1>1. ReleaseInv => (upc = "health_check" /\ Action = "update" => Target > prevB)
  BY DEF ReleaseInv, Switched, Moved, Leads, Target, Action
<1>2. QED
  BY <1>1, ReleaseInvHolds, PTL DEF Spec, UpdateMovesForward

-----------------------------------------------------------------------------
(* The task queue of ReleaseTask                                           *)

\* A request is reported once: not before the updater has worked on it, and not
\* again while the updater cleans up.
ReportInv ==
    /\ \A r \in Requests : pc[r] # "accepted" => status.id # r
    /\ trigger # None => status.id # trigger
    /\ claim # None => (status.id = claim /\ Terminal(status)
                         <=> upc \in {"discarding", "cleaning", "unlocking"})

LEMMA ReportInvStep ==
    ASSUME TypeOK, LockInv, ReportInv, [Next]_vars
    PROVE  ReportInv'
<1> USE ConstantsAssumption DEF TypeOK, Ending, LockInv, TaskHoldsLock, ReportInv, Terminal
<1>1. ASSUME NEW r \in Requests, Handler(r) PROVE ReportInv'
  <2>1. UNCHANGED <<status, upc, claim>>
    BY <1>1, HandlerKeepsTask
  <2>2. \A q \in Requests : pc[q] = "accepted" => pc'[q] = "accepted"
    BY <1>1, HandlerCases DEF Validate, AcquireLock, LockRefused, WriteQueuedStatus,
         QueuedStatusFails, WriteRequest, WriteRequestFails, UndoQueuedStatus
  <2>3. trigger' = trigger \/ (trigger' = r /\ pc[r] = "described")
    BY <1>1, HandlerCases DEF Validate, AcquireLock, LockRefused, WriteQueuedStatus,
         QueuedStatusFails, WriteRequest, WriteRequestFails, UndoQueuedStatus, fileVars
  <2>4. QED
    BY <2>1, <2>2, <2>3
<1>2. CASE ApiCrash
  BY <1>2 DEF ApiCrash, RestartApi, InFlight, fileVars, memVars
<1>3. CASE ClaimRequest
  BY <1>3 DEF ClaimRequest, apiVars
<1>4. CASE Forward /\ ~ClaimRequest
  BY <1>4 DEF Forward, Enter, WriteStatus, AnnounceQueued, StartDownload, Downloaded, Verified,
       RollbackVerified, RollbackRefused, Exit, BackedUp, Migrate, Installed, SwitchBackend,
       SwitchWeb, Restart, RestartApi, InFlight, Healthy, apiVars, fileVars, memVars
<1>5. CASE Backward
  BY <1>5 DEF Backward, ClaimFails, StepFails, MigrateFails, SwitchedStepFails, RestartApi, InFlight,
       RestartCommandFails, RestoreBackend, RestoreWeb, Revive, RestoreFails, Purge,
       ReportFailure, WriteStatus, Discard, CleanQueuedStatus, ReleaseLock, Exit,
       apiVars, fileVars, memVars
<1>6. CASE Killed
  BY <1>6 DEF Killed, Exit, apiVars, fileVars
<1>7. CASE OperatorUnlock
  BY <1>7 DEF OperatorUnlock, apiVars, memVars
<1>8. CASE UNCHANGED vars
  BY <1>8 DEF vars, apiVars, fileVars, memVars
<1>9. QED
  BY <1>1, <1>2, <1>3, <1>4, <1>5, <1>6, <1>7, <1>8 DEF Next, Updater

\* Steps that leave the lock, the phases and the report of ReleaseTask alone.
LEMMA StutterInTask ==
    ASSUME TypeOK, UNCHANGED <<lock, trigger, lapsed, claim>>, HandlersOnlyDie,
           status' = status \/ (~Terminal(status) /\ ~Terminal(status'))
    PROVE  UNCHANGED Task!vars
<1>1. TaskPhase' = TaskPhase
  BY DEF TaskPhase, HandlersOnlyDie, InFlight, TypeOK
<1>2. TaskReport' = TaskReport
  BY DEF TaskReport, Terminal
<1>3. QED
  BY <1>1, <1>2 DEF Task!vars

\* Every handler step is one of the abstract queue's, or changes nothing it sees.
LEMMA HandlerRefines ==
    ASSUME TypeOK, LockInv, NEW r \in Requests, Handler(r)
    PROVE  [Task!Next]_Task!vars
<1> USE ConstantsAssumption DEF TypeOK, LockInv, TaskHoldsLock
<1>1. TaskReport' = TaskReport
  BY HandlerKeepsTask DEF TaskReport, Terminal
<1>2. ASSUME pc[r] \in {"new"} \cup InFlight, trigger' = trigger, claim' = claim,
             \E x \in {"rejected"} \cup InFlight : pc' = [pc EXCEPT ![r] = x]
      PROVE  TaskPhase' = TaskPhase /\ TaskPhase[r] = "new"
  BY <1>2 DEF TaskPhase, InFlight
<1> USE DEF fileVars, memVars
<1>3. CASE Validate(r)
  BY <1>3, <1>1, <1>2 DEF Validate, InFlight, Task!vars
<1>4. CASE AcquireLock(r)
  <2>1. Task!Hold(r)
    BY <1>4, <1>1, <1>2 DEF AcquireLock, LockFree, InFlight, Task!Hold
  <2>2. QED
    BY <2>1 DEF Task!Next
<1>5. CASE LockRefused(r) \/ WriteQueuedStatus(r) \/ UndoQueuedStatus(r)
  BY <1>5, <1>1, <1>2 DEF LockRefused, WriteQueuedStatus, UndoQueuedStatus, InFlight, Task!vars
<1>6. CASE QueuedStatusFails(r) \/ WriteRequestFails(r)
  <2>1. TaskPhase' = TaskPhase /\ TaskPhase[r] = "new" /\ lock' = None /\ lapsed' = lapsed
    BY <1>6, <1>2 DEF QueuedStatusFails, WriteRequestFails, InFlight
  <2>2. CASE lock = None
    BY <2>1, <2>2, <1>1 DEF Task!vars
  <2>3. CASE lock # None
    <3>1. lock = r \/ lapsed
      BY <1>6 DEF QueuedStatusFails, WriteRequestFails
    <3>2. Task!Drop(lock)
      BY <2>1, <2>3, <3>1, <1>1 DEF Task!Drop
    <3>3. QED
      BY <2>3, <3>2 DEF Task!Next
  <2>4. QED
    BY <2>2, <2>3
<1>7. CASE WriteRequest(r)
  <2>1. TaskPhase[r] = "new"
    BY <1>7 DEF WriteRequest, TaskPhase
  <2>2. TaskPhase' = [q \in Requests |-> IF q = r THEN "queued"
                        ELSE IF TaskPhase[q] = "queued" THEN "over" ELSE TaskPhase[q]]
    BY <1>7 DEF WriteRequest, TaskPhase
  <2>3. lock = r \/ lapsed
    BY <1>7 DEF WriteRequest
  <2>4. Task!Commit(r)
    BY <1>7, <1>1, <2>1, <2>2, <2>3 DEF WriteRequest, Task!Commit, Task!MayAct
  <2>5. QED
    BY <2>4 DEF Task!Next
<1>8. QED
  BY <1>3, <1>4, <1>5, <1>6, <1>7, HandlerCases

\* A status the running task writes announces its progress or reports its outcome.
LEMMA StatusRefines ==
    ASSUME TypeOK, LockInv, ReportInv, NEW s \in States, WriteStatus(s),
           UNCHANGED <<lock, trigger, lapsed, claim>>, HandlersOnlyDie,
           upc \notin {"idle", "discarding", "cleaning", "unlocking"}
    PROVE  [Task!Next]_Task!vars
<1> USE ConstantsAssumption DEF TypeOK, LockInv, TaskHoldsLock, ReportInv
<1>1. claim \in Requests /\ Task!MayAct(claim) /\ TaskPhase[claim] = "running"
  BY DEF TaskPhase, Task!MayAct, Ending
<1>2. TaskPhase' = TaskPhase
  BY DEF TaskPhase, HandlersOnlyDie, InFlight
<1>3. TaskReport.id # claim
  BY <1>1 DEF TaskReport
<1>4. CASE s \in {"succeeded", "failed"}
  <2>1. TaskReport' = [id |-> claim, ok |-> s = "succeeded"]
    BY <1>4 DEF TaskReport, Terminal, WriteStatus
  <2>2. Task!Report(claim, s = "succeeded")
    BY <1>1, <1>2, <1>3, <2>1 DEF Task!Report
  <2>3. QED
    BY <1>1, <2>2 DEF Task!Next
<1>5. CASE s \notin {"succeeded", "failed"}
  <2>1. TaskReport' = Task!NoReport
    BY <1>5 DEF TaskReport, Terminal, WriteStatus, Task!NoReport
  <2>2. Task!Announce(claim)
    BY <1>1, <1>2, <1>3, <2>1 DEF Task!Announce
  <2>3. QED
    BY <1>1, <2>2 DEF Task!Next
<1>6. QED
  BY <1>4, <1>5

\* The end of the updater process ends its task, or abandons it with its lock.
LEMMA StopRefines ==
    ASSUME TypeOK, LockInv, ReportInv, claim # None, Exit,
           UNCHANGED <<pc, trigger, lapsed, status>>,
           lock' = lock \/ (lock' = None /\ upc = "unlocking")
    PROVE  [Task!Next]_Task!vars
<1> USE ConstantsAssumption DEF TypeOK, LockInv, TaskHoldsLock, ReportInv
<1>1. claim \in Requests /\ Task!MayAct(claim) /\ TaskPhase[claim] = "running"
  BY DEF TaskPhase, Task!MayAct
<1>2. TaskPhase' = [TaskPhase EXCEPT ![claim] = "over"]
  BY <1>1 DEF TaskPhase, Exit
<1>3. TaskReport' = TaskReport
  BY DEF TaskReport, Terminal
<1>4. CASE lock' = lock
  <2>1. Task!Abandon(claim)
    BY <1>1, <1>2, <1>3, <1>4 DEF Task!Abandon, Task!Move
  <2>2. QED
    BY <1>1, <2>1 DEF Task!Next
<1>5. CASE lock' = None /\ upc = "unlocking"
  <2>1. TaskReport.id = claim
    BY <1>5 DEF TaskReport
  <2>2. Task!End(claim)
    BY <1>1, <1>2, <1>3, <1>5, <2>1 DEF Task!End, Task!Move
  <2>3. QED
    BY <1>1, <2>2 DEF Task!Next
<1>6. QED
  BY <1>4, <1>5

\* The end of a process that has claimed nothing: at most it removes a lock.
LEMMA EmptyStopRefines ==
    ASSUME TypeOK, LockInv, claim = None, upc # "idle", Exit,
           UNCHANGED <<pc, trigger, lapsed, status>>, lock' \in {None, lock}
    PROVE  [Task!Next]_Task!vars
<1> USE ConstantsAssumption DEF TypeOK, LockInv, TaskHoldsLock
<1>1. lapsed /\ claim' = claim
  BY DEF Exit
<1>2. UNCHANGED <<TaskPhase, TaskReport>>
  BY <1>1 DEF TaskPhase, TaskReport, Terminal
<1>3. CASE lock' = lock
  BY <1>2, <1>3 DEF Task!vars
<1>4. CASE lock' # lock
  <2>1. lock \in Requests /\ Task!Drop(lock)
    BY <1>1, <1>2, <1>4 DEF Task!Drop
  <2>2. QED
    BY <2>1 DEF Task!Next
<1>5. QED
  BY <1>3, <1>4

LEMMA StepRefines ==
    ASSUME TypeOK, LockInv, ReportInv, [Next]_vars
    PROVE  [Task!Next]_Task!vars
<1> USE ConstantsAssumption DEF TypeOK, LockInv, TaskHoldsLock, ReportInv
<1>1. CASE \E r \in Requests : Handler(r)
  BY <1>1, HandlerRefines
<1>2. CASE ClaimRequest
  <2>1. /\ trigger \in Requests /\ claim = None /\ Task!MayAct(trigger)
        /\ TaskPhase[trigger] = "queued" /\ \A q \in Requests : TaskPhase[q] # "running"
    BY <1>2 DEF ClaimRequest, TaskPhase, Task!MayAct
  <2>2. TaskPhase' = [TaskPhase EXCEPT ![trigger] = "running"]
    BY <1>2, <2>1 DEF ClaimRequest, TaskPhase, apiVars
  <2>3. TaskReport' = TaskReport
    BY <1>2 DEF ClaimRequest, TaskReport, Terminal
  <2>4. Task!Begin(trigger)
    BY <1>2, <2>1, <2>2, <2>3 DEF ClaimRequest, Task!Begin, Task!Move
  <2>5. QED
    BY <2>1, <2>4 DEF Task!Next
<1>3. CASE \/ AnnounceQueued \/ StartDownload \/ Downloaded \/ Verified \/ RollbackVerified
           \/ BackedUp \/ Installed \/ SwitchWeb \/ Restart \/ Healthy \/ ReportFailure
  <2>1. \E s \in States : WriteStatus(s)
    BY <1>3 DEF AnnounceQueued, StartDownload, Downloaded, Verified, RollbackVerified, BackedUp,
         Installed, SwitchWeb, Restart, Healthy, ReportFailure, Enter, States
  <2>2. UNCHANGED <<lock, trigger, lapsed, claim>> /\ HandlersOnlyDie
    BY <1>3 DEF AnnounceQueued, StartDownload, Downloaded, Verified, RollbackVerified, BackedUp,
         Installed, SwitchWeb, Restart, Healthy, ReportFailure, Enter, HandlersOnlyDie,
         RestartApi, apiVars, fileVars, memVars
  <2>3. upc \notin {"idle", "discarding", "cleaning", "unlocking"}
    BY <1>3 DEF AnnounceQueued, StartDownload, Downloaded, Verified, RollbackVerified, BackedUp,
         Installed, SwitchWeb, Restart, Healthy, ReportFailure
  <2>4. QED
    BY <2>1, <2>2, <2>3, StatusRefines
<1>4. CASE RollbackRefused \/ Killed \/ ReleaseLock
  BY <1>4, StopRefines, EmptyStopRefines DEF RollbackRefused, Killed, ReleaseLock, Exit,
     apiVars, fileVars
<1>5. CASE \/ ApiCrash \/ Migrate \/ SwitchBackend \/ StepFails \/ MigrateFails
           \/ SwitchedStepFails \/ RestoreBackend \/ RestoreWeb \/ Revive \/ RestoreFails
           \/ Purge \/ Discard \/ CleanQueuedStatus
  <2>1. UNCHANGED <<lock, trigger, lapsed, claim, status>> /\ HandlersOnlyDie
    BY <1>5 DEF ApiCrash, Migrate, SwitchBackend, StepFails, MigrateFails, SwitchedStepFails,
         RestoreBackend, RestoreWeb, Revive, RestoreFails, Purge, Discard, CleanQueuedStatus,
         RestartApi, RestartCommandFails, HandlersOnlyDie, apiVars, fileVars, memVars
  <2>2. QED
    BY <2>1, StutterInTask
<1>6. CASE OperatorUnlock
  <2>1. lock \in Requests /\ lock # trigger /\ lock # claim
    BY <1>6 DEF OperatorUnlock
  <2>2. TaskPhase[lock] \in {"new", "over"} /\ TaskPhase' = TaskPhase
    BY <1>6, <2>1 DEF OperatorUnlock, TaskPhase, apiVars, memVars
  <2>3. TaskReport' = TaskReport
    BY <1>6 DEF OperatorUnlock, TaskReport, Terminal
  <2>4. Task!Drop(lock)
    BY <1>6, <2>2, <2>3 DEF OperatorUnlock, Task!Drop
  <2>5. QED
    BY <2>1, <2>4 DEF Task!Next
<1>7. CASE UNCHANGED vars
  <2>1. UNCHANGED <<lock, trigger, lapsed, claim, status>> /\ HandlersOnlyDie
    BY <1>7 DEF vars, HandlersOnlyDie, apiVars, fileVars, memVars
  <2>2. QED
    BY <2>1, StutterInTask
<1>8. CASE ClaimFails
  <2>1. UNCHANGED <<TaskPhase, TaskReport, lock>> /\ lapsed'
    BY <1>8 DEF ClaimFails, TaskPhase, TaskReport, Terminal, apiVars, memVars
  <2>2. CASE lapsed
    BY <2>1, <2>2 DEF Task!vars
  <2>3. CASE ~lapsed
    <3>1. lock \in Requests /\ TaskPhase[lock] = "queued"
      BY <1>8, <2>3 DEF ClaimFails, TaskPhase
    <3>2. Task!Lapse(lock)
      BY <2>1, <3>1 DEF Task!Lapse
    <3>3. QED
      BY <3>1, <3>2 DEF Task!Next
  <2>4. QED
    BY <2>2, <2>3
<1>9. QED
  BY <1>1, <1>2, <1>3, <1>4, <1>5, <1>6, <1>7, <1>8 DEF Next, Updater, Forward, Backward

\* The files, the handlers and the shell script together implement the task queue
\* of ReleaseTask, under every fault: one run and one report of a request, and one
\* holder that alone may act until a claim fails.
THEOREM ImplementsTaskQueue == Spec => TaskSpec
<1>1. Init => Task!Init
  BY ConstantsAssumption DEF Init, Task!Init, TaskPhase, TaskReport, NoStatus, Terminal,
     Task!NoReport
<1>2. Init => LockInv /\ ReportInv
  BY ConstantsAssumption DEF Init, LockInv, TaskHoldsLock, QueuedStatusIsOwn, ReportInv,
     NoStatus, Terminal
<1>3. TypeOK /\ LockInv /\ ReportInv /\ [Next]_vars => LockInv' /\ ReportInv'
  BY LockInvStep, ReportInvStep
<1>4. TypeOK /\ LockInv /\ ReportInv /\ [Next]_vars => [Task!Next]_Task!vars
  BY StepRefines
<1>5. QED
  BY <1>1, <1>2, <1>3, <1>4, TypeCorrect, PTL DEF Spec, Task!Spec, TaskSpec

-----------------------------------------------------------------------------
(* What the Version Center shows                                           *)

\* The status of the running task is not ahead of its work.
ShownInv ==
    /\ upc = "claimed" => status.id # claim
    /\ upc \in {"queued", "downloading", "verifying", "backing_up", "migrating", "switching",
                "restarting", "health_check"}
         => status.id = claim /\ status.state = upc
    /\ upc = "installing" => status.id = claim /\ status.state = "migrating"
    /\ upc = "switchingWeb" => status.id = claim /\ status.state = "switching"

LEMMA ShownInvStep ==
    ASSUME TypeOK, LockInv, ReportInv, ShownInv, [Next]_vars
    PROVE  ShownInv'
<1> USE DEF ShownInv, memVars
<1>1. CASE \E r \in Requests : Handler(r)
  BY <1>1, HandlerKeepsTask
<1>2. CASE ClaimRequest
  BY <1>2 DEF ClaimRequest, ReportInv
<1>3. CASE Forward /\ ~ClaimRequest
  BY <1>3 DEF Forward, Enter, WriteStatus, AnnounceQueued, StartDownload, Downloaded, Verified,
       RollbackVerified, RollbackRefused, Exit, BackedUp, Migrate, Installed, SwitchBackend,
       SwitchWeb, Restart, Healthy
<1>4. CASE Backward
  BY <1>4 DEF Backward, ClaimFails, StepFails, MigrateFails, SwitchedStepFails, RestoreBackend, RestoreWeb,
       Revive, RestoreFails, Purge, ReportFailure, Discard, CleanQueuedStatus, ReleaseLock, Exit
<1>5. CASE ApiCrash \/ Killed \/ OperatorUnlock \/ UNCHANGED vars
  BY <1>5 DEF ApiCrash, Killed, Exit, OperatorUnlock, vars
<1>6. QED
  BY <1>1, <1>2, <1>3, <1>4, <1>5 DEF Next, Updater

\* The updater only writes what advances the status of its task.
LEMMA StatusAdvances ==
    ASSUME TypeOK, ShownInv, [Next]_vars, status' # status
    PROVE  /\ upc # "idle" /\ status'.id = claim /\ lock' = lock
           /\ status.id = claim => StatusRank[status.state] <= StatusRank[status'.state]
<1>1. ~(\E r \in Requests : Handler(r))
  BY DEF Handler, Validate, AcquireLock, LockRefused, WriteQueuedStatus, QueuedStatusFails,
     WriteRequest, WriteRequestFails, UndoQueuedStatus
<1>2. ~(ApiCrash \/ Killed \/ OperatorUnlock \/ UNCHANGED vars)
  BY DEF ApiCrash, Killed, OperatorUnlock, vars
<1>3. status.state \in States
  BY DEF TypeOK
<1>4. /\ upc # "idle" /\ lock' = lock
      /\ \/ upc \notin {"discarding", "cleaning", "unlocking"} /\ WriteStatus("failed")
         \/ upc = "health_check" /\ WriteStatus("succeeded")
         \/ upc = "claimed" /\ WriteStatus("queued")
         \/ upc = "queued" /\ WriteStatus("downloading")
         \/ upc = "downloading" /\ WriteStatus("verifying")
         \/ upc \in {"queued", "verifying"} /\ WriteStatus("backing_up")
         \/ upc = "backing_up" /\ (WriteStatus("migrating") \/ WriteStatus("switching"))
         \/ upc = "installing" /\ WriteStatus("switching")
         \/ upc = "switchingWeb" /\ WriteStatus("restarting")
         \/ upc = "restarting" /\ WriteStatus("health_check")
  BY <1>1, <1>2 DEF Next, Updater, Forward, Backward, Enter, ClaimRequest,
     AnnounceQueued, StartDownload, Downloaded, Verified, RollbackVerified, RollbackRefused,
     BackedUp, Migrate, Installed, SwitchBackend, SwitchWeb, Restart, Healthy, ClaimFails, StepFails,
     MigrateFails, SwitchedStepFails, RestoreBackend, RestoreWeb, Revive, RestoreFails, Purge,
     ReportFailure, Discard, CleanQueuedStatus, ReleaseLock, fileVars
<1>5. QED
  BY <1>3, <1>4 DEF WriteStatus, ShownInv, StatusRank, States

\* Whatever is crashed, killed or refused, polling never sees a task go back, until
\* a claim fails: the queued status of a request is not shown again after its own.
THEOREM PollingNeverRegresses == Spec => VisibleNeverRegresses
<1>1. Init => LockInv /\ ReportInv /\ ShownInv
  BY ConstantsAssumption DEF Init, LockInv, TaskHoldsLock, QueuedStatusIsOwn, ReportInv,
     NoStatus, Terminal, ShownInv
<1>2. TypeOK /\ LockInv /\ ReportInv /\ ShownInv /\ [Next]_vars => LockInv' /\ ReportInv' /\ ShownInv'
  BY LockInvStep, ReportInvStep, ShownInvStep
<1>3. TypeOK /\ LockInv /\ ShownInv /\ [Next]_vars =>
        (~lapsed /\ VisibleStatus'.id = VisibleStatus.id =>
           StatusRank[VisibleStatus.state] <= StatusRank[VisibleStatus'.state])
  <2> SUFFICES ASSUME TypeOK, LockInv, ShownInv, [Next]_vars, ~lapsed,
                      VisibleStatus'.id = VisibleStatus.id
               PROVE  StatusRank[VisibleStatus.state] <= StatusRank[VisibleStatus'.state]
    OBVIOUS
  <2> DEFINE Waiting == queuedStatus # None /\ lock = queuedStatus /\ status.id # queuedStatus
  <2>1. \A s \in States : StatusRank[s] \in Nat /\ 1 <= StatusRank[s]
    BY DEF StatusRank, States
  <2>2. status.state \in States /\ TypeOK'
    <3>1. TypeOK'
      BY TypeStep
    <3>2. QED
      BY <3>1 DEF TypeOK
  <2>3. VisibleStatus.state \in States /\ VisibleStatus'.state \in States
    BY <2>2 DEF VisibleStatus, TypeOK, States
  <2>4. CASE Waiting
    BY <2>1, <2>3, <2>4 DEF VisibleStatus, StatusRank
  <2>5. CASE ~Waiting /\ ~Waiting'
    <3>1. CASE status' = status
      BY <2>1, <2>2, <2>5, <3>1 DEF VisibleStatus
    <3>2. CASE status' # status
      BY <2>5, <3>2, StatusAdvances DEF VisibleStatus
    <3>3. QED
      BY <3>1, <3>2
  <2>6. CASE ~Waiting /\ Waiting'
    <3>1. status.id = queuedStatus' /\ lock' = queuedStatus' /\ status'.id # queuedStatus'
      BY <2>6 DEF VisibleStatus
    <3>2. status'.id = claim /\ lock' = lock /\ upc # "idle"
      BY <3>1, StatusAdvances
    <3>3. lock = claim
      BY <3>2 DEF LockInv, TaskHoldsLock
    <3>4. QED
      BY <3>1, <3>2, <3>3
  <2>7. QED
    BY <2>4, <2>5, <2>6
<1>4. QED
  BY <1>1, <1>2, <1>3, TypeCorrect, PTL DEF Spec, VisibleNeverRegresses
=============================================================================
