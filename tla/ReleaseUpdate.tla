--------------------------- MODULE ReleaseUpdate ---------------------------
(***************************************************************************)
(* The Version Center: API handlers that queue an update or a rollback,    *)
(* the root-owned updater that systemd starts when request.json appears,   *)
(* the files they share (lock, request, queued status, status), the        *)
(* installed release directories and the `current` links.                  *)
(*                                                                         *)
(* A member of Requests is one POST handled by the API, named by the UUID  *)
(* it draws; a version is a positive number ordered like vX.Y.Z.           *)
(***************************************************************************)
EXTENDS Naturals, FiniteSets

CONSTANTS
    Requests,      \* request ids the API may draw
    None,          \* no request
    Versions,      \* the published stable releases
    FirstVersion,  \* the release installed by the first deployment
    SchemaOf,      \* manifest schema_version: the last migration it ships
    MinSchema,     \* manifest compatible_schema_min
    MaxSchema,     \* manifest compatible_schema_max
    Faults         \* environment failures a run allows, see FaultKinds

\* write: a file write of the API fails; apiCrash: the API dies and systemd
\* restarts it; kill: the updater dies half way (TimeoutStartSec, power loss, a
\* command failing inside a shell function); relink, restart: the command that
\* should restore a link or restart the API fails; claim: the mv of the request
\* into the claim fails.
FaultKinds == {"write", "apiCrash", "kill", "relink", "restart", "claim"}

ASSUME ConstantsAssumption ==
    /\ None \notin Requests
    /\ Versions \subseteq Nat \ {0}
    /\ FirstVersion \in Versions
    /\ SchemaOf \in [Versions -> Nat]
    /\ MinSchema \in [Versions -> Nat]
    /\ MaxSchema \in [Versions -> Nat]
    /\ Faults \subseteq FaultKinds

Down == 0  \* no API process is running

VARIABLES
    pc,            \* where the handler of each request is
    req,           \* action and target of each request
    lock,          \* requests/update.lock: the id written in it
    queuedStatus,  \* requests/queued-status.json: its request id
    trigger,       \* requests/request.json: its request id
    status,        \* state/status.json
    running,       \* build version of the live API process
    bLink, wLink,  \* the backend and web `current` symlinks
    bDirs, wDirs,  \* release directories present under each root
    schema,        \* goose version of the database
    upc,           \* what the updater process is doing
    claim,         \* the request it moved into work/claim.XXXXXX
    installed,     \* its installed_target flag
    prevB, prevW,  \* the links it read before switching
    note,          \* which failure_message it will report
    lapsed         \* history: a failed claim has given up the lock of a request

apiVars  == <<pc, req>>
fileVars == <<lock, queuedStatus, trigger, lapsed>>
relVars  == <<bLink, wLink, bDirs, wDirs>>
memVars  == <<claim, installed, prevB, prevW, note>>
vars == <<apiVars, fileVars, status, running, relVars, schema, upc, memVars>>

-----------------------------------------------------------------------------
Actions == {"update", "rollback"}

InFlight == {"validated", "locked", "described", "undo"}

Progress == {"downloading", "verifying", "backing_up", "migrating",
             "installing", "switching", "switchingWeb", "restarting",
             "health_check"}
Recovery == {"restoring", "restoringWeb", "reviving", "purging", "failing",
             "discarding"}
Ending   == {"cleaning", "unlocking"}

Notes == {"none", "unswitched", "migrated", "manual", "restored"}

\* The states status.json shows, and their order in the life of a task.
States == {"queued", "downloading", "verifying", "backing_up", "migrating",
           "switching", "restarting", "health_check", "succeeded", "failed"}

StatusRank == [queued |-> 1, downloading |-> 2, verifying |-> 3,
               backing_up |-> 4, migrating |-> 5, switching |-> 6,
               restarting |-> 7, health_check |-> 8, succeeded |-> 9,
               failed |-> 9]

NoStatus == [id |-> None, state |-> "queued", note |-> "none"]

\* manifest_compatible, and the same test in installedVersions.
Compatible(v, s) == MinSchema[v] <= s /\ s <= MaxSchema[v]

Target == req[claim].target
Action == req[claim].action

TypeOK ==
    /\ pc \in [Requests -> {"new", "rejected", "accepted", "dead"} \cup InFlight]
    /\ req \in [Requests -> [action : Actions, target : Versions]]
    /\ lock \in Requests \cup {None}
    /\ queuedStatus \in Requests \cup {None}
    /\ trigger \in Requests \cup {None}
    /\ status \in [id : Requests \cup {None}, state : States, note : Notes]
    /\ running \in Versions \cup {Down}
    /\ bLink \in Versions /\ wLink \in Versions
    /\ bDirs \subseteq Versions /\ wDirs \subseteq Versions
    /\ schema \in Nat
    /\ upc \in {"idle", "claimed", "queued"} \cup Progress \cup Recovery \cup Ending
    /\ claim \in Requests \cup {None}
    /\ upc = "idle" => claim = None
    /\ claim = None => upc \in {"idle"} \cup Ending
    /\ installed \in BOOLEAN
    /\ prevB \in Versions /\ prevW \in Versions
    /\ note \in Notes
    /\ lapsed \in BOOLEAN

Init ==
    /\ pc = [r \in Requests |-> "new"]
    /\ req = [r \in Requests |-> [action |-> "update", target |-> FirstVersion]]
    /\ lock = None /\ queuedStatus = None /\ trigger = None
    /\ status = NoStatus
    /\ running = FirstVersion
    /\ bLink = FirstVersion /\ wLink = FirstVersion
    /\ bDirs = {FirstVersion} /\ wDirs = {FirstVersion}
    /\ schema = SchemaOf[FirstVersion]
    /\ upc = "idle" /\ claim = None /\ installed = FALSE
    /\ prevB = FirstVersion /\ prevW = FirstVersion /\ note = "none"
    /\ lapsed = FALSE

-----------------------------------------------------------------------------
(* Service.Queue                                                           *)

\* Variant: an update may name any published release.
MayQueueAnyUpdate(a, v) ==
    a = "rollback" => v \in bDirs /\ v # running /\ Compatible(v, schema)

\* Update: the target is newer than the build that answers the request.
\* Rollback: the target is installed, is another build, and its manifest
\* accepts the database schema.
MayQueue(a, v) ==
    \/ a = "update"   /\ v > running
    \/ a = "rollback" /\ v \in bDirs /\ v # running /\ Compatible(v, schema)

Validate(r) ==
    /\ pc[r] = "new" /\ running # Down
    /\ \E a \in Actions, v \in Versions :
        /\ MayQueue(a, v)
        /\ req' = [req EXCEPT ![r] = [action |-> a, target |-> v]]
        /\ pc' = [pc EXCEPT ![r] = "validated"]
    /\ UNCHANGED <<fileVars, status, running, relVars, schema, upc, memVars>>

\* O_EXCL: the lock file does not exist.
LockFree == lock = None

\* os.OpenFile(update.lock, O_CREATE|O_EXCL) and the write of the id into it.
AcquireLock(r) ==
    /\ pc[r] = "validated"
    /\ LockFree
    /\ lock' = r
    /\ pc' = [pc EXCEPT ![r] = "locked"]
    /\ UNCHANGED <<req, queuedStatus, trigger, lapsed, status, running, relVars, schema, upc, memVars>>

\* Variant: the queued status is written before the lock is tested.
LockRefusedAfterStatus(r) ==
    /\ pc[r] = "validated" /\ lock # None
    /\ queuedStatus' = r
    /\ pc' = [pc EXCEPT ![r] = "rejected"]
    /\ UNCHANGED <<req, lock, trigger, lapsed, status, running, relVars, schema, upc, memVars>>

\* UPDATE_ALREADY_RUNNING, or UPDATER_UNAVAILABLE when the lock cannot be written.
LockRefused(r) ==
    /\ pc[r] = "validated"
    /\ lock # None \/ "write" \in Faults
    /\ pc' = [pc EXCEPT ![r] = "rejected"]
    /\ UNCHANGED <<req, fileVars, status, running, relVars, schema, upc, memVars>>

WriteQueuedStatus(r) ==
    /\ pc[r] = "locked"
    /\ queuedStatus' = r
    /\ pc' = [pc EXCEPT ![r] = "described"]
    /\ UNCHANGED <<req, lock, trigger, lapsed, status, running, relVars, schema, upc, memVars>>

\* Variant: a handler that gives up here leaves its lock.
QueuedStatusFailsLocked(r) ==
    /\ pc[r] = "locked" /\ "write" \in Faults
    /\ pc' = [pc EXCEPT ![r] = "rejected"]
    /\ UNCHANGED <<req, fileVars, status, running, relVars, schema, upc, memVars>>

QueuedStatusFails(r) ==
    /\ pc[r] = "locked" /\ "write" \in Faults
    /\ lock' = None
    /\ pc' = [pc EXCEPT ![r] = "rejected"]
    /\ UNCHANGED <<req, queuedStatus, trigger, lapsed, status, running, relVars, schema, upc, memVars>>

\* The rename of request.json commits the request.
WriteRequest(r) ==
    /\ pc[r] = "described"
    /\ trigger' = r
    /\ pc' = [pc EXCEPT ![r] = "accepted"]
    /\ UNCHANGED <<req, lock, queuedStatus, lapsed, status, running, relVars, schema, upc, memVars>>

\* The error branch removes the lock first and the queued status second.
WriteRequestFails(r) ==
    /\ pc[r] = "described" /\ "write" \in Faults
    /\ lock' = None
    /\ pc' = [pc EXCEPT ![r] = "undo"]
    /\ UNCHANGED <<req, queuedStatus, trigger, lapsed, status, running, relVars, schema, upc, memVars>>

UndoQueuedStatus(r) ==
    /\ pc[r] = "undo"
    /\ queuedStatus' = None
    /\ pc' = [pc EXCEPT ![r] = "rejected"]
    /\ UNCHANGED <<req, lock, trigger, lapsed, status, running, relVars, schema, upc, memVars>>

\* A new API process serves the release the backend link names, if it is there.
StartedBuild == IF bLink \in bDirs THEN bLink ELSE Down

\* Restarting the API ends every handler that is still running.
RestartApi ==
    /\ running' = StartedBuild
    /\ pc' = [r \in Requests |-> IF pc[r] \in InFlight THEN "dead" ELSE pc[r]]

ApiCrash ==
    /\ "apiCrash" \in Faults
    /\ RestartApi
    /\ UNCHANGED <<req, fileVars, status, relVars, schema, upc, memVars>>

Handler(r) ==
    \/ Validate(r) \/ AcquireLock(r) \/ LockRefused(r)
    \/ WriteQueuedStatus(r) \/ QueuedStatusFails(r)
    \/ WriteRequest(r) \/ WriteRequestFails(r) \/ UndoQueuedStatus(r)

-----------------------------------------------------------------------------
(* release-updater.sh                                                      *)

WriteStatus(s) == status' = [id |-> claim, state |-> s, note |-> note]

\* The script goes on to the work announced by the status it writes.
Enter(s) == upc' = s /\ WriteStatus(s) /\ UNCHANGED <<claim, installed, prevB, prevW, note>>

\* Leaving the process also releases runner.lock; its memory is gone.
Exit ==
    /\ upc' = "idle" /\ claim' = None /\ installed' = FALSE
    /\ prevB' = FirstVersion /\ prevW' = FirstVersion /\ note' = "none"

\* jl-business-updater.path fires; flock; mv request.json into the claim.
ClaimRequest ==
    /\ upc = "idle" /\ trigger # None
    /\ claim' = trigger
    /\ trigger' = None
    /\ upc' = "claimed"
    /\ UNCHANGED <<apiVars, lock, queuedStatus, lapsed, status, running, relVars, schema,
                   installed, prevB, prevW, note>>

\* The mv fails: the trap runs, no status is written as nothing was claimed, and
\* cleanup_owned_request still removes the queued status and the lock, because
\* claim_dir is set. request.json stays, and the path unit starts the script again.
ClaimFails ==
    /\ "claim" \in Faults
    /\ upc = "idle" /\ trigger # None
    /\ upc' = "cleaning"
    /\ lapsed' = TRUE
    /\ UNCHANGED <<apiVars, lock, queuedStatus, trigger, status, running, relVars, schema, memVars>>

\* write_status queued, then rm queued-status.json.
AnnounceQueued ==
    /\ upc = "claimed"
    /\ Enter("queued")
    /\ queuedStatus' = None
    /\ UNCHANGED <<apiVars, lock, trigger, lapsed, running, relVars, schema>>

\* `test ! -e backend && test ! -e web` stops the script only when its last
\* command fails: errexit and the ERR trap ignore a failure of the first one.
TargetMayBeFetched == Target \in bDirs \/ Target \notin wDirs

StartDownload ==
    /\ upc = "queued" /\ Action = "update" /\ TargetMayBeFetched
    /\ Enter("downloading")
    /\ UNCHANGED <<apiVars, fileVars, running, relVars, schema>>

Downloaded ==
    /\ upc = "downloading"
    /\ Enter("verifying")
    /\ UNCHANGED <<apiVars, fileVars, running, relVars, schema>>

\* Archive and manifest checks, the schema gate, validate_current_backend.
Verified ==
    /\ upc = "verifying"
    /\ schema <= SchemaOf[Target]
    /\ bLink \in bDirs
    /\ Enter("backing_up")
    /\ UNCHANGED <<apiVars, fileVars, running, relVars, schema>>

\* The rollback branch checks the installed target instead.
RollbackVerified ==
    /\ upc = "queued" /\ Action = "rollback"
    /\ Target \in bDirs /\ Target \in wDirs
    /\ Compatible(Target, schema)
    /\ bLink \in bDirs
    /\ Enter("backing_up")
    /\ UNCHANGED <<apiVars, fileVars, running, relVars, schema>>

\* manifest_compatible fails as a simple command inside a function: errexit ends
\* the script, the ERR trap is not inherited and on_error never runs.
RollbackRefused ==
    /\ upc = "queued" /\ Action = "rollback"
    /\ Target \in bDirs /\ Target \in wDirs
    /\ ~Compatible(Target, schema)
    /\ Exit
    /\ UNCHANGED <<apiVars, fileVars, status, running, relVars, schema>>

BackedUp ==
    /\ upc = "backing_up"
    /\ Enter(IF Action = "update" THEN "migrating" ELSE "switching")
    /\ UNCHANGED <<apiVars, fileVars, running, relVars, schema>>

\* goose up, the compatibility check, mkdir of both release directories.
Migrate ==
    /\ upc = "migrating"
    /\ schema' = SchemaOf[Target]
    /\ Compatible(Target, schema')
    /\ bDirs' = bDirs \cup {Target} /\ wDirs' = wDirs \cup {Target}
    /\ installed' = TRUE
    /\ upc' = "installing"
    /\ UNCHANGED <<apiVars, fileVars, status, running, bLink, wLink, claim, prevB, prevW, note>>

\* goose stops anywhere on its way, or the schema it reaches is not accepted.
MigrateFails ==
    /\ upc = "migrating"
    /\ schema' \in schema .. SchemaOf[Target]
    /\ note' = "migrated"
    /\ upc' = "failing"
    /\ UNCHANGED <<apiVars, fileVars, status, running, relVars, claim, installed, prevB, prevW>>

\* cp -a, normalize_target_permissions, validate_target_permissions.
Installed ==
    /\ upc = "installing"
    /\ Enter("switching")
    /\ UNCHANGED <<apiVars, fileVars, running, relVars, schema>>

SwitchBackend ==
    /\ upc = "switching"
    /\ prevB' = bLink /\ prevW' = wLink
    /\ bLink' = Target
    /\ upc' = "switchingWeb"
    /\ UNCHANGED <<apiVars, fileVars, status, running, wLink, bDirs, wDirs, schema,
                   claim, installed, note>>

SwitchWeb ==
    /\ upc = "switchingWeb"
    /\ wLink' = Target
    /\ Enter("restarting")
    /\ UNCHANGED <<apiVars, fileVars, running, bLink, bDirs, wDirs, schema>>

\* Variant: only the jobs timer is restarted.
RestartJobsOnly ==
    /\ upc = "restarting"
    /\ Enter("health_check")
    /\ UNCHANGED <<apiVars, fileVars, running, relVars, schema>>

Restart ==
    /\ upc = "restarting"
    /\ StartedBuild # Down
    /\ RestartApi
    /\ Enter("health_check")
    /\ UNCHANGED <<req, fileVars, relVars, schema>>

Healthy ==
    /\ upc = "health_check"
    /\ running # Down
    /\ WriteStatus("succeeded")
    /\ upc' = "cleaning"
    /\ UNCHANGED <<apiVars, fileVars, running, relVars, schema, memVars>>

\* on_error before the switch: the task fails and nothing is restored.
StepFails ==
    /\ upc \in {"claimed", "queued", "downloading", "verifying", "backing_up",
                "installing", "switching"}
    /\ upc' = "failing"
    /\ note' = IF installed THEN "migrated" ELSE "unswitched"
    /\ UNCHANGED <<apiVars, fileVars, status, running, relVars, schema,
                   claim, installed, prevB, prevW>>

\* What `systemctl restart` of the API leaves when it reports an error.
RestartCommandFails ==
    /\ "restart" \in Faults
    /\ \/ UNCHANGED <<running, pc>>
       \/ /\ running' = Down
          /\ pc' = [r \in Requests |-> IF pc[r] \in InFlight THEN "dead" ELSE pc[r]]

\* on_error after the switch: a failed web link, restart or health check.
SwitchedStepFails ==
    /\ \/ upc \in {"switchingWeb", "health_check"} /\ UNCHANGED <<running, pc>>
       \/ upc = "restarting" /\ (RestartApi \/ RestartCommandFails)
    /\ upc' = "restoring"
    /\ UNCHANGED <<req, fileVars, status, relVars, schema, memVars>>

\* Variant: the previous manifest is not compared with the schema.
PreviousPresent == prevB \in bDirs

\* The previous release is on disk and its manifest accepts the schema.
PreviousUsable == prevB \in bDirs /\ Compatible(prevB, schema)

\* restore_previous_release
RestoreBackend ==
    /\ upc = "restoring"
    /\ PreviousUsable
    /\ bLink' = prevB
    /\ upc' = "restoringWeb"
    /\ UNCHANGED <<apiVars, fileVars, status, running, wLink, bDirs, wDirs, schema, memVars>>

\* Variant: only the backend link is restored.
RestoreBackendOnly ==
    /\ upc = "restoringWeb"
    /\ upc' = "reviving"
    /\ UNCHANGED <<apiVars, fileVars, status, running, relVars, schema, memVars>>

\* Variant: the restore announces that it is about to restart the API.
RestoreWebAnnounced ==
    /\ upc = "restoringWeb"
    /\ wLink' = prevW
    /\ upc' = "reviving"
    /\ WriteStatus("restarting")
    /\ UNCHANGED <<apiVars, fileVars, running, bLink, bDirs, wDirs, schema, memVars>>

RestoreWeb ==
    /\ upc = "restoringWeb"
    /\ wLink' = prevW
    /\ upc' = "reviving"
    /\ UNCHANGED <<apiVars, fileVars, status, running, bLink, bDirs, wDirs, schema, memVars>>

\* Variant: the API is not restarted after the links are back.
ReviveWithoutRestart ==
    /\ upc = "reviving"
    /\ upc' = "purging"
    /\ UNCHANGED <<apiVars, fileVars, status, running, relVars, schema, memVars>>

Revive ==
    /\ upc = "reviving"
    /\ StartedBuild # Down
    /\ RestartApi
    /\ upc' = "purging"
    /\ UNCHANGED <<req, fileVars, status, relVars, schema, memVars>>

\* The previous manifest does not accept the schema, a link or the API cannot be
\* put back, or the restored application is not healthy: left to the operator.
RestoreFails ==
    /\ \/ /\ upc = "restoring"
          /\ ~PreviousUsable \/ "relink" \in Faults
          /\ UNCHANGED <<running, pc>>
       \/ upc = "restoringWeb" /\ "relink" \in Faults /\ UNCHANGED <<running, pc>>
       \/ upc = "reviving" /\ (RestartApi \/ RestartCommandFails)
    /\ note' = "manual"
    /\ upc' = "failing"
    /\ UNCHANGED <<req, fileVars, status, relVars, schema, claim, installed, prevB, prevW>>

RemoveTarget == bDirs' = bDirs \ {Target} /\ wDirs' = wDirs \ {Target}

\* After a restore the target directories go, whatever the action was.
Purge ==
    /\ upc = "purging"
    /\ RemoveTarget
    /\ note' = "restored"
    /\ upc' = "failing"
    /\ UNCHANGED <<apiVars, fileVars, status, running, bLink, wLink, schema,
                   claim, installed, prevB, prevW>>

\* Variant: the failure is not written to the status.
FailSilently ==
    /\ upc = "failing"
    /\ upc' = IF installed /\ note = "migrated" THEN "discarding" ELSE "cleaning"
    /\ UNCHANGED <<apiVars, fileVars, status, running, relVars, schema, memVars>>

ReportFailure ==
    /\ upc = "failing"
    /\ WriteStatus("failed")
    /\ upc' = IF installed /\ note = "migrated" THEN "discarding" ELSE "cleaning"
    /\ UNCHANGED <<apiVars, fileVars, running, relVars, schema, memVars>>

\* installed_target and not switched.
Discard ==
    /\ upc = "discarding"
    /\ RemoveTarget
    /\ upc' = "cleaning"
    /\ UNCHANGED <<apiVars, fileVars, status, running, bLink, wLink, schema, memVars>>

\* cleanup_owned_request: the claim and the queued status, then the lock, whoever
\* holds it.
CleanQueuedStatus ==
    /\ upc = "cleaning"
    /\ queuedStatus' = None
    /\ upc' = "unlocking"
    /\ UNCHANGED <<apiVars, lock, trigger, lapsed, status, running, relVars, schema, memVars>>

ReleaseLock ==
    /\ upc = "unlocking"
    /\ lock' = None
    /\ Exit
    /\ UNCHANGED <<apiVars, queuedStatus, trigger, lapsed, status, running, relVars, schema>>

\* The process ends with no trap: status, lock and releases stay as they are. A
\* kill inside `rm -rf backend web` may leave the web directory.
Killed ==
    /\ "kill" \in Faults /\ upc # "idle"
    /\ bDirs' \in {bDirs} \cup (IF upc \in {"purging", "discarding"} THEN {bDirs \ {Target}} ELSE {})
    /\ Exit
    /\ UNCHANGED <<apiVars, fileVars, status, running, bLink, wLink, wDirs, schema>>

\* docs/release-management.md, Troubleshooting: the operator reads the status and
\* the journal, finds no task at work, and removes the lock.
OperatorUnlock ==
    /\ lock # None /\ trigger = None /\ upc = "idle"
    /\ pc[lock] \notin InFlight
    /\ lock' = None
    /\ UNCHANGED <<apiVars, queuedStatus, trigger, lapsed, status, running, relVars, schema, upc, memVars>>

Forward == \/ ClaimRequest \/ AnnounceQueued \/ StartDownload \/ Downloaded
           \/ Verified \/ RollbackVerified \/ RollbackRefused \/ BackedUp
           \/ Migrate \/ Installed \/ SwitchBackend \/ SwitchWeb
           \/ Restart \/ Healthy

Backward == \/ ClaimFails \/ StepFails \/ MigrateFails \/ SwitchedStepFails
            \/ RestoreBackend \/ RestoreWeb \/ Revive \/ RestoreFails \/ Purge
            \/ ReportFailure \/ Discard \/ CleanQueuedStatus \/ ReleaseLock

Updater == Forward \/ Backward

Next ==
    \/ \E r \in Requests : Handler(r)
    \/ ApiCrash
    \/ Updater
    \/ Killed
    \/ OperatorUnlock

Spec == Init /\ [][Next]_vars

\* The API's goroutines run; systemd starts the updater while request.json exists,
\* and every command of the script has a time limit or a bounded retry.
Fairness ==
    /\ WF_vars(Updater)
    /\ \A r \in Requests : WF_vars(pc[r] # "new" /\ Handler(r))

FairSpec == Spec /\ Fairness

-----------------------------------------------------------------------------
(* What the Version Center shows                                           *)

Terminal(st) == st.state \in {"succeeded", "failed"}

\* Service.readStatus: the queued status counts while it names the lock holder
\* and the updater has written nothing for that request.
VisibleStatus ==
    IF queuedStatus # None /\ lock = queuedStatus /\ status.id # queuedStatus
    THEN [id |-> queuedStatus, state |-> "queued", note |-> "none"]
    ELSE status

-----------------------------------------------------------------------------
(* Properties                                                              *)

\* The lock file is the task: until a claim fails, the handler that is writing the
\* request files, the committed request.json and the request the updater works on
\* all hold it, and no second request waits behind a running one. Afterwards too,
\* what waits and what runs are two requests that were committed.
TaskHoldsLock ==
    /\ ~lapsed =>
        /\ \A r \in Requests : pc[r] \in {"locked", "described"} => lock = r
        /\ trigger # None => lock = trigger /\ upc = "idle"
        /\ upc # "idle" => claim # None /\ lock = claim
    /\ trigger # None => pc[trigger] = "accepted" /\ trigger # claim
    /\ claim # None => pc[claim] = "accepted"

\* Until a claim fails, the queued status on disk never speaks for another request
\* than the one about to be committed, waiting or running: it is its own or it is
\* gone, also when a handler that failed takes its files back late.
QueuedStatusIsOwn ==
    ~lapsed =>
        /\ \A r \in Requests : pc[r] = "described" => queuedStatus \in {None, r}
        /\ trigger # None \/ upc # "idle" => queuedStatus \in {None, lock}

\* Lock, request and queued status speak of one task, through every order of
\* two handlers, the updater, the operator and every failure but that of a claim.
TaskFilesAgree == TaskHoldsLock /\ QueuedStatusIsOwn

\* The `current` links name release directories that exist.
CurrentInstalled == bLink \in bDirs /\ wLink \in wDirs

\* The backend link is only ever moved to a release whose manifest accepts the
\* schema the database has at that moment, when switching and when restoring alike.
LinkMovesToCompatible == [][bLink' # bLink => Compatible(bLink', schema')]_vars

\* "succeeded" is written only when both links name the target, the live API is
\* the target's build and the target accepts the schema.
SuccessIsComplete ==
    [][status' # status /\ status'.state = "succeeded" =>
        LET t == req[status'.id].target
        IN  bLink = t /\ wLink = t /\ running = t /\ Compatible(t, schema)]_vars

\* A successful update leaves a newer release in place than it found, however
\* long ago its target was compared with the running build.
UpdateMovesForward ==
    [][upc = "health_check" /\ upc' = "cleaning" /\ Action = "update" =>
        Target > prevB]_vars

\* A failure report says the application was restored only when both links are
\* back, the previous release is still on disk, serves, and accepts the schema.
RestoredClaimIsTrue ==
    [][status' # status /\ status'.note = "restored" =>
        /\ bLink = prevB /\ wLink = prevW
        /\ prevB \in bDirs /\ prevW \in wDirs
        /\ running = prevB /\ Compatible(prevB, schema)]_vars

\* Polling never sees a task go back, until a claim fails: while the Version Center
\* shows the same request, its state only advances.
VisibleNeverRegresses ==
    [][~lapsed /\ VisibleStatus'.id = VisibleStatus.id =>
        StatusRank[VisibleStatus.state] <= StatusRank[VisibleStatus'.state]]_vars

\* Every committed request is eventually reported as succeeded or failed.
CommittedIsReported ==
    \A r \in Requests : trigger = r ~> (status.id = r /\ Terminal(status))

\* No task keeps the lock for ever, unless the API died before it committed it: that
\* lock is the operator's to remove.
LockIsReleased == \A r \in Requests : lock = r ~> lock # r \/ pc[r] = "dead"

\* A task ends: it is reported, and the next one can take the lock.
TasksEnd == CommittedIsReported /\ LockIsReleased

\* A rollback only switches between installed releases and removes none
\* (docs/release-management.md:132).
RollbackOnlySwitches ==
    [][claim # None /\ Action = "rollback" => bDirs' = bDirs /\ wDirs' = wDirs]_vars

\* A rollback the updater refuses leaves no lock behind (assert_rejected_rollback
\* in release-updater-test.sh:361).
RefusalReleasesLock ==
    [][upc # "idle" /\ upc' = "idle" => lock' = None]_vars

-----------------------------------------------------------------------------
(* The task queue this implements                                          *)

TaskPhase == [r \in Requests |->
    IF claim = r THEN "running"
    ELSE IF trigger = r THEN "queued"
    ELSE IF pc[r] = "accepted" THEN "over" ELSE "new"]

TaskReport == IF Terminal(status) THEN [id |-> status.id, ok |-> status.state = "succeeded"]
                                  ELSE [id |-> None, ok |-> FALSE]

Task == INSTANCE ReleaseTask WITH
    holder <- lock, phase <- TaskPhase, report <- TaskReport, astray <- lapsed

TaskSpec == Task!Spec
=============================================================================
