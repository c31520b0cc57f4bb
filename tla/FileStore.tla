----------------------------- MODULE FileStore -----------------------------
(***************************************************************************)
(* Uploaded files: the rows of file_assets, the files under FILE_ROOT, the *)
(* handlers that upload and delete them, the deletion of an account with   *)
(* everything it owns, and the daily job that removes what was left over.  *)
(* A row and its file are never changed in one atomic step.                *)
(*                                                                         *)
(* A file is named by the UUID its upload draws, so a member of Files is   *)
(* one upload; numbers give the order in which os.ReadDir lists them.      *)
(***************************************************************************)
EXTENDS Naturals, FiniteSets

CONSTANTS
    Users,       \* accounts that exist at the start
    None,        \* no account
    Files,       \* storage names uploads may draw
    Deletions,   \* requests to delete an account
    Stuck,       \* files the operating system refuses to remove
    Faults,      \* failures a run allows, see FaultKinds
    MaxMishaps   \* bound: how many of them happen

\* remove: one os.Remove fails; db: one statement fails; reply: a statement takes
\* effect but its reply is lost, as when the client leaves and the request context is
\* cancelled; crash: the API dies; job: the jobs process dies or meets its deadline.
FaultKinds == {"remove", "db", "reply", "crash", "job"}

ASSUME ConstantsAssumption ==
    /\ None \notin Users
    /\ Files \subseteq Nat
    /\ Stuck \subseteq Files
    /\ Faults \subseteq FaultKinds
    /\ MaxMishaps \in Nat

VARIABLES
    acct,     \* status of each account, or "gone"
    row,      \* owner named by the file_assets row of a file, or None
    disk,     \* files under FILE_ROOT
    young,    \* those modified less than orphanFileGracePeriod ago
    failed,   \* pending file_cleanup_failures: none, waiting for its time, due
    up,       \* how far the upload of each file is, and what it answered
    owner,    \* who uploads it
    del,      \* how far the request to delete it is
    dpc,      \* how far each account deletion is
    victim,   \* the account it deletes
    names,    \* the storage names it has still to remove
    job,      \* what the daily job is doing
    known,    \* names with a row when the job read the table
    todo,     \* entries or failures it has still to look at
    mishaps   \* failures so far

store == <<row, disk, young, failed>>
uploads == <<up, owner>>
deletions == <<dpc, victim, names>>
jobs == <<job, known, todo>>
vars == <<acct, store, uploads, del, deletions, jobs, mishaps>>

TypeOK ==
    /\ acct \in [Users -> {"ACTIVE", "DISABLED", "DELETING", "gone"}]
    /\ row \in [Files -> Users \cup {None}]
    /\ disk \subseteq Files /\ young \subseteq disk
    /\ failed \in [Files -> {"none", "waiting", "due"}]
    /\ up \in [Files -> {"new", "writing", "stored", "refused", "dead"}]
    /\ owner \in [Files -> Users \cup {None}]
    /\ del \in [Files -> {"never", "found", "removed", "asked"}]
    /\ dpc \in [Deletions -> {"new", "marked", "listed", "removing", "over",
                              "conflict", "broken", "dead"}]
    /\ victim \in [Deletions -> Users \cup {None}]
    /\ names \in [Deletions -> SUBSET Files]
    /\ job \in {"idle", "listed", "scan", "query", "retry"}
    /\ known \subseteq Files /\ todo \subseteq Files
    /\ mishaps \in Nat

\* A deletion that broke off earlier has left an account DELETING.
Init ==
    /\ acct \in [Users -> {"ACTIVE", "DELETING"}]
    /\ row = [f \in Files |-> None]
    /\ disk = {} /\ young = {}
    /\ failed = [f \in Files |-> "none"]
    /\ up = [f \in Files |-> "new"]
    /\ owner = [f \in Files |-> None]
    /\ del = [f \in Files |-> "never"]
    /\ dpc = [d \in Deletions |-> "new"]
    /\ victim = [d \in Deletions |-> None]
    /\ names = [d \in Deletions |-> {}]
    /\ job = "idle" /\ known = {} /\ todo = {}
    /\ mishaps = 0

Mishap(kind) ==
    /\ kind \in Faults /\ mishaps < MaxMishaps
    /\ mishaps' = mishaps + 1

\* os.Remove, with a missing file counted as removed.
Removed(f) ==
    /\ f \in disk => f \notin Stuck
    /\ disk' = disk \ {f} /\ young' = young \ {f}
    /\ UNCHANGED mishaps

RemovalFails(f) ==
    /\ f \in disk
    /\ \/ f \in Stuck /\ UNCHANGED mishaps
       \/ Mishap("remove")
    /\ UNCHANGED <<disk, young>>

-----------------------------------------------------------------------------
(* Service.Upload                                                          *)

\* The session names an active account; the bytes go to a new file.
CreateFile(f, u) ==
    /\ up[f] = "new" /\ acct[u] = "ACTIVE"
    /\ up' = [up EXCEPT ![f] = "writing"]
    /\ owner' = [owner EXCEPT ![f] = u]
    /\ disk' = disk \cup {f} /\ young' = young \cup {f}
    /\ UNCHANGED <<acct, row, failed, del, deletions, jobs, mishaps>>

\* Variant: the foreign key on user_id is missing.
InsertRowUnchecked(f) ==
    /\ up[f] = "writing"
    /\ row' = [row EXCEPT ![f] = owner[f]]
    /\ up' = [up EXCEPT ![f] = "stored"]
    /\ UNCHANGED <<acct, disk, young, failed, owner, del, deletions, jobs, mishaps>>

\* The foreign key accepts any account that exists, whatever its status.
InsertRow(f) ==
    /\ up[f] = "writing"
    /\ acct[owner[f]] # "gone"
    /\ row' = [row EXCEPT ![f] = owner[f]]
    /\ up' = [up EXCEPT ![f] = "stored"]
    /\ UNCHANGED <<acct, disk, young, failed, owner, del, deletions, jobs, mishaps>>

\* os.Remove in an error branch, its own error ignored.
TakenBack(f) ==
    \/ disk' = disk \ {f} /\ young' = young \ {f} /\ f \notin Stuck
    \/ (f \in Stuck \/ "remove" \in Faults) /\ UNCHANGED <<disk, young>>

\* A failed write or insert, or an account that is gone: the file is taken back.
UploadFails(f) ==
    /\ up[f] = "writing"
    /\ \/ acct[owner[f]] = "gone" /\ UNCHANGED mishaps
       \/ Mishap("db")
    /\ TakenBack(f)
    /\ up' = [up EXCEPT ![f] = "refused"]
    /\ UNCHANGED <<acct, row, failed, owner, del, deletions, jobs>>

\* The row is committed, but the handler sees an error and takes the file back.
InsertReplyLost(f) ==
    /\ up[f] = "writing" /\ acct[owner[f]] # "gone"
    /\ Mishap("reply")
    /\ row' = [row EXCEPT ![f] = owner[f]]
    /\ TakenBack(f)
    /\ up' = [up EXCEPT ![f] = "refused"]
    /\ UNCHANGED <<acct, failed, owner, del, deletions, jobs>>

-----------------------------------------------------------------------------
(* Service.Delete: read the row, remove the file, delete the row           *)

FindFile(f) ==
    /\ del[f] \in {"never", "asked"}
    /\ row[f] # None /\ acct[row[f]] = "ACTIVE"
    /\ del' = [del EXCEPT ![f] = "found"]
    /\ UNCHANGED <<acct, store, uploads, deletions, jobs, mishaps>>

RemoveFile(f) ==
    /\ del[f] = "found"
    /\ \/ Removed(f) /\ del' = [del EXCEPT ![f] = "removed"]
       \/ RemovalFails(f) /\ del' = [del EXCEPT ![f] = "asked"]
    /\ UNCHANGED <<acct, row, failed, uploads, deletions, jobs>>

DeleteRow(f) ==
    /\ del[f] = "removed"
    /\ \/ row' = [row EXCEPT ![f] = None] /\ UNCHANGED mishaps
       \/ Mishap("db") /\ UNCHANGED row
    /\ del' = [del EXCEPT ![f] = "asked"]
    /\ UNCHANGED <<acct, disk, young, failed, uploads, deletions, jobs>>

-----------------------------------------------------------------------------
(* Service.DeleteAccount, called for oneself or by an administrator        *)

MarkDeleting(d, u) ==
    /\ dpc[d] = "new" /\ acct[u] \in {"ACTIVE", "DISABLED"}
    /\ acct' = [acct EXCEPT ![u] = "DELETING"]
    /\ dpc' = [dpc EXCEPT ![d] = "marked"]
    /\ victim' = [victim EXCEPT ![d] = u]
    /\ UNCHANGED <<store, uploads, del, names, jobs, mishaps>>

\* The UPDATE changes no row: CONFLICT, "account is already being deleted". The
\* account may also have gone since the handler looked it up.
AlreadyDeleting(d, u) ==
    /\ dpc[d] = "new" /\ acct[u] \in {"DELETING", "gone"}
    /\ dpc' = [dpc EXCEPT ![d] = "conflict"]
    /\ victim' = [victim EXCEPT ![d] = u]
    /\ UNCHANGED <<acct, store, uploads, del, names, jobs, mishaps>>

ListNames(d) ==
    /\ dpc[d] = "marked"
    /\ names' = [names EXCEPT ![d] = {f \in Files : row[f] = victim[d]}]
    /\ dpc' = [dpc EXCEPT ![d] = "listed"]
    /\ UNCHANGED <<acct, store, uploads, del, victim, jobs, mishaps>>

\* One transaction; the rows of file_assets go with the account (ON DELETE CASCADE).
DropAccount(d) ==
    /\ dpc[d] = "listed"
    /\ acct' = [acct EXCEPT ![victim[d]] = "gone"]
    /\ row' = [f \in Files |-> IF row[f] = victim[d] THEN None ELSE row[f]]
    /\ dpc' = [dpc EXCEPT ![d] = "removing"]
    /\ UNCHANGED <<disk, young, failed, uploads, del, victim, names, jobs, mishaps>>

\* A statement fails: the handler returns and the account keeps its new status.
DeletionBreaks(d) ==
    /\ dpc[d] \in {"marked", "listed"}
    /\ Mishap("db")
    /\ dpc' = [dpc EXCEPT ![d] = "broken"]
    /\ UNCHANGED <<acct, store, uploads, del, victim, names, jobs>>

\* A file that cannot be removed is recorded for the job, if that insert works.
RemoveNamed(d, f) ==
    /\ dpc[d] = "removing" /\ f \in names[d]
    /\ \/ Removed(f) /\ UNCHANGED failed
       \/ RemovalFails(f) /\ failed' = [failed EXCEPT ![f] = "waiting"]
       \/ RemovalFails(f) /\ "db" \in Faults /\ UNCHANGED failed
    /\ names' = [names EXCEPT ![d] = @ \ {f}]
    /\ UNCHANGED <<acct, row, uploads, del, dpc, victim, jobs>>

AllRemoved(d) ==
    /\ dpc[d] = "removing" /\ names[d] = {}
    /\ dpc' = [dpc EXCEPT ![d] = "over"]
    /\ UNCHANGED <<acct, store, uploads, del, victim, names, jobs, mishaps>>

\* admin.Service.SetUserStatus writes over any status.
SetUserStatus(u, s) ==
    /\ acct[u] # "gone" /\ acct[u] # s
    /\ acct' = [acct EXCEPT ![u] = s]
    /\ UNCHANGED <<store, uploads, del, deletions, jobs, mishaps>>

\* Every handler ends where it is.
Crash ==
    /\ Mishap("crash")
    /\ up' = [f \in Files |-> IF up[f] = "writing" THEN "dead" ELSE up[f]]
    /\ del' = [f \in Files |-> IF del[f] \in {"found", "removed"} THEN "asked" ELSE del[f]]
    /\ dpc' = [d \in Deletions |->
                IF dpc[d] \in {"marked", "listed", "removing"} THEN "dead" ELSE dpc[d]]
    /\ UNCHANGED <<acct, store, owner, victim, names, jobs>>

-----------------------------------------------------------------------------
(* jl-business-jobs cleanup: CleanupOrphanFiles, then RetryFileCleanup     *)

ReadKnown ==
    /\ job = "idle"
    /\ known' = {f \in Files : row[f] # None}
    /\ job' = "listed"
    /\ UNCHANGED <<acct, store, uploads, del, deletions, todo, mishaps>>

ReadDir ==
    /\ job = "listed"
    /\ todo' = disk
    /\ job' = "scan"
    /\ UNCHANGED <<acct, store, uploads, del, deletions, known, mishaps>>

\* Any error ends the whole job.
Abort == job' = "idle" /\ known' = {} /\ todo' = {}

\* Variant: the age of the file is not looked at.
OrphanAnyAge(f) == f \notin known

\* What CleanupOrphanFiles may remove.
Orphan(f) == f \notin young /\ f \notin known

\* entry.Info fails when the file has gone since ReadDir, and that is fatal.
ScanEntry(f) ==
    /\ job = "scan" /\ f \in todo
    /\ \A g \in todo : f <= g
    /\ \/ /\ f \notin disk
          /\ Abort /\ UNCHANGED <<disk, young, mishaps>>
       \/ /\ f \in disk /\ ~Orphan(f)
          /\ todo' = todo \ {f} /\ UNCHANGED <<disk, young, job, known, mishaps>>
       \/ /\ f \in disk /\ Orphan(f)
          /\ Removed(f)
          /\ todo' = todo \ {f} /\ UNCHANGED <<job, known>>
       \/ /\ f \in disk /\ Orphan(f)
          /\ RemovalFails(f) /\ Abort
    /\ UNCHANGED <<acct, row, failed, uploads, del, deletions>>

ScanEnds ==
    /\ job = "scan" /\ todo = {}
    /\ job' = "query"
    /\ UNCHANGED <<acct, store, uploads, del, deletions, known, todo, mishaps>>

\* The failures whose next_attempt_at has come.
QueryDue ==
    /\ job = "query"
    /\ todo' = {f \in Files : failed[f] = "due"}
    /\ job' = "retry"
    /\ UNCHANGED <<acct, store, uploads, del, deletions, known, mishaps>>

\* Variant: a file that is already gone counts as a failed attempt.
RetryMissingFails(f) ==
    /\ job = "retry" /\ f \in todo
    /\ \/ f \in disk /\ Removed(f) /\ failed' = [failed EXCEPT ![f] = "none"]
       \/ f \notin disk /\ failed' = [failed EXCEPT ![f] = "waiting"] /\ UNCHANGED <<disk, young, mishaps>>
       \/ RemovalFails(f) /\ failed' = [failed EXCEPT ![f] = "waiting"]
    /\ todo' = todo \ {f}
    /\ UNCHANGED <<acct, row, uploads, del, deletions, job, known>>

RetryFailed(f) ==
    /\ job = "retry" /\ f \in todo
    /\ \/ Removed(f) /\ failed' = [failed EXCEPT ![f] = "none"]
       \/ RemovalFails(f) /\ failed' = [failed EXCEPT ![f] = "waiting"]
    /\ todo' = todo \ {f}
    /\ UNCHANGED <<acct, row, uploads, del, deletions, job, known>>

JobEnds ==
    /\ job = "retry" /\ todo = {}
    /\ Abort
    /\ UNCHANGED <<acct, store, uploads, del, deletions, mishaps>>

\* A statement fails or the two minutes are over.
JobDies ==
    /\ job # "idle" /\ Mishap("job")
    /\ Abort
    /\ UNCHANGED <<acct, store, uploads, del, deletions>>

-----------------------------------------------------------------------------
(* Time                                                                    *)

\* The grace period of one hour is longer than an upload and longer than a job: a
\* file only leaves it when neither is between its own two steps.
GrowsOld(f) ==
    /\ f \in young /\ up[f] # "writing" /\ job = "idle"
    /\ young' = young \ {f}
    /\ UNCHANGED <<acct, row, disk, failed, uploads, del, deletions, jobs, mishaps>>

FallsDue(f) ==
    /\ failed[f] = "waiting"
    /\ failed' = [failed EXCEPT ![f] = "due"]
    /\ UNCHANGED <<acct, row, disk, young, uploads, del, deletions, jobs, mishaps>>

-----------------------------------------------------------------------------
Upload(f) ==
    \/ \E u \in Users : CreateFile(f, u)
    \/ InsertRow(f) \/ UploadFails(f) \/ InsertReplyLost(f)

Delete(f) == FindFile(f) \/ RemoveFile(f) \/ DeleteRow(f)

DeleteAccount(d) ==
    \/ \E u \in Users : MarkDeleting(d, u) \/ AlreadyDeleting(d, u)
    \/ ListNames(d) \/ DropAccount(d) \/ DeletionBreaks(d)
    \/ (\E f \in Files : RemoveNamed(d, f)) \/ AllRemoved(d)

Cleanup ==
    \/ ReadKnown \/ ReadDir \/ ScanEnds \/ QueryDue \/ JobEnds
    \/ \E f \in Files : ScanEntry(f) \/ RetryFailed(f)

Next ==
    \/ \E f \in Files : Upload(f) \/ Delete(f) \/ GrowsOld(f) \/ FallsDue(f)
    \/ \E d \in Deletions : DeleteAccount(d)
    \/ \E u \in Users, s \in {"ACTIVE", "DISABLED"} : SetUserStatus(u, s)
    \/ Crash \/ Cleanup \/ JobDies

Spec == Init /\ [][Next]_vars

\* The timer starts the job every day and makes up for a missed day (Persistent=true);
\* a job that started runs on; time passes, also while the job is idle between two
\* days (hence SF).  Nothing is asked of the handlers.
Fairness ==
    /\ WF_vars(Cleanup)
    /\ \A f \in Files : SF_vars(GrowsOld(f)) /\ WF_vars(FallsDue(f))

FairSpec == Spec /\ Fairness

-----------------------------------------------------------------------------
(* Properties                                                              *)

\* A file whose upload was answered with success stays, its row and its bytes, until
\* its owner asks to delete it or the account is gone, whatever handlers, account
\* deletions, cleanup jobs and failures do meanwhile.
StoredFilesStay ==
    \A f \in Files : up[f] = "stored" /\ del[f] = "never" /\ acct[owner[f]] # "gone" =>
        row[f] = owner[f] /\ f \in disk

\* Once a deletion has dropped the account, it stays gone and no file row names it,
\* also when an upload of that account finishes late or its status is set meanwhile.
GoneOwnsNothing ==
    /\ \A d \in Deletions : dpc[d] \in {"removing", "over"} => acct[victim[d]] = "gone"
    /\ \A f \in Files : row[f] # None => acct[row[f]] # "gone"

\* A cleanup failure is only recorded for a file that no row names, and the job only
\* tries again to remove such files.
FailuresAreOrphans == \A f \in Files : failed[f] # "none" => row[f] = None /\ up[f] # "writing"

\* The rows of files, of failures and of accounts agree, whatever uploads, deletions
\* and jobs do between the statements that write them.
RowsAgree == GoneOwnsNothing /\ FailuresAreOrphans

IsOrphan(f) == f \in disk /\ row[f] = None /\ up[f] # "writing"

\* Every file that no row names, and every recorded failure, is gone at last if
\* the file can be removed, after whatever failed in between.
LeftoversGo == \A f \in Files \ Stuck :
    (IsOrphan(f) \/ failed[f] # "none") ~> (f \notin disk /\ failed[f] = "none")

\* A recorded failure is tried again until it is resolved, if the file can be removed:
\* "Failed physical removals are recorded for the file cleanup job to retry"
\* (files/service.go:188).
FailuresResolve == \A f \in Files \ Stuck : failed[f] # "none" ~> failed[f] = "none"
=============================================================================
