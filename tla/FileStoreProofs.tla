-------------------------- MODULE FileStoreProofs --------------------------
(***************************************************************************)
(* Proofs about FileStore, for any users, files, deletions and failures.   *)
(***************************************************************************)
EXTENDS FileStore, TLAPS

\* What an upload and its row know of each other.
UploadInv == \A f \in Files :
    /\ up[f] # "new" => owner[f] \in Users
    /\ up[f] = "new" => row[f] = None /\ f \notin disk
    /\ up[f] = "writing" => row[f] = None /\ f \in young
    /\ row[f] # None => row[f] = owner[f] /\ acct[owner[f]] # "gone"
    /\ up[f] = "stored" /\ del[f] = "never" /\ acct[owner[f]] # "gone" =>
          row[f] = owner[f] /\ f \in disk

\* A delete request or a recorded failure is about an upload that has ended.
Settled(f) == up[f] \notin {"new", "writing"}

EndedInv == \A f \in Files :
    /\ del[f] # "never" => Settled(f)
    /\ failed[f] # "none" => Settled(f) /\ row[f] = None

\* A deletion that listed names only holds names of its own victim.
DropInv == \A d \in Deletions :
    /\ dpc[d] # "new" => victim[d] \in Users
    /\ dpc[d] \in {"removing", "over"} => acct[victim[d]] = "gone"
    /\ \A f \in names[d] : dpc[d] # "new" /\ Settled(f) /\ owner[f] = victim[d]

\* While the job scans, a file it may take for an orphan has no row; while it tries
\* again, neither has a file on its list.
JobInv ==
    /\ job \in {"listed", "scan"} =>
          \A f \in disk : f \notin known /\ f \notin young => row[f] = None
    /\ job = "retry" => \A f \in todo : Settled(f) /\ row[f] = None

StoreInv == UploadInv /\ EndedInv /\ DropInv /\ JobInv

\* The state and the process variables keep their types.
THEOREM TypeCorrect == Spec => []TypeOK
<1>1. Init => TypeOK
  BY DEF Init, TypeOK
<1>2. ASSUME TypeOK, [Next]_vars PROVE TypeOK'
  <2> USE <1>2 DEF TypeOK, store, uploads, deletions, jobs, Mishap
  <2>1. ASSUME NEW f \in Files, Upload(f) PROVE TypeOK'
    BY <2>1 DEF Upload, CreateFile, InsertRow, UploadFails, InsertReplyLost, TakenBack
  <2>2. ASSUME NEW f \in Files, Delete(f) PROVE TypeOK'
    BY <2>2 DEF Delete, FindFile, RemoveFile, DeleteRow, Removed, RemovalFails
  <2>3. ASSUME NEW f \in Files, GrowsOld(f) \/ FallsDue(f) PROVE TypeOK'
    BY <2>3 DEF GrowsOld, FallsDue
  <2>4. ASSUME NEW d \in Deletions, DeleteAccount(d) PROVE TypeOK'
    <3>1. ASSUME NEW u \in Users, MarkDeleting(d, u) \/ AlreadyDeleting(d, u) PROVE TypeOK'
      BY <3>1 DEF MarkDeleting, AlreadyDeleting
    <3>2. CASE ListNames(d)
      BY <3>2 DEF ListNames
    <3>3. CASE DropAccount(d)
      BY <3>3 DEF DropAccount
    <3>4. CASE DeletionBreaks(d) \/ AllRemoved(d)
      BY <3>4 DEF DeletionBreaks, AllRemoved
    <3>5. ASSUME NEW f \in Files, RemoveNamed(d, f) PROVE TypeOK'
      BY <3>5 DEF RemoveNamed, Removed, RemovalFails
    <3> QED
      BY <2>4, <3>1, <3>2, <3>3, <3>4, <3>5 DEF DeleteAccount
  <2>5. ASSUME NEW u \in Users, NEW s \in {"ACTIVE", "DISABLED"}, SetUserStatus(u, s) PROVE TypeOK'
    BY <2>5 DEF SetUserStatus
  <2>6. CASE Crash
    BY <2>6 DEF Crash
  <2>7. CASE Cleanup
    <3>1. CASE ReadKnown \/ ReadDir \/ ScanEnds \/ QueryDue \/ JobEnds
      BY <3>1 DEF ReadKnown, ReadDir, ScanEnds, QueryDue, JobEnds, Abort
    <3>2. ASSUME NEW f \in Files, ScanEntry(f) PROVE TypeOK'
      BY <3>2 DEF ScanEntry, Abort, Removed, RemovalFails
    <3>3. ASSUME NEW f \in Files, RetryFailed(f) PROVE TypeOK'
      BY <3>3 DEF RetryFailed, Removed, RemovalFails
    <3> QED
      BY <2>7, <3>1, <3>2, <3>3 DEF Cleanup
  <2>8. CASE JobDies
    BY <2>8 DEF JobDies, Abort
  <2>9. CASE UNCHANGED vars
    BY <2>9 DEF vars
  <2> QED
    BY <2>1, <2>2, <2>3, <2>4, <2>5, <2>6, <2>7, <2>8, <2>9 DEF Next
<1> QED
  BY <1>1, <1>2, PTL DEF Spec

\* An upload changes nothing that a deletion or the job relies on.
LEMMA UploadKeeps ==
  ASSUME TypeOK, StoreInv, NEW f \in Files, Upload(f)
  PROVE  StoreInv'
<1> USE DEF TypeOK, StoreInv, Settled, Mishap, TakenBack, deletions, jobs
<1>1. ASSUME NEW u \in Users, CreateFile(f, u) PROVE StoreInv'
  <2> USE <1>1 DEF CreateFile
  <2>1. UploadInv' /\ EndedInv'
    BY ConstantsAssumption DEF UploadInv, EndedInv
  <2>2. DropInv'
    BY DEF DropInv
  <2>3. JobInv'
    BY DEF JobInv
  <2> QED
    BY <2>1, <2>2, <2>3
<1>2. ASSUME up[f] = "writing", acct[owner[f]] # "gone", owner[f] \in Users,
             row' = [row EXCEPT ![f] = owner[f]],
             \/ up' = [up EXCEPT ![f] = "stored"] /\ UNCHANGED <<disk, young>>
             \/ up' = [up EXCEPT ![f] = "refused"] /\ TakenBack(f),
             UNCHANGED <<acct, failed, owner, del, deletions, jobs>>
      PROVE  StoreInv'
  <2> USE <1>2
  <2>1. UploadInv' /\ EndedInv'
    BY DEF UploadInv, EndedInv
  <2>2. DropInv'
    BY DEF DropInv
  <2>3. JobInv'
    BY DEF JobInv, UploadInv
  <2> QED
    BY <2>1, <2>2, <2>3
<1>3. ASSUME UploadFails(f) PROVE StoreInv'
  <2> USE <1>3 DEF UploadFails
  <2>1. UploadInv' /\ EndedInv'
    BY DEF UploadInv, EndedInv
  <2>2. DropInv'
    BY DEF DropInv
  <2>3. JobInv'
    BY DEF JobInv
  <2> QED
    BY <2>1, <2>2, <2>3
<1>4. up[f] # "new" => owner[f] \in Users
  BY DEF UploadInv
<1>5. ASSUME InsertRow(f) \/ InsertReplyLost(f) PROVE StoreInv'
  BY <1>2, <1>4, <1>5 DEF InsertRow, InsertReplyLost
<1> QED
  BY <1>1, <1>3, <1>5 DEF Upload

\* A delete request removes only the file it asked for.
LEMMA DeleteKeeps ==
  ASSUME TypeOK, StoreInv, NEW f \in Files, Delete(f)
  PROVE  StoreInv'
<1> USE DEF TypeOK, StoreInv, Settled, Mishap, Removed, RemovalFails,
            store, uploads, deletions, jobs
<1>1. CASE FindFile(f)
  BY <1>1 DEF FindFile, UploadInv, EndedInv, DropInv, JobInv
<1>2. CASE RemoveFile(f)
  <2> USE <1>2 DEF RemoveFile
  <2>1. UploadInv'
    BY DEF UploadInv, EndedInv
  <2>2. EndedInv' /\ DropInv'
    BY DEF EndedInv, DropInv
  <2>3. JobInv'
    BY DEF JobInv
  <2> QED
    BY <2>1, <2>2, <2>3
<1>3. CASE DeleteRow(f)
  <2> USE <1>3 DEF DeleteRow
  <2>1. UploadInv'
    BY ConstantsAssumption DEF UploadInv, EndedInv
  <2>2. EndedInv' /\ DropInv'
    BY DEF EndedInv, DropInv
  <2>3. JobInv'
    BY DEF JobInv
  <2> QED
    BY <2>1, <2>2, <2>3
<1> QED
  BY <1>1, <1>2, <1>3 DEF Delete

\* A deletion removes only files of an account that is gone.
LEMMA DeleteAccountKeeps ==
  ASSUME TypeOK, StoreInv, NEW d \in Deletions, DeleteAccount(d)
  PROVE  StoreInv'
<1> USE DEF TypeOK, StoreInv, Settled, Mishap, Removed, RemovalFails,
            store, uploads, deletions, jobs
<1>1. ASSUME NEW u \in Users, MarkDeleting(d, u) PROVE StoreInv'
  <2> USE <1>1 DEF MarkDeleting
  <2>1. UploadInv' /\ EndedInv' /\ JobInv'
    BY DEF UploadInv, EndedInv, JobInv
  <2>2. DropInv'
    BY DEF DropInv
  <2> QED
    BY <2>1, <2>2
<1>2. ASSUME NEW u \in Users, AlreadyDeleting(d, u) PROVE StoreInv'
  BY <1>2 DEF AlreadyDeleting, UploadInv, EndedInv, DropInv, JobInv
<1>3. CASE ListNames(d)
  <2> USE <1>3 DEF ListNames
  <2>1. UploadInv' /\ EndedInv' /\ JobInv'
    BY DEF UploadInv, EndedInv, JobInv
  <2>2. \A f \in Files : row[f] = victim[d] => Settled(f) /\ owner[f] = victim[d]
    BY ConstantsAssumption DEF UploadInv, DropInv
  <2>3. DropInv'
    BY <2>2 DEF DropInv
  <2> QED
    BY <2>1, <2>3
<1>4. CASE DropAccount(d)
  <2> USE <1>4 DEF DropAccount
  <2>1. UploadInv'
    BY ConstantsAssumption DEF UploadInv, DropInv
  <2>2. EndedInv' /\ JobInv'
    BY DEF EndedInv, JobInv
  <2>3. DropInv'
    BY DEF DropInv
  <2> QED
    BY <2>1, <2>2, <2>3
<1>5. CASE DeletionBreaks(d) \/ AllRemoved(d)
  BY <1>5 DEF DeletionBreaks, AllRemoved, UploadInv, EndedInv, DropInv, JobInv
<1>6. ASSUME NEW f \in Files, RemoveNamed(d, f) PROVE StoreInv'
  <2> USE <1>6 DEF RemoveNamed
  <2>1. Settled(f) /\ row[f] = None /\ acct[owner[f]] = "gone"
    BY DEF DropInv, UploadInv
  <2>2. UploadInv'
    BY <2>1 DEF UploadInv
  <2>3. EndedInv' /\ JobInv'
    BY <2>1 DEF EndedInv, JobInv
  <2>4. DropInv'
    BY DEF DropInv
  <2> QED
    BY <2>2, <2>3, <2>4
<1> QED
  BY <1>1, <1>2, <1>3, <1>4, <1>5, <1>6 DEF DeleteAccount

\* The job removes only files whose upload has ended and which have no row.
LEMMA CleanupKeeps ==
  ASSUME TypeOK, StoreInv, Cleanup
  PROVE  StoreInv'
<1> USE DEF TypeOK, StoreInv, Settled, Mishap, Removed, RemovalFails, Abort,
            store, uploads, deletions
<1>1. CASE ReadKnown \/ ReadDir \/ ScanEnds \/ JobEnds
  BY <1>1 DEF ReadKnown, ReadDir, ScanEnds, JobEnds, UploadInv, EndedInv, DropInv, JobInv
<1>2. CASE QueryDue
  BY <1>2 DEF QueryDue, UploadInv, EndedInv, DropInv, JobInv
<1>3. ASSUME NEW f \in Files, ScanEntry(f) PROVE StoreInv'
  <2> USE <1>3 DEF ScanEntry
  <2>1. f \in disk /\ Orphan(f) => row[f] = None /\ up[f] # "writing"
    BY DEF JobInv, Orphan, UploadInv
  <2>2. UploadInv'
    BY <2>1, ConstantsAssumption DEF UploadInv
  <2>3. EndedInv' /\ DropInv'
    BY DEF EndedInv, DropInv
  <2>4. JobInv'
    BY DEF JobInv
  <2> QED
    BY <2>2, <2>3, <2>4
<1>4. ASSUME NEW f \in Files, RetryFailed(f) PROVE StoreInv'
  <2> USE <1>4 DEF RetryFailed
  <2>1. Settled(f) /\ row[f] = None
    BY DEF JobInv
  <2>2. UploadInv'
    BY <2>1, ConstantsAssumption DEF UploadInv
  <2>3. EndedInv' /\ DropInv'
    BY <2>1 DEF EndedInv, DropInv
  <2>4. JobInv'
    BY DEF JobInv
  <2> QED
    BY <2>2, <2>3, <2>4
<1> QED
  BY <1>1, <1>2, <1>3, <1>4 DEF Cleanup

LEMMA StoreInvHolds == Spec => [](TypeOK /\ StoreInv)
<1>1. Init => StoreInv
  BY DEF Init, StoreInv, UploadInv, EndedInv, DropInv, JobInv, Settled
<1>2. ASSUME TypeOK, StoreInv, [Next]_vars PROVE StoreInv'
  <2> USE DEF StoreInv, Settled
  <2>1. ASSUME NEW f \in Files, GrowsOld(f) PROVE StoreInv'
    BY <1>2, <2>1 DEF GrowsOld, TypeOK, UploadInv, EndedInv, DropInv, JobInv,
                      uploads, deletions, jobs
  <2>2. ASSUME NEW f \in Files, FallsDue(f) PROVE StoreInv'
    BY <1>2, <2>2 DEF FallsDue, TypeOK, UploadInv, EndedInv, DropInv, JobInv,
                      uploads, deletions, jobs
  <2>3. ASSUME NEW u \in Users, NEW s \in {"ACTIVE", "DISABLED"}, SetUserStatus(u, s)
        PROVE  StoreInv'
    <3> USE <1>2, <2>3 DEF SetUserStatus, TypeOK, store, uploads, deletions, jobs
    <3>1. \A v \in Users : acct'[v] = "gone" <=> acct[v] = "gone"
      OBVIOUS
    <3>2. UploadInv'
      BY <3>1 DEF UploadInv
    <3>3. EndedInv' /\ JobInv'
      BY DEF EndedInv, JobInv
    <3>4. DropInv'
      BY <3>1 DEF DropInv
    <3> QED
      BY <3>2, <3>3, <3>4
  <2>4. CASE Crash
    <3> USE <1>2, <2>4 DEF Crash, Mishap, TypeOK, store, jobs
    <3>1. UploadInv'
      BY DEF UploadInv
    <3>2. EndedInv'
      BY DEF EndedInv
    <3>3. DropInv'
      BY DEF DropInv
    <3>4. JobInv'
      BY DEF JobInv
    <3> QED
      BY <3>1, <3>2, <3>3, <3>4
  <2>5. CASE JobDies
    BY <1>2, <2>5 DEF JobDies, Abort, UploadInv, EndedInv, DropInv, JobInv,
                      store, uploads, deletions
  <2>6. CASE UNCHANGED vars
    BY <1>2, <2>6 DEF vars, store, uploads, deletions, jobs, UploadInv, EndedInv, DropInv, JobInv
  <2> QED
    BY <1>2, <2>1, <2>2, <2>3, <2>4, <2>5, <2>6, UploadKeeps, DeleteKeeps,
       DeleteAccountKeeps, CleanupKeeps DEF Next
<1> QED
  BY <1>1, <1>2, TypeCorrect, PTL DEF Spec

\* A stored file stays until its owner asks to delete it or the account is gone.
THEOREM StoredFilesAreKept == Spec => []StoredFilesStay
<1>1. StoreInv => StoredFilesStay
  BY DEF StoreInv, UploadInv, StoredFilesStay
<1> QED
  BY <1>1, StoreInvHolds, PTL

\* A dropped account stays gone and owns no row.
THEOREM GoneAccountsOwnNothing == Spec => []GoneOwnsNothing
<1>1. TypeOK /\ StoreInv => GoneOwnsNothing
  BY DEF TypeOK, StoreInv, UploadInv, DropInv, GoneOwnsNothing
<1> QED
  BY <1>1, StoreInvHolds, PTL

\* Only files without a row are recorded for another removal.
THEOREM FailuresNameOrphans == Spec => []FailuresAreOrphans
<1>1. StoreInv => FailuresAreOrphans
  BY DEF StoreInv, EndedInv, Settled, FailuresAreOrphans
<1> QED
  BY <1>1, StoreInvHolds, PTL

\* The rows of files, of failures and of accounts agree.
THEOREM RowsStayInAgreement == Spec => []RowsAgree
<1>1. GoneOwnsNothing /\ FailuresAreOrphans => RowsAgree
  BY DEF RowsAgree
<1> QED
  BY <1>1, GoneAccountsOwnNothing, FailuresNameOrphans, PTL
=============================================================================
