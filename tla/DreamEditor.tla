----------------------------- MODULE DreamEditor -----------------------------
(***************************************************************************)
(* The sheet in which a dream and its pictures are edited.  A picture is   *)
(* uploaded as soon as it is chosen, and linked when the dream is saved;   *)
(* what was uploaded and not saved, and what a save removed, the page      *)
(* deletes itself.  Uploads, saves and deletions are answered in any       *)
(* order, and act on the state of the page as it then is.                  *)
(*                                                                         *)
(* The sheet opens on a dream as the list shows it.  The list is cached:   *)
(* it shows a save only when the refetch after it has been answered.       *)
(***************************************************************************)
EXTENDS Naturals, FiniteSets

CONSTANTS
    Pictures,   \* every picture, uploaded or not
    OldPictures,\* the pictures of the dream that is there at first
    MaxPictures \* pictures of one dream

ASSUME DreamAssumption == OldPictures \subseteq Pictures /\ MaxPictures \in Nat

VARIABLES
    dreamSheet, \* the sheet in front
    dreamListed, \* the list of dreams in the cache: whether it has the dream, and its pictures
    dreamRefetch, \* request: the list is asked for
    sheetDream, \* the pictures of the dream that the sheet in front was opened with
    dreamFiles, temporary, removedFiles,
    uploadList, \* pictures listed as uploading, and as failed to upload
    uploading,  \* requests: uploads under way
    deleting,   \* requests: pictures to be deleted
    dreamSave,  \* request: the save under way, and the pictures it links
    dreamRemove, \* request: the deletion of the dream, or of a goal
    pictures,   \* server: the pictures that are stored
    orphans,    \* history: pictures of dreams that were deleted
    linked,     \* server: pictures of the dream
    dreamExists, \* server: the dream is there
    dreamDisturbed \* history: a step met a save or an upload it was not meant to, or a dream that is stale

dreamVars == <<dreamSheet, dreamListed, dreamRefetch, sheetDream, dreamFiles, temporary, removedFiles, uploadList, uploading, deleting,
               dreamSave, dreamRemove, pictures, orphans, linked, dreamExists, dreamDisturbed>>
dreamList == <<dreamListed, dreamRefetch>>
dreamForm == <<sheetDream, dreamFiles, temporary, removedFiles, uploadList>>
dreamServer == <<pictures, orphans, linked, dreamExists>>

\* What the server answers when it is asked for the list.
DreamAsStored == [there |-> dreamExists, files |-> linked]

NoDreamSave == [phase |-> "idle", files |-> {}]
NoUploads == [busy |-> {}, failed |-> {}]
DreamSaving == dreamSave.phase # "idle"
DreamEditing == dreamSheet \in {"create", "edit"}
DreamUntouched == dreamDisturbed' = (dreamDisturbed \/ DreamSaving)

DreamInit ==
    /\ dreamSheet = "none" /\ sheetDream = {}
    /\ dreamListed = [there |-> TRUE, files |-> OldPictures] /\ dreamRefetch = FALSE
    /\ dreamFiles = {} /\ temporary = {} /\ removedFiles = {} /\ uploadList = NoUploads
    /\ uploading = {} /\ deleting = {} /\ dreamSave = NoDreamSave /\ dreamRemove = "none"
    /\ pictures = OldPictures /\ orphans = {} /\ linked = OldPictures /\ dreamExists = TRUE
    /\ dreamDisturbed = FALSE

DreamOpens(sheet, files) ==
    /\ dreamSheet' = sheet /\ dreamFiles' = files
    /\ temporary' = {} /\ removedFiles' = {} /\ uploadList' = NoUploads
    /\ UNCHANGED <<dreamList, sheetDream, uploading, deleting, dreamSave, dreamRemove, dreamServer>>

\* Bound: one dream at a time.
OpenCreate ==
    /\ dreamSheet = "none" /\ ~dreamExists /\ ~dreamListed.there
    /\ DreamOpens("create", {})
    /\ DreamUntouched

\* The dream is the one the detail was opened with, whatever the list and the
\* server have by now.  A dream that was saved since is not what is edited: a save
\* would unlink its new pictures, which nothing deletes.
OpenEdit ==
    /\ dreamSheet = "detail"
    /\ DreamOpens("edit", sheetDream)
    /\ dreamDisturbed' = (dreamDisturbed \/ DreamSaving \/ [there |-> TRUE, files |-> sheetDream] # DreamAsStored)

OpenDetail ==
    /\ dreamSheet = "none" /\ dreamListed.there
    /\ dreamSheet' = "detail" /\ sheetDream' = dreamListed.files
    /\ UNCHANGED <<dreamList, dreamFiles, temporary, removedFiles, uploadList, uploading, deleting,
                   dreamSave, dreamRemove, dreamServer, dreamDisturbed>>

\* The page mounts, the reader comes back to the tab, or asks again.
RefetchDreams ==
    /\ ~dreamRefetch
    /\ dreamRefetch' = TRUE
    /\ UNCHANGED <<dreamSheet, dreamListed, dreamForm, uploading, deleting, dreamSave, dreamRemove,
                   dreamServer, dreamDisturbed>>

\* The list is answered, and the sheet in front keeps its dream; or the request
\* fails, and the list stays.  (The list is read when it is answered: until a save
\* is told, and the request made anew, nobody sees the difference.)
DreamsAnswered ==
    /\ dreamRefetch
    /\ dreamRefetch' = FALSE
    /\ dreamListed' \in {DreamAsStored, dreamListed}
    /\ UNCHANGED <<dreamSheet, dreamForm, uploading, deleting, dreamSave, dreamRemove,
                   dreamServer, dreamDisturbed>>

\* Variant: the pictures are forgotten, and not deleted.
ForgetsFiles(files) == temporary' = temporary \ files /\ UNCHANGED deleting

\* cleanupTemporaryDreamFiles
CleansUpFiles(files) ==
    /\ temporary' = temporary \ files
    /\ deleting' = deleting \cup files

\* closeDreamSheet, which cleans up
DreamCloses ==
    /\ CleansUpFiles(temporary)
    /\ dreamSheet' = "none" /\ sheetDream' = {} /\ removedFiles' = {} /\ uploadList' = NoUploads
    /\ UNCHANGED <<dreamFiles, uploading>>
    /\ dreamDisturbed' = (dreamDisturbed \/ DreamSaving \/ uploadList.busy # {})

CloseDream ==
    /\ dreamSheet # "none" /\ DreamCloses
    /\ UNCHANGED <<dreamList, dreamSave, dreamRemove, dreamServer>>

ListedFiles == Cardinality(dreamFiles) + Cardinality(uploadList.busy) + Cardinality(uploadList.failed)
KnownPictures == pictures \cup uploading \cup uploadList.failed \cup deleting \cup dreamFiles \cup OldPictures

\* selectDreamFiles: all of the pictures chosen, or none
SelectFiles ==
    /\ DreamEditing /\ Cardinality(dreamFiles) < MaxPictures
    /\ \E chosen \in SUBSET (Pictures \ KnownPictures) \ {{}} :
        /\ ListedFiles + Cardinality(chosen) <= MaxPictures
        /\ uploadList' = [uploadList EXCEPT !.busy = @ \cup chosen]
        /\ uploading' = uploading \cup chosen
    /\ UNCHANGED <<dreamSheet, dreamList, sheetDream, dreamFiles, temporary, removedFiles, deleting,
                   dreamSave, dreamRemove, dreamServer>>
    /\ DreamUntouched

RetryUpload(p) ==
    /\ DreamEditing /\ p \in uploadList.failed
    /\ uploadList' = [busy |-> uploadList.busy \cup {p}, failed |-> uploadList.failed \ {p}]
    /\ uploading' = uploading \cup {p}
    /\ UNCHANGED <<dreamSheet, dreamList, sheetDream, dreamFiles, temporary, removedFiles, deleting,
                   dreamSave, dreamRemove, dreamServer>>
    /\ DreamUntouched

\* The answer of an upload, whatever sheet is in front by now
Uploaded(p) ==
    /\ p \in uploading
    /\ uploading' = uploading \ {p} /\ pictures' = pictures \cup {p}
    /\ dreamFiles' = dreamFiles \cup {p} /\ temporary' = temporary \cup {p}
    /\ uploadList' = [uploadList EXCEPT !.busy = @ \ {p}]
    /\ dreamDisturbed' = (dreamDisturbed \/ DreamSaving \/ p \notin uploadList.busy)
    /\ UNCHANGED <<dreamSheet, dreamList, sheetDream, removedFiles, deleting, dreamSave, dreamRemove,
                   orphans, linked, dreamExists>>

UploadFails(p) ==
    /\ p \in uploading
    /\ uploading' = uploading \ {p}
    /\ uploadList' = IF p \in uploadList.busy
                  THEN [busy |-> uploadList.busy \ {p}, failed |-> uploadList.failed \cup {p}]
                  ELSE uploadList
    /\ UNCHANGED <<dreamSheet, dreamList, sheetDream, dreamFiles, temporary, removedFiles, deleting,
                   dreamSave, dreamRemove, dreamServer, dreamDisturbed>>

\* removeDreamFile: an unsaved picture is deleted, a saved one when the dream is saved.
RemoveFile(p) ==
    /\ DreamEditing /\ p \in dreamFiles
    /\ dreamFiles' = dreamFiles \ {p}
    /\ IF p \in temporary THEN CleansUpFiles({p}) /\ UNCHANGED removedFiles
       ELSE removedFiles' = removedFiles \cup ({p} \cap sheetDream) /\ UNCHANGED <<temporary, deleting>>
    /\ UNCHANGED <<dreamSheet, dreamList, sheetDream, uploadList, uploading, dreamSave, dreamRemove, dreamServer>>
    /\ DreamUntouched

SaveDream ==
    /\ DreamEditing /\ ~DreamSaving
    /\ uploadList.busy = {} /\ Cardinality(dreamFiles) <= MaxPictures
    /\ dreamSave' = [phase |-> "sent", files |-> dreamFiles]
    /\ UNCHANGED <<dreamSheet, dreamList, dreamForm, uploading, deleting, dreamRemove, dreamServer, dreamDisturbed>>

\* A dream that is edited must be there, and so must every picture it names: the
\* links are replaced by these.
ServeDream ==
    /\ dreamSave.phase = "sent"
    /\ IF (dreamExists \/ dreamSheet = "create") /\ dreamSave.files \subseteq pictures
       THEN /\ linked' = dreamSave.files /\ dreamExists' = TRUE
            /\ dreamSave' = [dreamSave EXCEPT !.phase = "saved"]
       ELSE /\ dreamSave' = [dreamSave EXCEPT !.phase = "refused"]
            /\ UNCHANGED <<linked, dreamExists>>
    /\ UNCHANGED <<dreamSheet, dreamList, dreamForm, uploading, deleting, dreamRemove, pictures, orphans,
                   dreamDisturbed>>

\* onSuccess: what was removed is deleted, what was uploaded is the dream's, and
\* the list is asked for anew.
DreamSaved ==
    /\ dreamSave.phase = "saved"
    /\ deleting' = deleting \cup removedFiles \cup (temporary \ dreamFiles)
    /\ temporary' = {} /\ removedFiles' = {} /\ uploadList' = NoUploads
    /\ dreamSheet' = "none" /\ sheetDream' = {} /\ dreamSave' = NoDreamSave
    /\ dreamRefetch' = TRUE
    /\ dreamDisturbed' = (dreamDisturbed \/ uploadList.busy # {})
    /\ UNCHANGED <<dreamListed, dreamFiles, uploading, dreamRemove, dreamServer>>

\* The sheet stays as it is; an answer that was lost looks the same.
DreamFails ==
    /\ DreamSaving
    /\ dreamSave' = NoDreamSave
    /\ dreamDisturbed' = (dreamDisturbed \/ dreamSave.phase = "saved")
    /\ UNCHANGED <<dreamSheet, dreamList, dreamForm, uploading, deleting, dreamRemove, dreamServer>>

\* A picture is deleted, with its links; failures are not looked at.
PictureDeleted(p) ==
    /\ p \in deleting
    /\ deleting' = deleting \ {p}
    /\ \/ pictures' = pictures \ {p} /\ linked' = linked \ {p} /\ UNCHANGED dreamDisturbed
       \/ dreamDisturbed' = TRUE /\ UNCHANGED <<pictures, linked>>
    /\ UNCHANGED <<dreamSheet, dreamList, dreamForm, uploading, dreamSave, dreamRemove, orphans, dreamExists>>

\* The dream is deleted from its card or its detail; a goal, from another dialog.
AskDreamRemove ==
    /\ dreamRemove = "none"
    /\ \/ dreamRemove' = "dream" /\ (dreamSheet = "detail" \/ (dreamSheet = "none" /\ dreamListed.there))
       \/ dreamRemove' = "goal" /\ dreamSheet = "none"
    /\ UNCHANGED <<dreamSheet, dreamList, dreamForm, uploading, deleting, dreamSave, dreamServer, dreamDisturbed>>

\* onSuccess closes both sheets, and asks for the list anew.  The pictures of a
\* dream stay on the server.
DreamDeleted ==
    /\ dreamRemove # "none"
    /\ IF dreamRemove = "dream" THEN dreamExists' = FALSE /\ linked' = {} /\ orphans' = orphans \cup linked
       ELSE UNCHANGED <<dreamExists, linked, orphans>>
    /\ DreamCloses
    /\ dreamRemove' = "none" /\ dreamRefetch' = TRUE
    /\ UNCHANGED <<dreamListed, dreamSave, pictures>>

DreamRemoveFails ==
    /\ dreamRemove # "none"
    /\ dreamRemove' = "none"
    /\ UNCHANGED <<dreamSheet, dreamList, dreamForm, uploading, deleting, dreamSave, dreamServer, dreamDisturbed>>

\* Leaving the page forgets the sheet, and cleans nothing up.
LeaveDreams ==
    /\ dreamSheet # "none"
    /\ dreamSheet' = "none" /\ sheetDream' = {} /\ dreamFiles' = {}
    /\ temporary' = {} /\ removedFiles' = {} /\ uploadList' = NoUploads
    /\ UNCHANGED <<dreamList, uploading, deleting, dreamSave, dreamRemove, dreamServer>>
    /\ dreamDisturbed' = (dreamDisturbed \/ DreamSaving \/ dreamRemove # "none"
                           \/ temporary \cup uploading # {})

DreamMoves ==
    \/ LeaveDreams
    \/ OpenCreate \/ OpenEdit \/ OpenDetail \/ CloseDream \/ RefetchDreams \/ DreamsAnswered
    \/ SelectFiles \/ SaveDream \/ ServeDream \/ DreamSaved \/ DreamFails
    \/ AskDreamRemove \/ DreamDeleted \/ DreamRemoveFails
    \/ \E p \in Pictures : RetryUpload(p) \/ Uploaded(p) \/ UploadFails(p) \/ RemoveFile(p)
                           \/ PictureDeleted(p)

\* Bound: a disturbed sheet is not followed any further.
DreamNext ==
    \/ ~dreamDisturbed /\ DreamMoves
    \/ dreamDisturbed /\ UNCHANGED dreamVars

DreamSpec == DreamInit /\ [][DreamNext]_dreamVars

-----------------------------------------------------------------------------
(* Properties                                                              *)

\* Nothing is under way, and no sheet is in front.
DreamAtEase == dreamSheet = "none" /\ ~DreamSaving /\ dreamRemove = "none" /\ uploading \cup deleting = {}

\* Between two sheets the pictures that are stored are those of the dream:
\* whatever was chosen, failed, retried, removed, cancelled and saved, no
\* picture of a saved dream is deleted and none is left that no dream shows.
\* (Excepted are the pictures of a dream that is itself deleted, which stay,
\* and what dreamDisturbed lists: a sheet closed while its save is under way, an
\* answer or a deletion that is lost, and an editor opened on a dream that the list
\* does not show as it is stored.)
PicturesAreAccounted == DreamAtEase /\ ~dreamDisturbed /\ dreamExists => pictures = linked \cup orphans
=============================================================================
