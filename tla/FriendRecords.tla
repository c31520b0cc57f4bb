---------------------------- MODULE FriendRecords ----------------------------
(***************************************************************************)
(* The tab of the friend records in the communication tools: a filtered    *)
(* and paged list, and the dialogs of a record and of its progress.  The   *)
(* filters do not return to the first page, and the answers of a save and  *)
(* of a progress update name a key that no query has, so that only a       *)
(* deletion fetches the list again.                                        *)
(***************************************************************************)
EXTENDS Naturals, FiniteSets, QueryCache

CONSTANTS
    Friends, Wanted, \* records, and those that the words and filters match
    NoFriend,
    FriendPageSize,  \* page_size of the server
    MaxWritten       \* bound: changes served; one is under way at a time

ASSUME FriendAssumption ==
    /\ IsFiniteSet(Friends) /\ Wanted \subseteq Friends /\ NoFriend \notin Friends
    /\ FriendPageSize \in Nat \ {0} /\ MaxWritten \in Nat

FriendPages == 1..(Cardinality(Friends) \div FriendPageSize)  \* bound
Wants == [q : BOOLEAN, archived : BOOLEAN, page : FriendPages]
FriendLists == [page : FriendPages, found : SUBSET Friends]

ClosedDialog == [on |-> NoFriend, shown |-> FALSE, archived |-> FALSE, filled |-> FALSE]
Asleep == [kind |-> "none", phase |-> "idle", on |-> NoFriend, archived |-> FALSE, filled |-> FALSE]

VARIABLES
    friendRows,     \* server: which records exist, and which are archived
    wants,          \* words, platform, account and archive filters, and the page
    friendList,     \* the query under the key of the filters
    friendDialog,   \* a new record, or the copy of a listed one
    progressDialog, \* the record whose progress is updated
    writing,        \* the mutation under way
    written,        \* bound: changes served
    off,            \* history: the page was not chosen on the list as it is
    behind,         \* history: a save was served since the list was read
    lost            \* history: an answer was lost, or joined a fetch under way

friendVars ==
    <<friendRows, wants, friendList, friendDialog, progressDialog, writing, written, off,
      behind, lost>>

FriendTypeOK ==
    /\ friendRows \in [Friends -> {"absent", "open", "archived"}]
    /\ wants \in Wants /\ friendList \in Query(FriendLists)
    /\ friendDialog \in [on : Friends \cup {NoFriend}, shown : BOOLEAN, archived : BOOLEAN,
                         filled : BOOLEAN]
    /\ progressDialog \in Friends \cup {NoFriend}
    /\ writing \in [kind : {"none", "create", "save", "progress", "delete"},
                    phase : {"idle", "sent", "done", "failed"}, on : Friends \cup {NoFriend},
                    archived : BOOLEAN, filled : BOOLEAN]
    /\ written \in 0..MaxWritten /\ off \in BOOLEAN /\ behind \in BOOLEAN /\ lost \in BOOLEAN

\* ListFriends
ListedFriends(w) ==
    {f \in Friends :
        friendRows[f] = (IF w.archived THEN "archived" ELSE "open") /\ (w.q => f \in Wanted)}

\* total of an answer, and the records that its page may show
TotalListed(list) == Cardinality(list.found)
NothingListed(list) == (list.page - 1) * FriendPageSize >= TotalListed(list)
FriendsOnPage(list) == IF NothingListed(list) THEN {} ELSE list.found

FriendInit ==
    /\ friendRows = [f \in Friends |-> "open"]
    /\ wants = [q |-> FALSE, archived |-> FALSE, page |-> 1]
    /\ friendList = Started(Blank)
    /\ friendDialog = ClosedDialog /\ progressDialog = NoFriend
    /\ writing = Asleep /\ written = 0
    /\ off = FALSE /\ behind = FALSE /\ lost = FALSE

NoFriendDialog == ~friendDialog.shown /\ progressDialog = NoFriend

dialogVars == <<friendDialog, progressDialog>>

-----------------------------------------------------------------------------
(* The list: FriendTab                                                     *)

ReadFriends ==
    /\ MayRead(friendList)
    /\ friendList' = ReadAs(friendList, [page |-> wants.page, found |-> ListedFriends(wants)])
    /\ behind' = FALSE
    /\ UNCHANGED <<friendRows, wants, dialogVars, writing, written, off, lost>>

AnswerFriends ==
    /\ \/ MayAnswer(friendList) /\ friendList' = Answered(friendList)
       \/ friendList.busy /\ friendList' = Failed(friendList)
       \/ friendList.failed /\ friendList' = Started(friendList)
    /\ UNCHANGED <<friendRows, wants, dialogVars, writing, written, off, behind, lost>>

\* Another key shows what the cache still has of it, from any earlier time.
WantsOthers(w) ==
    /\ NoFriendDialog /\ w # wants
    /\ wants' = w
    /\ \E old \in {NoData} \cup {list \in FriendLists : list.page = w.page} :
        friendList' = Started([Blank EXCEPT !.data = old])
    /\ UNCHANGED <<friendRows, dialogVars, writing, written, behind, lost>>

\* setQ, setFriendPlatform and setFriendAccount, and setArchived
FilterFriends ==
    /\ \E q \in BOOLEAN, archived \in BOOLEAN :
        WantsOthers([wants EXCEPT !.q = q, !.archived = archived])
    /\ off' = (wants.page > 1)

SetFriendPage ==
    /\ IsShown(friendList) /\ ~NothingListed(friendList.data)
    /\ LET list == friendList.data
       IN \E p \in FriendPages :
            /\ \/ p = list.page + 1 /\ list.page * FriendPageSize < TotalListed(list)
               \/ p = list.page - 1
            /\ WantsOthers([wants EXCEPT !.page = p])
            /\ off' = (p > 1 /\ (off \/ friendList.busy \/ behind \/ writing # Asleep))

-----------------------------------------------------------------------------
(* The dialogs                                                             *)

\* The buttons and the menu of a row: edit, and archive or restore, which
\* opens the same dialog with the other state.
OpenFriendDialog ==
    /\ NoFriendDialog
    /\ \/ friendDialog' = [ClosedDialog EXCEPT !.shown = TRUE]
       \/ /\ IsShown(friendList)
          /\ \E f \in FriendsOnPage(friendList.data), archived \in BOOLEAN :
                friendDialog' = [on |-> f, shown |-> TRUE, archived |-> archived, filled |-> TRUE]
    /\ UNCHANGED <<friendRows, wants, friendList, progressDialog, writing, written, off, behind, lost>>

\* Typing, or the copy of the latest record that the query of a new dialog
\* has found, completes a new record; the copy is never archived.
FillFriend ==
    /\ friendDialog.shown
    /\ \E archived \in BOOLEAN :
        friendDialog' = [friendDialog EXCEPT !.filled = TRUE, !.archived = archived]
    /\ UNCHANGED <<friendRows, wants, friendList, progressDialog, writing, written, off, behind, lost>>

OpenProgressDialog ==
    /\ NoFriendDialog /\ IsShown(friendList)
    /\ progressDialog' \in FriendsOnPage(friendList.data)
    /\ UNCHANGED <<friendRows, wants, friendList, friendDialog, writing, written, off,
                   behind, lost>>

CloseFriendDialogs ==
    /\ ~NoFriendDialog
    /\ friendDialog' = ClosedDialog /\ progressDialog' = NoFriend
    /\ UNCHANGED <<friendRows, wants, friendList, writing, written, off, behind, lost>>

-----------------------------------------------------------------------------
(* The changes                                                             *)

Writes(kind, f, archived, filled) ==
    /\ writing = Asleep /\ written < MaxWritten
    /\ writing' = [kind |-> kind, phase |-> "sent", on |-> f, archived |-> archived, filled |-> filled]
    /\ UNCHANGED <<friendRows, wants, friendList, dialogVars, written, off, behind, lost>>

\* FriendDialog sends its form, complete or not.
SaveFriend ==
    /\ friendDialog.shown
    /\ \/ Writes("save", friendDialog.on, friendDialog.archived, friendDialog.filled)
          /\ friendDialog.on # NoFriend
       \/ \E f \in Friends :
            /\ friendDialog.on = NoFriend /\ friendRows[f] = "absent"
            /\ Writes("create", f, friendDialog.archived, friendDialog.filled)

\* ProgressDialog
SaveProgress == progressDialog # NoFriend /\ Writes("progress", progressDialog, FALSE, TRUE)

\* of a listed record, which may be gone, once it is confirmed
DeleteFriend ==
    /\ NoFriendDialog /\ IsShown(friendList)
    /\ \E f \in FriendsOnPage(friendList.data) : Writes("delete", f, FALSE, TRUE)

\* An incomplete record, or one that is gone, is refused.
Taken(f) == writing.filled /\ (writing.kind # "create" => friendRows[f] # "absent")

\* A new record is open, whatever the dialog says.
RecordAfter(was) ==
    CASE writing.kind = "create" -> "open"
      [] writing.kind = "save" -> IF writing.archived THEN "archived" ELSE "open"
      [] writing.kind = "delete" -> "absent"
      [] OTHER -> was

ServeFriend ==
    /\ writing.phase = "sent"
    /\ IF Taken(writing.on)
       THEN /\ friendRows' = [friendRows EXCEPT ![writing.on] = RecordAfter(@)]
            /\ writing' = [writing EXCEPT !.phase = "done"]
            /\ written' = written + 1
            /\ behind' = (behind \/ writing.kind # "delete")
            /\ off' = (off \/ wants.page > 1)
       ELSE /\ writing' = [writing EXCEPT !.phase = "failed"]
            /\ UNCHANGED <<friendRows, written, off, behind>>
    /\ UNCHANGED <<wants, friendList, dialogVars, lost>>

LoseFriend ==
    /\ writing.phase \in {"sent", "done"}
    /\ writing' = [writing EXCEPT !.phase = "failed"]
    /\ lost' = (lost \/ writing.phase = "done")
    /\ UNCHANGED <<friendRows, wants, friendList, dialogVars, written, off, behind>>

\* onSaved of either dialog: a notice, and the dialog that is open closes.
FriendSaved ==
    /\ writing.phase = "done" /\ writing.kind # "delete"
    /\ writing' = Asleep
    /\ IF writing.kind # "progress"
       THEN friendDialog' = ClosedDialog /\ UNCHANGED progressDialog
       ELSE progressDialog' = NoFriend /\ UNCHANGED friendDialog
    /\ UNCHANGED <<friendRows, wants, friendList, written, off, behind, lost>>

\* The deletion invalidates every key of the communication tools.
FriendDeleted ==
    /\ writing.phase = "done" /\ writing.kind = "delete"
    /\ writing' = Asleep
    /\ friendList' = Restarted(friendList)
    /\ lost' = (lost \/ (friendList.data = NoData /\ friendList.seen # NoData))
    /\ UNCHANGED <<friendRows, wants, dialogVars, written, off, behind>>

FriendRefused ==
    /\ writing.phase = "failed"
    /\ writing' = Asleep
    /\ UNCHANGED <<friendRows, wants, friendList, dialogVars, written, off, behind, lost>>

FriendMoves ==
    \/ ReadFriends \/ AnswerFriends \/ FilterFriends \/ SetFriendPage
    \/ OpenFriendDialog \/ FillFriend \/ OpenProgressDialog \/ CloseFriendDialogs
    \/ SaveFriend \/ SaveProgress \/ DeleteFriend
    \/ ServeFriend \/ LoseFriend \/ FriendSaved \/ FriendDeleted \/ FriendRefused

\* Bound: a list that was left behind by a deletion is not followed further.
FriendNext == (~lost /\ FriendMoves) \/ (lost /\ UNCHANGED friendVars)

FriendSpec == FriendInit /\ [][FriendNext]_friendVars

-----------------------------------------------------------------------------
(* Properties                                                              *)

\* Whatever was filtered, turned and deleted, the list that has been read
\* since the last save was taken from exactly the records its filters select; and an
\* empty list means that there are none, unless its page was turned before
\* its filters were changed or its rows were.
FriendsAreFound ==
    ~lost /\ ~behind /\ AtRest(friendList) /\ IsShown(friendList) /\ writing = Asleep =>
        /\ friendList.data.found = ListedFriends(wants)
        /\ ~off /\ NothingListed(friendList.data) => ListedFriends(wants) = {}
=============================================================================
