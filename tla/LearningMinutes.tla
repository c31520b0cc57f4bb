--------------------------- MODULE LearningMinutes ---------------------------
(***************************************************************************)
(* One day of one user: the worklog, which is saved together with the      *)
(* day's minutes of reading and of audio, and the minutes that learning    *)
(* sessions give to items of the knowledge base.  Saving and deleting the  *)
(* day are transactions at READ COMMITTED; the requests that write a total *)
(* or a session alone are statements of their own.  The turnover that a    *)
(* worklog may carry is one more row of its transaction, and is left out.  *)
(***************************************************************************)
EXTENDS Naturals, FiniteSets

CONSTANTS
    Clients,    \* who sends requests, one after the other
    NoRow,      \* there is no such row
    MaxMinutes, \* bound: minutes of a total and of the sessions together
    Recorded    \* bound: types of which sessions are recorded

Types == {"READING", "AUDIO"}
Day == "worklog"
Keys == Types \cup {Day}
Minutes == 0..MaxMinutes
Totals == [Types -> Minutes]

ASSUME MinutesAssumption ==
    /\ NoRow \notin Minutes \cup Totals
    /\ MaxMinutes \in Nat
    /\ Recorded \subseteq Types

VARIABLES
    rows,      \* the worklog, by the totals it was saved with, and the DAILY_UNALLOCATED rows
    items,     \* minutes of the sessions with source ITEM
    stage,     \* the statement each request is about to run
    asks,      \* what it asks, the types left to write, and the one at hand
    writes,    \* what its transaction has written; those rows are locked
    late,      \* history: types whose items grew after the request compared them
    overtaken, \* history: requests during which another one has changed the day
    loose,     \* history: a total was written without the worklog
    outgrown   \* history: types whose items grew after the total was compared with them

learningVars == <<rows, items, stage, asks, writes, late, overtaken, loose, outgrown>>

Ask(kind, totals) ==
    [kind |-> kind, totals |-> totals, left |-> Types, type |-> "READING", missed |-> FALSE]
Nothing == Ask("save", [type \in Types |-> 0])

LearningTypeOK ==
    /\ DOMAIN rows = Keys /\ rows[Day] \in {NoRow} \cup Totals
    /\ \A type \in Types : rows[type] \in {NoRow} \cup Minutes
    /\ items \in [Types -> Minutes]
    /\ stage \in [Clients -> {"idle", "day", "next", "write", "total"}]
    /\ asks \in [Clients -> [kind : {"save", "delete", "total"}, totals : Totals,
                                left : SUBSET Types, type : Types, missed : BOOLEAN]]
    /\ \A c \in Clients : DOMAIN writes[c] \subseteq Keys
    /\ late \in [Clients -> SUBSET Types] /\ overtaken \subseteq Clients
    /\ loose \in BOOLEAN /\ outgrown \subseteq Types

LearningInit ==
    /\ rows = [key \in Keys |-> NoRow]
    /\ items = [type \in Types |-> 0]
    /\ stage = [c \in Clients |-> "idle"]
    /\ asks = [c \in Clients |-> Nothing]
    /\ writes = [c \in Clients |-> <<>>]
    /\ late = [c \in Clients |-> {}] /\ overtaken = {}
    /\ loose = FALSE /\ outgrown = {}

\* Variant: nothing makes two saves of one worklog wait for each other.
LockedTotals(c, key) == \E d \in Clients \ {c} : key \in Types /\ key \in DOMAIN writes[d]

Locked(c, key) == \E d \in Clients \ {c} : key \in DOMAIN writes[d]
Busy(c) == {d \in Clients \ {c} : stage[d] # "idle"}

\* Rows after a write of some of them.
Over(written, before) ==
    [key \in DOMAIN written \cup DOMAIN before |->
        IF key \in DOMAIN written THEN written[key] ELSE before[key]]

\* A statement of a transaction: what it writes is seen once it commits.
Puts(c, key, value) == writes' = [writes EXCEPT ![c] = Over([k \in {key} |-> value], @)]
Goes(c, place) == stage' = [stage EXCEPT ![c] = place]

\* A DELETE waits only for a row that is there to be seen.
Takes(c, key) ==
    IF rows[key] = NoRow THEN UNCHANGED writes
    ELSE ~Locked(c, key) /\ Puts(c, key, NoRow)

Begin(c, asked, place) ==
    /\ stage[c] = "idle"
    /\ asks' = [asks EXCEPT ![c] = asked]
    /\ Goes(c, place)
    /\ UNCHANGED <<rows, items, writes, late, overtaken, loose, outgrown>>

Ends(c) ==
    /\ Goes(c, "idle")
    /\ asks' = [asks EXCEPT ![c] = Nothing]
    /\ late' = [late EXCEPT ![c] = {}]

\* The transaction is rolled back: a statement fails or breaks a deadlock,
\* the client leaves, or a test refuses the request.
GivesUp(c) ==
    /\ Ends(c)
    /\ writes' = [writes EXCEPT ![c] = <<>>]
    /\ overtaken' = overtaken \ {c}
    /\ UNCHANGED <<rows, items, loose, outgrown>>

Aborts(c) == stage[c] # "idle" /\ GivesUp(c)

-----------------------------------------------------------------------------
(* daily: Service.SaveWorklog and Service.DeleteWorklog                    *)

SaveWorklog(c) == \E totals \in Totals : Begin(c, Ask("save", totals), "day")

DeleteWorklog(c) == Begin(c, Ask("delete", Nothing.totals), "day")

\* INSERT ... ON CONFLICT DO UPDATE waits for whoever else writes the row.
UpsertWorklog(c) ==
    /\ stage[c] = "day" /\ asks[c].kind = "save" /\ ~Locked(c, Day)
    /\ Puts(c, Day, asks[c].totals)
    /\ Goes(c, "next")
    /\ UNCHANGED <<rows, items, asks, late, overtaken, loose, outgrown>>

\* One type after the other, in the order of a map; "daily learning minutes
\* cannot be less than item learning minutes".
CompareItems(c) ==
    /\ stage[c] = "next" /\ asks[c].kind = "save"
    /\ \E type \in asks[c].left :
        IF asks[c].totals[type] < items[type] THEN GivesUp(c)
        ELSE /\ asks' = [asks EXCEPT ![c].type = type]
             /\ Goes(c, "write")
             /\ UNCHANGED <<rows, items, writes, late, overtaken, loose, outgrown>>

\* No minutes, no row.
WriteMinutes(c) ==
    /\ stage[c] = "write"
    /\ LET type == asks[c].type
           minutes == asks[c].totals[type]
       IN /\ IF minutes = 0 THEN Takes(c, type)
             ELSE ~Locked(c, type) /\ Puts(c, type, minutes)
          /\ asks' = [asks EXCEPT ![c].left = @ \ {type}, ![c].type = "READING"]
    /\ Goes(c, "next")
    /\ UNCHANGED <<rows, items, late, overtaken, loose, outgrown>>

\* A worklog that is only being saved for the first time is not seen.
DropWorklog(c) ==
    /\ stage[c] = "day" /\ asks[c].kind = "delete"
    /\ Takes(c, Day)
    /\ asks' = [asks EXCEPT ![c].missed = (rows[Day] = NoRow)]
    /\ Goes(c, "next")
    /\ UNCHANGED <<rows, items, late, overtaken, loose, outgrown>>

DropMinutes(c) ==
    /\ stage[c] = "next" /\ asks[c].kind = "delete" /\ asks[c].left # {}
    /\ LET type == IF "READING" \in asks[c].left THEN "READING" ELSE "AUDIO"
       IN /\ Takes(c, type)
          /\ asks' = [asks EXCEPT ![c].left = @ \ {type}]
          /\ loose' = (loose \/ (asks[c].missed /\ rows[type] # NoRow))
    /\ UNCHANGED <<rows, items, stage, late, overtaken, outgrown>>

Commit(c) ==
    /\ stage[c] = "next" /\ asks[c].left = {}
    /\ rows' = Over(writes[c], rows)
    /\ writes' = [writes EXCEPT ![c] = <<>>]
    /\ outgrown' = (outgrown \ DOMAIN writes[c]) \cup (late[c] \cap DOMAIN writes[c])
    /\ loose' = (loose /\ (c \in overtaken \/ asks[c].missed))
    /\ overtaken' = Busy(c)
    /\ Ends(c)
    /\ UNCHANGED items

-----------------------------------------------------------------------------
(* knowledge: Service.SaveSession, DeleteSession and DeleteItem            *)

\* A total alone: it is compared with the items first ...
SaveTotal(c) ==
    \E type \in Types : \E minutes \in items[type]..MaxMinutes :
        Begin(c, [Ask("total", [Nothing.totals EXCEPT ![type] = minutes]) EXCEPT !.type = type],
              "total")

\* ... and then written, by a second statement.
WriteTotal(c) ==
    /\ stage[c] = "total" /\ ~Locked(c, asks[c].type)
    /\ rows' = [rows EXCEPT ![asks[c].type] = asks[c].totals[asks[c].type]]
    /\ outgrown' = (outgrown \ {asks[c].type}) \cup (late[c] \cap {asks[c].type})
    /\ loose' = TRUE /\ overtaken' = Busy(c)
    /\ Ends(c)
    /\ UNCHANGED <<items, writes>>

\* The items were compared with a total that is not yet seen.
Compared(c, type) ==
    \/ stage[c] \in {"write", "total"} /\ asks[c].type = type
    \/ type \in DOMAIN writes[c]

\* A session of an item is compared with nothing.
RecordSession(type) ==
    /\ \E minutes \in 1..MaxMinutes :
        /\ items[type] + minutes <= MaxMinutes
        /\ items' = [items EXCEPT ![type] = @ + minutes]
    /\ late' = [c \in Clients |-> IF Compared(c, type) THEN late[c] \cup {type} ELSE late[c]]
    /\ outgrown' = outgrown \cup {type}
    /\ UNCHANGED <<rows, stage, asks, writes, overtaken, loose>>

\* A session is deleted, or an item with all of its sessions.
ForgetSessions ==
    /\ items' \in {left \in Totals : \A type \in Types : left[type] <= items[type]}
    /\ items' # items
    /\ UNCHANGED <<rows, stage, asks, writes, late, overtaken, loose, outgrown>>

\* The row of a total is deleted as a session, by its id.
DeleteTotal(type) ==
    /\ rows[type] # NoRow /\ \A c \in Clients : type \notin DOMAIN writes[c]
    /\ rows' = [rows EXCEPT ![type] = NoRow]
    /\ loose' = TRUE /\ overtaken' = {c \in Clients : stage[c] # "idle"}
    /\ UNCHANGED <<items, stage, asks, writes, late, outgrown>>

-----------------------------------------------------------------------------
LearningNext ==
    \/ \E c \in Clients :
        \/ SaveWorklog(c) \/ UpsertWorklog(c) \/ CompareItems(c) \/ WriteMinutes(c)
        \/ DeleteWorklog(c) \/ DropWorklog(c) \/ DropMinutes(c) \/ Commit(c)
        \/ SaveTotal(c) \/ WriteTotal(c) \/ Aborts(c)
    \/ \E type \in Recorded : RecordSession(type)
    \/ \E type \in Types : DeleteTotal(type)
    \/ ForgetSessions

LearningSpec == LearningInit /\ [][LearningNext]_learningVars

-----------------------------------------------------------------------------
(* Properties                                                              *)

\* The day's minutes are those the worklog was saved with, or none, although
\* two saves and a deletion of one day may meet at any statement, unless a
\* total was written without the worklog or a deletion found no worklog yet;
\* and a total is less than the minutes of its items only if a session was
\* recorded after the two were compared.
DayIsWhole ==
    /\ ~loose => \A type \in Types :
           rows[type] = IF rows[Day] = NoRow \/ rows[Day][type] = 0 THEN NoRow ELSE rows[Day][type]
    /\ \A type \in Types \ outgrown : rows[type] # NoRow => rows[type] >= items[type]
=============================================================================
