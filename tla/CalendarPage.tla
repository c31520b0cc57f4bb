---------------------------- MODULE CalendarPage ----------------------------
(***************************************************************************)
(* The calendar page: its dialogs, and the writes they lead to.  A write   *)
(* of an event sends the whole event, built from what the page held when   *)
(* the dialog was opened or the event was dragged; a drag sends at once,   *)
(* and any number of drags may be under way.  Answers close dialogs that   *)
(* may by now be of something else.                                        *)
(*                                                                         *)
(* The events are counted by their editions: 0 before an event is created, *)
(* Gone once it is deleted.                                                *)
(***************************************************************************)
EXTENDS Naturals, FiniteSets, Sequences, QueryCache

CONSTANTS
    Singles, Repeated, \* events, without and with a recurrence
    Unborn,            \* those not created at first
    Links,             \* events that a link may name
    NoEvent,           \* no event, or a new one
    MaxSequence,       \* bound: editions of an event
    MaxCalls           \* bound: writes under way

Events == Singles \cup Repeated

ASSUME CalendarAssumption ==
    /\ Singles \cap Repeated = {} /\ Unborn \cup Links \subseteq Singles \cup Repeated
    /\ NoEvent \notin Singles \cup Repeated
    /\ MaxSequence \in Nat /\ MaxCalls \in Nat
    /\ NoData \notin [Events -> Nat]

Gone == MaxSequence + 1

VARIABLES
    agenda,     \* the query of the events in the window of calendarQueryRange
    linkedEvent,\* the event that a link names, and what its query read, until it is shown
    stack,      \* the open dialogs, the last one in front
    detail,     \* detailEvent
    editing,    \* the event that the editor saves
    editorForm, \* the form of the editor
    drag,       \* pendingChange: a drag that waits for its scope
    deleteTarget,
    calls,      \* writes under way
    schedule,   \* server: the editions of the events
    told        \* history: own writes the page was told of and must show

calendarVars == <<agenda, linkedEvent, stack, detail, editing, editorForm, drag,
                  deleteTarget, calls, schedule, told>>
dialogs == <<stack, detail, editing, editorForm, drag, deleteTarget>>
outside == <<schedule, told>>

\* an event as the page held it at some moment
Held(e, n, careful) == [event |-> e, holds |-> n, careful |-> careful, sent |-> FALSE]
NoHeld == Held(NoEvent, 0, FALSE)

NoLink == [event |-> NoEvent, seen |-> NoData]

Listed(e) == agenda.data # NoData /\ agenda.data[e] \in 1..MaxSequence

InFront(d) == stack # <<>> /\ stack[Len(stack)] = d
Bare == stack = <<>> \/ stack = <<"day">>
IsOpen(d) == \E i \in DOMAIN stack : stack[i] = d
\* A dialog closes, wherever it is; none is open twice.
Less(s, d) ==
    IF d \notin {s[i] : i \in DOMAIN s} THEN s
    ELSE LET n == CHOOSE i \in DOMAIN s : s[i] = d
         IN [i \in 1..(Len(s) - 1) |-> IF i < n THEN s[i] ELSE s[i + 1]]
CloseDialog(d) == stack' = Less(stack, d)

\* A dialog opens in front of the others.
OpenDialog(d, others) == stack' = Append(Less(others, d), d)

\* Nothing is under way, and the last fetch did not fail.
CalendarCalm == calls = {} /\ AtRest(agenda) /\ IsShown(agenda)
FromList(e) == Held(e, agenda.data[e], CalendarCalm)

CalendarInit ==
    /\ agenda = Started(Blank)
    /\ linkedEvent \in {NoLink} \cup [event : Links, seen : {NoData}]
    /\ stack = <<>> /\ detail = NoHeld /\ editing = NoEvent /\ editorForm = NoHeld
    /\ drag = NoHeld /\ deleteTarget = NoEvent
    /\ calls = {}
    /\ schedule = [e \in Events |-> IF e \in Unborn THEN 0 ELSE 1]
    /\ told = [e \in Events |-> 0]

-----------------------------------------------------------------------------
(* The queries                                                             *)

AgendaIs(q) ==
    /\ agenda' = q
    /\ UNCHANGED <<linkedEvent, dialogs, calls, outside>>

\* Reconnections, and the retry below an error
RefetchAgenda == AgendaIs(Started(agenda)) /\ ~agenda.busy
ReadAgenda == MayRead(agenda) /\ AgendaIs(ReadAs(agenda, schedule))
AnswerAgenda == MayAnswer(agenda) /\ AgendaIs(Answered(agenda))
AgendaFails == agenda.busy /\ AgendaIs(Failed(agenda))

\* The query of a link; one that failed is fetched again when the calendar is
\* invalidated or the connection returns, which may be at any time.
LinkIs(seen) ==
    /\ linkedEvent' = [linkedEvent EXCEPT !.seen = seen]
    /\ UNCHANGED <<agenda, dialogs, calls, outside>>

ReadLink ==
    /\ linkedEvent.event # NoEvent /\ linkedEvent.seen = NoData
    /\ schedule[linkedEvent.event] # Gone
    /\ LinkIs(schedule[linkedEvent.event])
LinkFails == linkedEvent.seen # NoData /\ LinkIs(NoData)

\* The effect of the link: once, over whatever is in front; what its query
\* fetches later is not shown.
ShowLink ==
    /\ linkedEvent.seen # NoData
    /\ linkedEvent' = NoLink
    /\ detail' = Held(linkedEvent.event, linkedEvent.seen, Bare /\ CalendarCalm)
    /\ OpenDialog("detail", stack)
    /\ editorForm' = [editorForm EXCEPT !.careful = FALSE]
    /\ drag' = [drag EXCEPT !.careful = FALSE]
    /\ UNCHANGED <<agenda, editing, deleteTarget, calls, outside>>

-----------------------------------------------------------------------------
(* The dialogs                                                             *)

CalendarRest == UNCHANGED <<agenda, linkedEvent, calls, outside>>

\* openDay: never behind the editor
OpenDay ==
    /\ stack = <<>> /\ agenda.data # NoData
    /\ OpenDialog("day", stack)
    /\ UNCHANGED <<detail, editing, editorForm, drag, deleteTarget>> /\ CalendarRest

\* openNew, from the header, the day, or a selection of hours
OpenNew ==
    /\ Bare
    /\ OpenDialog("editor", Less(stack, "day")) /\ editing' = NoEvent /\ editorForm' = NoHeld
    /\ UNCHANGED <<detail, drag, deleteTarget>> /\ CalendarRest

\* openDetail, of an event of the grid or of the day
OpenEventDetail(e) ==
    /\ Bare /\ Listed(e)
    /\ OpenDialog("detail", Less(stack, "day")) /\ detail' = FromList(e)
    /\ UNCHANGED <<editing, editorForm, drag, deleteTarget>> /\ CalendarRest

\* openEdit, of an event of the day or of the detail
Edits(h) ==
    /\ OpenDialog("editor", Less(Less(stack, "day"), "detail"))
    /\ editing' = h.event /\ editorForm' = h /\ detail' = NoHeld
    /\ UNCHANGED <<drag, deleteTarget>> /\ CalendarRest

OpenEventEdit ==
    \/ InFront("day") /\ \E e \in Events : Listed(e) /\ Edits(FromList(e))
    \/ InFront("detail") /\ Edits(detail)

OpenEventDelete ==
    /\ \/ InFront("day") /\ \E e \in Events : Listed(e) /\ deleteTarget' = e
       \/ InFront("detail") /\ deleteTarget' = detail.event
    /\ OpenDialog("delete", Less(Less(stack, "day"), "detail")) /\ detail' = NoHeld
    /\ UNCHANGED <<editing, editorForm, drag>> /\ CalendarRest

\* Every dialog can be left while its request is under way; leaving the
\* scope is cancelPendingChange.  What the editor held is set anew whenever
\* it is opened, and forgotten here.
CloseFront ==
    /\ stack # <<>>
    /\ CloseDialog(stack[Len(stack)])
    /\ detail' = IF InFront("detail") THEN NoHeld ELSE detail
    /\ drag' = IF InFront("scope") THEN NoHeld ELSE drag
    /\ deleteTarget' = IF InFront("delete") THEN NoEvent ELSE deleteTarget
    /\ IF InFront("editor") THEN editing' = NoEvent /\ editorForm' = NoHeld
       ELSE UNCHANGED <<editing, editorForm>>
    /\ CalendarRest

-----------------------------------------------------------------------------
(* The writes                                                              *)

Call(kind, h, phase) ==
    [kind |-> kind, event |-> h.event, holds |-> h.holds, careful |-> h.careful,
     phase |-> phase, as |-> 0]
PendingKind(kind) == \E c \in calls : c.kind = kind

\* A write that meets another is no longer taken as careful.  Bound: nothing
\* is written before a link is shown; a link that never answers is as none.
Calls(c) ==
    /\ Cardinality(calls) < MaxCalls /\ linkedEvent = NoLink
    /\ calls' = IF calls = {} THEN {c}
                ELSE {[d EXCEPT !.careful = FALSE] : d \in calls \cup {c}}

\* saveMutation: a new attendee is first saved as a contact, if the box is
\* ticked and the contacts do not list it.
SaveEvent ==
    /\ InFront("editor") /\ ~PendingKind("save")
    /\ \E first \in {"contact", "sent"} :
          Calls([Call("save", editorForm, first) EXCEPT !.event = editing])
    /\ editorForm' = [editorForm EXCEPT !.sent = TRUE]
    /\ UNCHANGED <<agenda, linkedEvent, stack, detail, editing, drag, deleteTarget,
                   outside>>

\* queueCalendarChange: a single event is saved at once, a repeated one when
\* its scope is chosen.
DropEvent(e) ==
    /\ stack = <<>> /\ Listed(e)
    /\ IF e \in Singles
       THEN Calls(Call("move", FromList(e), "sent")) /\ UNCHANGED <<stack, drag>>
       ELSE OpenDialog("scope", stack) /\ drag' = FromList(e) /\ UNCHANGED calls
    /\ UNCHANGED <<agenda, linkedEvent, detail, editing, editorForm, deleteTarget,
                   outside>>

\* moveMutation: the whole series is first read again.
ConfirmScope ==
    /\ InFront("scope") /\ ~PendingKind("move")
    /\ \E first \in {"base", "sent"} : Calls(Call("move", drag, first))
    /\ UNCHANGED <<agenda, linkedEvent, dialogs, outside>>

DeleteEvent ==
    /\ InFront("delete") /\ ~PendingKind("delete")
    /\ Calls(Call("delete", Held(deleteTarget, 0, FALSE), "sent"))
    /\ UNCHANGED <<agenda, linkedEvent, dialogs, outside>>

Replace(c, d) == calls' = (calls \ {c}) \cup {d}

\* A contact is refused when its address is saved already, as it is after a
\* save that failed with the event.
ServeContact(c) ==
    /\ c.phase = "contact"
    /\ \E phase \in {"sent", "refused"} : Replace(c, [c EXCEPT !.phase = phase])
    /\ UNCHANGED <<agenda, linkedEvent, dialogs, outside>>

ReadBase(c) ==
    /\ c.phase = "base"
    /\ Replace(c, IF schedule[c.event] = Gone THEN [c EXCEPT !.phase = "refused"]
                  ELSE [c EXCEPT !.phase = "sent", !.holds = schedule[c.event]])
    /\ UNCHANGED <<agenda, linkedEvent, dialogs, outside>>

\* An event is created, written or deleted.  (An edit of this event and the following
\* ones also begins another event, which is not followed.)
ServeCall(c) ==
    /\ c.phase = "sent"
    /\ LET e == IF c.event # NoEvent THEN c.event
                ELSE IF \E x \in Events : schedule[x] = 0
                     THEN CHOOSE x \in Events : schedule[x] = 0 ELSE NoEvent
       IN IF e # NoEvent /\ schedule[e] < MaxSequence
          THEN /\ schedule' = [schedule EXCEPT ![e] = IF c.kind = "delete" THEN Gone ELSE @ + 1]
               /\ Replace(c, [c EXCEPT !.phase = "served", !.event = e, !.as = schedule'[e]])
               /\ editorForm' = IF c.kind = "save" /\ editorForm.sent
                                THEN [editorForm EXCEPT !.holds = schedule'[e]] ELSE editorForm
          ELSE /\ Replace(c, [c EXCEPT !.phase = "refused"])
               /\ UNCHANGED <<schedule, editorForm>>
    /\ UNCHANGED <<agenda, linkedEvent, stack, detail, editing, drag, deleteTarget,
                   told>>

\* A first fetch under way is joined, and may be older than the write.
Tells(c) ==
    told' = IF agenda.busy /\ agenda.data = NoData THEN told
            ELSE [told EXCEPT ![c.event] = IF c.as > @ THEN c.as ELSE @]

\* Variant: the events are not fetched again.
LeaveCalendar(q) == agenda' = q /\ UNCHANGED linkedEvent

InvalidateCalendar(q) == agenda' = Restarted(q) /\ UNCHANGED linkedEvent

\* The editor in front closes, of whatever event.
EventSaved(c) ==
    /\ c.kind = "save" /\ c.phase = "served"
    /\ calls' = calls \ {c}
    /\ CloseDialog("editor")
    /\ editing' = NoEvent /\ editorForm' = NoHeld
    /\ InvalidateCalendar(agenda) /\ Tells(c)
    /\ UNCHANGED <<detail, drag, deleteTarget, schedule>>

\* A single event takes its new time in the list; the scope in front closes,
\* of whatever drag.
EventMoved(c) ==
    /\ c.kind = "move" /\ c.phase = "served"
    /\ calls' = calls \ {c}
    /\ LET moved == [agenda EXCEPT !.data[c.event] = IF @ = c.holds THEN c.as ELSE @]
       IN InvalidateCalendar(IF c.event \in Singles /\ agenda.data # NoData
                             THEN moved ELSE agenda)
    /\ drag' = NoHeld
    /\ CloseDialog("scope")
    /\ Tells(c)
    /\ UNCHANGED <<detail, editing, editorForm, deleteTarget, schedule>>

EventDeleted(c) ==
    /\ c.kind = "delete" /\ c.phase = "served"
    /\ calls' = calls \ {c}
    /\ CloseDialog("delete")
    /\ deleteTarget' = NoEvent
    /\ InvalidateCalendar(agenda) /\ Tells(c)
    /\ UNCHANGED <<detail, editing, editorForm, drag, schedule>>

\* Refused, not sent, or its answer lost; a move also drops the drag in front.
CallFails(c) ==
    /\ calls' = calls \ {c}
    /\ IF c.kind = "move"
       THEN /\ drag' = NoHeld
            /\ CloseDialog("scope")
       ELSE UNCHANGED <<drag, stack>>
    /\ editorForm' = IF c.kind = "save" THEN [editorForm EXCEPT !.sent = FALSE] ELSE editorForm
    /\ UNCHANGED <<agenda, linkedEvent, detail, editing, deleteTarget, outside>>

CalendarNext ==
    \/ RefetchAgenda \/ ReadAgenda \/ AnswerAgenda \/ AgendaFails
    \/ ReadLink \/ LinkFails \/ ShowLink
    \/ OpenDay \/ OpenNew \/ OpenEventEdit \/ OpenEventDelete \/ CloseFront
    \/ \E e \in Events : OpenEventDetail(e) \/ DropEvent(e)
    \/ SaveEvent \/ ConfirmScope \/ DeleteEvent
    \/ \E c \in calls : \/ ServeContact(c) \/ ReadBase(c) \/ ServeCall(c)
                        \/ EventSaved(c) \/ EventMoved(c) \/ EventDeleted(c) \/ CallFails(c)

CalendarSpec == CalendarInit /\ [][CalendarNext]_calendarVars

-----------------------------------------------------------------------------
(* Properties                                                              *)

\* The editor saves the event whose values it shows, although answers to
\* earlier saves arrive while it is open; and what is saved of an event that
\* was opened or dragged while nothing was under way holds every earlier own
\* write of it, so that no move takes an edit back and no edit a move.
CalendarWritesAreCurrent ==
    /\ IsOpen("editor") => editorForm.event = editing
    /\ IsOpen("editor") /\ editorForm.careful => editorForm.holds >= told[editing]
    /\ IsOpen("scope") /\ drag.careful => drag.holds >= told[drag.event]
    /\ \A c \in calls : c.careful /\ c.phase = "sent" /\ c.event # NoEvent =>
           c.holds >= told[c.event]
=============================================================================
