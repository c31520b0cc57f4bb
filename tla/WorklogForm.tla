----------------------------- MODULE WorklogForm -----------------------------
(***************************************************************************)
(* The form of one day's worklog.  The days of the last ninety come from   *)
(* one query, an older day from a query of its own.  The form is filled    *)
(* from what is cached, again whenever that changes as long as nobody has  *)
(* typed, and it saves the whole record: what it did not load it erases.   *)
(*                                                                         *)
(* The records of a day are counted by their editions, 0 being none.       *)
(***************************************************************************)
EXTENDS Naturals, QueryCache

CONSTANTS
    RecentDays, OldDays, \* the days, before and after rangeStart
    NoDay,               \* the page is not there; no day is loaded
    MaxRecords           \* bound: editions of one day

ASSUME WorklogAssumption ==
    /\ RecentDays \cap OldDays = {} /\ NoDay \notin RecentDays \cup OldDays
    /\ "recent" \notin OldDays /\ MaxRecords \in Nat

Days == RecentDays \cup OldDays
JournalKeys == {"recent"} \cup OldDays
KeyOfDay(d) == IF d \in OldDays THEN d ELSE "recent"

VARIABLES
    journal,    \* the queries
    freshDays,  \* keys that are neither invalidated nor 30 seconds old
    selectedDay,
    loadedFormDay,
    draft,      \* the form: the edition its contents hold, and whether they were changed
    worklogSave,\* the save under way
    records,    \* server: the editions of the days
    answered    \* history: the newest own edition of a day that the caches must show

worklogVars == <<journal, freshDays, selectedDay, loadedFormDay, draft, worklogSave, records,
                 answered>>

NoWorklogSave == [phase |-> "idle", day |-> NoDay, as |-> 0]
NoDraft == [day |-> NoDay, holds |-> 0, dirty |-> FALSE, sent |-> FALSE, careful |-> FALSE]
OnWorklog == selectedDay # NoDay

\* selectedDateQuery is enabled for a day out of range only.
Watched(d) == IF d = NoDay THEN {} ELSE {"recent", KeyOfDay(d)}

Cached(j, d) == j[KeyOfDay(d)].data
IsReady(j, d) == Cached(j, d) # NoData

WorklogInit ==
    /\ journal = [k \in JournalKeys |-> Blank] /\ freshDays = {}
    /\ selectedDay = NoDay /\ loadedFormDay = NoDay /\ draft = NoDraft
    /\ worklogSave = NoWorklogSave
    /\ records = [d \in Days |-> 0] /\ answered = [d \in Days |-> 0]

\* fromWorklog and formDefaults
FilledFrom(j, d) ==
    [NoDraft EXCEPT !.day = d, !.holds = IF IsReady(j, d) THEN Cached(j, d)[d] ELSE 0]

\* Variant: a form that was filled is not filled again.
ReloadsOnce(d, l, f) ==
    IF d = NoDay \/ ~IsReady(journal', d) THEN loadedFormDay' = NoDay /\ draft' = f
    ELSE loadedFormDay' = d /\ draft' = IF l = d THEN f ELSE FilledFrom(journal', d)

\* The effect of the page, after a step has set the day and the queries: l
\* is the day that was loaded and f the form.
Reloads(d, l, f) ==
    IF d = NoDay \/ ~IsReady(journal', d)
    THEN loadedFormDay' = NoDay /\ draft' = f
    ELSE IF l # d \/ ~f.dirty
    THEN loadedFormDay' = d /\ draft' = FilledFrom(journal', d)
    ELSE loadedFormDay' = l /\ draft' = f

\* Queries that a step begins to watch are fetched unless they are fresh.
Mounts(keys) ==
    journal' = [k \in JournalKeys |->
                  IF k \in keys /\ (journal[k].data = NoData \/ k \notin freshDays)
                  THEN Started(journal[k]) ELSE journal[k]]

\* Opening the page, on today or on the day of a link
OpenWorklog(d) ==
    /\ ~OnWorklog
    /\ selectedDay' = d
    /\ Mounts(Watched(d))
    /\ Reloads(d, IF IsReady(journal, d) THEN d ELSE NoDay, FilledFrom(journal, d))
    /\ UNCHANGED <<freshDays, worklogSave, records, answered>>

LeaveWorklog ==
    /\ OnWorklog
    /\ selectedDay' = NoDay /\ loadedFormDay' = NoDay /\ draft' = NoDraft
    /\ UNCHANGED <<journal, freshDays, worklogSave, records, answered>>

\* selectDate: what was typed for the other day is gone.
SelectDay(d) ==
    /\ OnWorklog /\ d # selectedDay
    /\ selectedDay' = d
    /\ Mounts(Watched(d) \ Watched(selectedDay))
    /\ Reloads(d, IF IsReady(journal, d) THEN d ELSE NoDay, FilledFrom(journal, d))
    /\ UNCHANGED <<freshDays, worklogSave, records, answered>>

-----------------------------------------------------------------------------
(* The queries                                                             *)

Fetches(k, q) ==
    /\ journal' = [journal EXCEPT ![k] = q]
    /\ Reloads(selectedDay, loadedFormDay, draft)
    /\ UNCHANGED <<selectedDay, worklogSave, records, answered>>

\* preloadRoute; a reconnection, the retry of the page
PrefetchDays ==
    /\ journal["recent"].data = NoData \/ "recent" \notin freshDays
    /\ Fetches("recent", Started(journal["recent"]))
    /\ UNCHANGED freshDays

RefetchDay(k) ==
    /\ k \in Watched(selectedDay)
    /\ journal[k].failed \/ k \notin freshDays
    /\ \/ Fetches(k, Restarted(journal[k])) /\ journal[k].failed
       \/ Fetches(k, Started(journal[k])) /\ k \notin freshDays
    /\ UNCHANGED freshDays

ReadDay(k) ==
    /\ MayRead(journal[k])
    /\ Fetches(k, ReadAs(journal[k], [d \in {x \in Days : KeyOfDay(x) = k} |-> records[d]]))
    /\ UNCHANGED freshDays

AnswerDay(k) ==
    /\ MayAnswer(journal[k])
    /\ Fetches(k, Answered(journal[k]))
    /\ freshDays' = freshDays \cup {k}

DayFails(k) ==
    /\ journal[k].busy
    /\ Fetches(k, Failed(journal[k]))
    /\ UNCHANGED freshDays

AgeDay(k) ==
    /\ freshDays' = freshDays \ {k} /\ k \in freshDays
    /\ UNCHANGED <<journal, selectedDay, loadedFormDay, draft, worklogSave, records, answered>>

-----------------------------------------------------------------------------
(* The form                                                                *)

\* The form that is on the screen is of a day that is loaded, newly so: no
\* fetch of it is under way or has failed, and no save.
Calmly(d) ==
    /\ AtRest(journal[KeyOfDay(d)]) /\ IsShown(journal[KeyOfDay(d)])
    /\ worklogSave = NoWorklogSave

\* updateCount, updatePV, updateNetAmount and the inputs
Type ==
    /\ OnWorklog /\ IsReady(journal, selectedDay)
    /\ draft' = [draft EXCEPT !.dirty = TRUE,
                              !.careful = IF draft.dirty THEN @ ELSE Calmly(selectedDay)]
    /\ UNCHANGED <<journal, freshDays, selectedDay, loadedFormDay, worklogSave, records, answered>>

\* onSubmit; a form that was not changed can be saved as well.
SendWorklog ==
    /\ OnWorklog /\ IsReady(journal, selectedDay)
    /\ worklogSave = NoWorklogSave
    /\ worklogSave' = [phase |-> "sent", day |-> draft.day, as |-> 0]
    /\ draft' = [draft EXCEPT !.sent = TRUE]
    /\ UNCHANGED <<journal, freshDays, selectedDay, loadedFormDay, records, answered>>

\* SaveWorklog: the whole record is written, whichever of POST and PUT was used.
ServeWorklog ==
    /\ worklogSave.phase = "sent" /\ records[worklogSave.day] < MaxRecords
    /\ LET d == worklogSave.day
       IN /\ records' = [records EXCEPT ![d] = @ + 1]
          /\ worklogSave' = [worklogSave EXCEPT !.phase = "served", !.as = records'[d]]
          /\ draft' = IF draft.sent THEN [draft EXCEPT !.holds = records'[d]] ELSE draft
    /\ UNCHANGED <<journal, freshDays, selectedDay, loadedFormDay, answered>>

\* A fetch that was under way when nobody watched goes on, and a first fetch
\* is joined: what they answer may be older than the save.
Overtaken(k) ==
    journal[k].busy /\ (k \notin Watched(selectedDay) \/ journal[k].data = NoData)

\* Every query of the user is invalidated.
WorklogSaved ==
    /\ worklogSave.phase = "served"
    /\ worklogSave' = NoWorklogSave
    /\ freshDays' = {}
    /\ journal' = [k \in JournalKeys |->
                     IF k \in Watched(selectedDay) THEN Restarted(journal[k]) ELSE journal[k]]
    /\ Reloads(selectedDay, loadedFormDay, draft)
    /\ answered' = IF Overtaken(KeyOfDay(worklogSave.day)) THEN answered
                   ELSE [answered EXCEPT ![worklogSave.day] = worklogSave.as]
    /\ UNCHANGED <<selectedDay, records>>

\* Refused, or its answer lost
WorklogFails ==
    /\ worklogSave # NoWorklogSave
    /\ worklogSave' = NoWorklogSave
    /\ draft' = [draft EXCEPT !.sent = FALSE]
    /\ UNCHANGED <<journal, freshDays, selectedDay, loadedFormDay, records, answered>>

WorklogNext ==
    \/ \E d \in Days : OpenWorklog(d) \/ SelectDay(d)
    \/ LeaveWorklog \/ PrefetchDays
    \/ \E k \in JournalKeys : RefetchDay(k) \/ ReadDay(k) \/ AnswerDay(k) \/ DayFails(k) \/ AgeDay(k)
    \/ Type \/ SendWorklog \/ ServeWorklog \/ WorklogSaved \/ WorklogFails

WorklogSpec == WorklogInit /\ [][WorklogNext]_worklogVars

-----------------------------------------------------------------------------
(* Properties                                                              *)

\* A form that was typed into while its day was loaded and nothing was under
\* way holds every record of that day whose save this tab was told of: what
\* it goes on to save, after other days, refetches, errors and saves in any
\* order, never takes an own entry back, and goes to the day on the screen.
NoEntryIsTakenBack ==
    OnWorklog /\ draft.dirty /\ draft.careful =>
        /\ draft.day = selectedDay
        /\ draft.holds >= answered[selectedDay]
=============================================================================
