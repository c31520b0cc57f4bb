------------------------------ MODULE PageCache ------------------------------
(***************************************************************************)
(* What the pages of one signed-in tab show, and what their changes do to  *)
(* it.  Each page mounts some queries of the cache and saves with          *)
(* mutations that name, when their answer arrives, the queries to fetch    *)
(* again.  The tables below are these names, page by page; the actions     *)
(* follow one watched query through visits, prefetches, refetches, changes *)
(* and their answers in every order.                                       *)
(***************************************************************************)
EXTENDS Naturals, FiniteSets, QueryCache

CONSTANTS
    MaxEdits,   \* bound: changes served to what the watched query reads
    MaxChanges  \* bound: changes under way

ASSUME PageAssumption == MaxEdits \in Nat /\ MaxChanges \in Nat /\ NoData \notin Nat

-----------------------------------------------------------------------------
(* The pages: the queries one shows; those whose data its changes wait     *)
(* for; those whose old data it keeps when a refetch fails.                *)

Page(shows, gate, keeps) == [shows |-> shows, gate |-> gate, keeps |-> keeps]

DashboardPage == Page({"dashboard"}, {}, {"dashboard"})
AnalyticsPage == Page({"analytics"}, {}, {})

GoalsPage == Page({"goals", "dreams", "files"}, {}, {"goals", "dreams", "files"})

\* The query of one day is enabled for days before the last ninety.
WorklogPage(old) ==
    LET day == IF old THEN {"worklogDay"} ELSE {}
    IN Page({"worklogs"} \cup day, IF old THEN day ELSE {"worklogs"}, {"worklogs"} \cup day)

\* A search result of an event opens the calendar with a link to it.
CalendarPage(link) ==
    Page({"calendar", "contacts"} \cup (IF link THEN {"eventLink"} ELSE {}), {},
         {"calendar", "contacts"})

TeamPage == Page({"members", "teamSnapshots"}, {}, {"members", "teamSnapshots"})

KnowledgePage ==
    LET all == {"knowledge", "files", "sessions"} IN Page(all, all, {})

FinancePage ==
    LET all == {"transactions", "categories", "budgets", "finSnapshots"} IN Page(all, {}, all)

IncomePage == Page({"simulations"}, {"simulations"}, {})

ReviewsPage(daily) ==
    Page({"review", "history"} \cup (IF daily THEN {} ELSE {"funnel"}), {"review"}, {})

\* The dialog of a new friend asks for the latest record as a template.
FriendsPage(dialog) == Page({"friends"} \cup (IF dialog THEN {"template"} ELSE {}), {}, {})
ScriptsPage == Page({"scripts", "scriptTypes"}, {}, {})

UsersPage == Page({"users"}, {"users"}, {})
InvitationsPage == Page({"invitations"}, {}, {})
AdminsPage == Page({"admins"}, {}, {})

Facts ==
    [dashboard |-> DashboardPage, analytics |-> AnalyticsPage, goals |-> GoalsPage,
     worklog |-> WorklogPage(FALSE), worklogOld |-> WorklogPage(TRUE),
     calendar |-> CalendarPage(FALSE), calendarLink |-> CalendarPage(TRUE),
     team |-> TeamPage, knowledge |-> KnowledgePage, finance |-> FinancePage,
     income |-> IncomePage, reviews |-> ReviewsPage(TRUE), reviewsLong |-> ReviewsPage(FALSE),
     friends |-> FriendsPage(FALSE), friendDialog |-> FriendsPage(TRUE),
     scripts |-> ScriptsPage, users |-> UsersPage, invitations |-> InvitationsPage,
     admins |-> AdminsPage]

Pages == DOMAIN Facts
Queries == UNION {Facts[p].shows : p \in Pages}

\* pages of one component: moving between them unmounts nothing they share
Component(p) ==
    CASE p \in {"worklog", "worklogOld"} -> "worklog"
      [] p \in {"calendar", "calendarLink"} -> "calendar"
      [] p \in {"reviews", "reviewsLong"} -> "reviews"
      [] p \in {"friends", "friendDialog", "scripts"} -> "communication"
      [] OTHER -> p

\* FIRST_SCREEN_STALE_TIME: an answer is taken as fresh for 30 seconds
KeptFresh(p) ==
    CASE p \in {"goals", "worklog", "worklogOld", "team", "finance"} -> Facts[p].shows
      [] p \in {"calendar", "calendarLink"} -> {"calendar", "contacts"}
      [] OTHER -> {}

\* preloadRoute, when a link is pointed at or focused
Prefetched == {"calendar", "goals", "members", "worklogs"}

-----------------------------------------------------------------------------
(* The changes: where one is asked, which records it writes, and the       *)
(* queries its answer invalidates or fetches again.                        *)

Change(name, p, writes, refreshes) ==
    [name |-> name, page |-> p, writes |-> writes, refreshes |-> refreshes]

UserQueries ==
    UNION {Facts[p].shows : p \in Pages \ {"friends", "friendDialog", "scripts", "users",
                                           "invitations", "admins"}}
CommunicationQueries == {"friends", "template", "scripts", "scriptTypes"}

GoalsChanges ==
    {Change("saveGoal", "goals", {"goal"}, UserQueries),
     Change("saveDream", "goals", {"dream", "file"}, {"dreams"}),
     Change("deleteGoalOrDream", "goals", {"goal", "dream"}, UserQueries)}

PictureChanges ==
    {Change("uploadPicture", "goals", {"file"}, {"files"}),
     Change("cleanupPictures", "goals", {"file"}, {"files"})}

WorklogChanges ==
    {Change("saveWorklog", p, {"worklog", "turnover", "session"}, UserQueries) :
        p \in {"worklog", "worklogOld"}}

CalendarChanges ==
    {Change("saveEvent", "calendar", {"event", "contact"}, {"calendar", "eventLink", "contacts"}),
     Change("moveEvent", "calendar", {"event"}, {"calendar", "eventLink"}),
     Change("deleteEvent", "calendar", {"event"}, {"calendar", "eventLink"}),
     Change("saveContact", "calendar", {"contact"}, {"contacts"}),
     Change("deleteContact", "calendar", {"contact"}, {"contacts"})}

TeamChanges ==
    {Change("saveMember", "team", {"member"}, {"members", "teamSnapshots"}),
     Change("removeMember", "team", {"member"}, {"members", "teamSnapshots"}),
     Change("takeSnapshot", "team", {"teamSnapshot"}, {"teamSnapshots"})}

\* Sessions of an item are deleted with it.
KnowledgeChanges ==
    {Change("saveItem", "knowledge", {"item"}, {"knowledge"}),
     Change("removeItem", "knowledge", {"item", "session"}, {"knowledge"}),
     Change("removeFile", "knowledge", {"file", "item"}, {"files", "knowledge"}),
     Change("uploadFile", "knowledge", {"file"}, {"files"}),
     Change("saveSession", "knowledge", {"session"}, {"sessions"})}

FinanceChanges ==
    {Change("saveTransaction", "finance", {"transaction"}, {"transactions"}),
     Change("createCategory", "finance", {"category"}, {"categories"}),
     Change("archiveCategory", "finance", {"category"}, {"categories"}),
     Change("saveBudget", "finance", {"budget"}, {"budgets"}),
     Change("saveSnapshot", "finance", {"finSnapshot"}, {"finSnapshots"})}

\* Calculating and comparing write nothing.
IncomeChanges ==
    {Change(name, "income", {"simulation"}, {"simulations"}) :
        name \in {"saveSimulation", "duplicateSimulation", "removeSimulation"}}

\* Variant: the history of reviews is forgotten.
ReviewsChangesForgetful ==
    {Change("saveReview", p, {"review"}, {"review"}) : p \in {"reviews", "reviewsLong"}}

ReviewsChanges ==
    {Change("saveReview", p, {"review"}, {"review", "history"}) :
        p \in {"reviews", "reviewsLong"}}

\* The key named for the friends has no account in it, and matches nothing.
FriendsChanges ==
    {Change("saveFriend", "friendDialog", {"friend"}, {}),
     Change("saveProgress", "friends", {"friend"}, {}),
     Change("deleteFriend", "friends", {"friend"}, CommunicationQueries)}

ScriptsChanges ==
    {Change("saveScript", "scripts", {"script", "scriptType"}, {"scripts", "scriptTypes"}),
     Change("changeTypes", "scripts", {"scriptType"}, {"scripts", "scriptTypes"}),
     Change("favorite", "scripts", {"script"}, {"scripts"}),
     Change("deleteScript", "scripts", {"script"}, CommunicationQueries)}

\* A bulk change refreshes the list whether or not each of its requests succeeded.
UsersChanges ==
    {Change(name, "users", {"user"}, {"users"}) : name \in {"changeUser", "bulkUsers"}}

InvitationsChanges ==
    {Change(name, "invitations", {"invitation"}, {"invitations"}) :
        name \in {"createInvitation", "changeInvitation", "bulkInvitations"}}

AdminsChanges ==
    {Change(name, "admins", {"admin"}, {"admins"}) :
        name \in {"createAdmin", "changeAdmin", "bulkAdmins"}}

Changes ==
    UNION {GoalsChanges, PictureChanges, WorklogChanges, CalendarChanges, TeamChanges,
           KnowledgeChanges, FinanceChanges, IncomeChanges, ReviewsChanges, FriendsChanges,
           ScriptsChanges, UsersChanges, InvitationsChanges, AdminsChanges}

\* the records an answer is made of
Reads ==
    [dashboard |-> {"worklog", "turnover", "event", "goal", "member", "session", "transaction"},
     analytics |-> {"worklog", "turnover", "goal", "member", "transaction", "session"},
     goals |-> {"goal", "worklog", "turnover"}, dreams |-> {"dream", "goal"},
     files |-> {"file"}, worklogs |-> {"worklog", "turnover"},
     worklogDay |-> {"worklog", "turnover"}, calendar |-> {"event"}, eventLink |-> {"event"},
     contacts |-> {"contact"}, members |-> {"member"}, teamSnapshots |-> {"teamSnapshot"},
     knowledge |-> {"item"}, sessions |-> {"session"}, transactions |-> {"transaction"},
     categories |-> {"category"}, budgets |-> {"budget"}, finSnapshots |-> {"finSnapshot"},
     simulations |-> {"simulation"}, review |-> {"review", "worklog", "turnover"},
     history |-> {"review", "worklog", "turnover"}, funnel |-> {"worklog"},
     friends |-> {"friend"}, template |-> {"friend"}, scripts |-> {"script", "scriptType"},
     scriptTypes |-> {"scriptType"}, users |-> {"user"}, invitations |-> {"invitation"},
     admins |-> {"admin"}]

\* Known gaps: changes that alter a list on their own page and leave it as it is.
Gaps ==
    {<<"saveFriend", "friends">>, <<"saveProgress", "friends">>,
     <<"removeItem", "sessions">>, <<"saveDream", "files">>}

-----------------------------------------------------------------------------
(* One query followed                                                      *)

VARIABLES
    watched,  \* which query; never changes
    place,    \* the page, or "elsewhere": one that does not show it
    entry,    \* its entry of the cache: which edition it holds
    fresh,    \* the entry is neither invalidated nor 30 seconds old
    edition,  \* the server's records it reads, counted by their changes
    known,    \* the newest edition whose change was answered to this tab
    pending   \* changes under way

pageVars == <<watched, place, entry, fresh, edition, known, pending>>

OnPage == place # "elsewhere"

Places == [q \in Queries |-> {p \in Pages : q \in Facts[p].shows} \cup {"elsewhere"}]
PlaceOf(p, q) == IF p \in Places[q] THEN p ELSE "elsewhere"

\* Changes that are the same to a query are one.
EffectOn(c, q) ==
    [place |-> PlaceOf(c.page, q), alters |-> c.writes \cap Reads[q] # {},
     refreshes |-> q \in c.refreshes, gap |-> <<c.name, q>> \in Gaps]

Effects ==
    [q \in Queries |-> {e \in {EffectOn(c, q) : c \in Changes} : e.alters \/ e.refreshes}]

PageInit ==
    /\ watched \in Queries
    /\ place = "elsewhere" /\ entry = Blank /\ fresh = FALSE
    /\ edition = 0 /\ known = 0 /\ pending = {}

StaleAt(p) == entry.data = NoData \/ ~fresh \/ watched \notin KeptFresh(p)

\* A page that was not there mounts the query; a stale one is fetched.
VisitPage(p) ==
    /\ p \in Places[watched] \ {place}
    /\ place' = p
    /\ entry' = IF p # "elsewhere" /\ Component(p) # Component(place) /\ StaleAt(p)
                THEN Started(entry) ELSE entry
    /\ UNCHANGED <<watched, fresh, edition, known, pending>>

Prefetch ==
    /\ watched \in Prefetched
    /\ entry.data = NoData \/ ~fresh
    /\ entry' = Started(entry)
    /\ UNCHANGED <<watched, place, fresh, edition, known, pending>>

Reconnect ==
    /\ OnPage /\ StaleAt(place)
    /\ entry' = Started(entry)
    /\ UNCHANGED <<watched, place, fresh, edition, known, pending>>

\* The button of an error, or of the notice above data that are kept
Retry ==
    /\ OnPage /\ entry.failed
    /\ entry' = Restarted(entry)
    /\ UNCHANGED <<watched, place, fresh, edition, known, pending>>

Read ==
    /\ MayRead(entry)
    /\ entry' = ReadAs(entry, edition)
    /\ UNCHANGED <<watched, place, fresh, edition, known, pending>>

\* An answer makes the entry fresh, even one invalidated in the meantime.
Answer ==
    /\ MayAnswer(entry)
    /\ entry' = Answered(entry) /\ fresh' = TRUE
    /\ UNCHANGED <<watched, place, edition, known, pending>>

FetchFails ==
    /\ entry.busy
    /\ entry' = Failed(entry) /\ fresh' \in {fresh, FALSE}
    /\ UNCHANGED <<watched, place, edition, known, pending>>

Age ==
    /\ fresh /\ fresh' = FALSE
    /\ UNCHANGED <<watched, place, entry, edition, known, pending>>

\* An entry that no page has shown for five minutes is dropped.
Collect ==
    /\ ~OnPage /\ AtRest(entry)
    /\ entry' = Blank /\ fresh' = FALSE
    /\ UNCHANGED <<watched, place, edition, known, pending>>

Open(p) ==
    watched \in Facts[p].gate =>
        IF watched \in Facts[p].keeps THEN entry.data # NoData ELSE IsShown(entry)

Ask(e) ==
    /\ e.place = place /\ (OnPage => Open(place))
    /\ Cardinality(pending) < MaxChanges
    /\ pending' = pending \cup {[effect |-> e, phase |-> "sent", as |-> 0]}
    /\ UNCHANGED <<watched, place, entry, fresh, edition, known>>

ServeChange(c) ==
    /\ c.phase = "sent" /\ edition < MaxEdits
    /\ edition' = edition + (IF c.effect.alters THEN 1 ELSE 0)
    /\ pending' = (pending \ {c}) \cup {[c EXCEPT !.phase = "served", !.as = edition']}
    /\ UNCHANGED <<watched, place, entry, fresh, known>>

SaveFails(c) ==
    /\ pending' = pending \ {c}
    /\ UNCHANGED <<watched, place, entry, fresh, edition, known>>

\* The answer is one this tab must show: it is not a known gap, the query is
\* not mounted on a page other than the change's own unless the change names
\* it, and no fetch is under way that the answer leaves to run.
Counts(e) ==
    /\ e.alters /\ ~e.gap
    /\ e.refreshes \/ e.place = place \/ ~OnPage
    /\ AtRest(entry) \/ (e.refreshes /\ OnPage /\ entry.data # NoData)

\* A friend that is saved closes its dialog.
AnswerChange(c) ==
    /\ c.phase = "served"
    /\ pending' = pending \ {c}
    /\ known' = IF Counts(c.effect) /\ c.as > known THEN c.as ELSE known
    /\ IF c.effect.refreshes
       THEN /\ fresh' = FALSE
            /\ entry' = IF OnPage THEN Restarted(entry) ELSE entry
       ELSE UNCHANGED <<fresh, entry>>
    /\ place' = IF place = "friendDialog" /\ c.effect.place = place
                THEN PlaceOf("friends", watched) ELSE place
    /\ UNCHANGED <<watched, edition>>

PageNext ==
    \/ \E p \in Pages \cup {"elsewhere"} : VisitPage(p)
    \/ Prefetch \/ Reconnect \/ Retry \/ Read \/ Answer \/ FetchFails \/ Age \/ Collect
    \/ \E e \in Effects[watched] : Ask(e)
    \/ \E c \in pending : ServeChange(c) \/ SaveFails(c) \/ AnswerChange(c)

PageSpec == PageInit /\ [][PageNext]_pageVars

-----------------------------------------------------------------------------
(* Properties                                                              *)

\* A list that a page shows, with no error and no fetch under way, holds
\* every change whose answer this tab has received, in whatever order reads,
\* answers, visits and other changes came.
ShownIsCurrent == OnPage /\ IsShown(entry) /\ AtRest(entry) => entry.data >= known
=============================================================================
