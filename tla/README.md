# A TLA+ model of jl-business-growth

jl-business-growth is a business planner for sales people: a Go API over
PostgreSQL, a React frontend, a daily jobs command, and a shell script that
updates the installation from signed releases. This directory holds TLA+ modules
for the parts of it where steps of several actors interleave or where a failure
between two steps matters, TLC configurations that check them on small
instances, and proofs, checked by TLAPS, that the main properties hold for every
value of the constants.

Paths below are relative to `src/`; `internal/` stands for `backend/internal/`.

## 1. The system

| Part | State it keeps | Operations | Talks to |
|---|---|---|---|
| Release API (`internal/release`) | none of its own: `update.lock`, `request.json`, `queued-status.json`, `status.json` on disk | `Queue`, `State` (merges the two statuses) | the updater, through those files |
| Release updater (`scripts/release-updater.sh`, systemd path and service units) | release directories, the two `current` links, the database schema, shell variables | claim, download, verify, back up, migrate, install, switch, restart, health check; on failure restore and clean up | API process (restart), PostgreSQL (goose), the files above |
| Files (`internal/files`) | `file_assets`, `file_cleanup_failures`, files on disk | `Upload`, `Get`, `Delete`, `DeleteAccount`, `CleanupOrphanFiles`, `RetryFileCleanup` | accounts (a deletion runs through all of it) |
| Jobs command (`backend/cmd/jl-business-jobs`) | none | file cleanup, monthly snapshots, session cleanup | files, team, sessions |
| Admin (`internal/admin`) | `accounts` | list, create, disable, enable, reset, delete | files for deletions |
| Auth (`internal/auth`) | `accounts`, `browser_sessions`, linked accounts, an in-memory rate limiter | register, log in, switch account, log out, change password | invitations |
| Invitations (`internal/invitation`) | `invitation_codes`, `invitation_uses` | create, update, delete; find and consume inside a registration | auth |
| Team (`internal/team`) | `team_members` (a forest), snapshots | save, delete with promotion, snapshot | jobs command |
| Daily (`internal/daily`) | worklogs, todos, `goals` (a forest) with metrics, learning minutes | save, delete, dashboard | knowledge (shares the learning minutes) |
| Knowledge (`internal/knowledge`) | items, tags, learning sessions | save, delete | daily |
| Calendar (`internal/calendar`) | events, exceptions, attendees | save one, this-and-following, all; expand | - |
| Communication (`internal/communication`) | script types, scripts | save, rename a type with its scripts, delete | - |
| Finance, money, PV, reviews, analytics, search | amounts, reviews | upserts and totals | - |
| Connections (`internal/database`, pgxpool) | the connections of a process, who waits for one | acquire, release; lists take a second one per row | every service |
| Account of a tab (`App.tsx`, `features/auth`, `account-menu.tsx`) | the query `["auth","me"]`, the route, mutations under way | log in and out, switch, add, unlink, new password, timezone, delete | API; removes the caches of the pages |
| Pages (`features/*`) | cached queries under keys with the account, forms, dialogs | visit, prefetch, refetch, change and invalidate | API |
| Version Center (`version-badge.tsx`) | one polled query, two mutations, a check | open, poll, check, update, roll back | release API |
| Dreams (`goals-page.tsx`) | the sheet, its pictures, uploads under way | choose, upload, retry, remove, save, cancel, delete | files |
| Worklog (`worklog-page.tsx`) | the day, its form, two kinds of queries | select a day, type, save | daily |
| Calendar (`calendar-page.tsx`) | the window's events, dialogs, a pending drag | open, edit, drag, delete, follow a link | calendar |
| Communication (`communication-page.tsx`) | filters in the address or the page, lists, dialogs | filter, page, save, star, delete | communication |
| Frame (`navigation.tsx`, routes of `App.tsx`) | open groups, rail, drawer | follow a link, fold and open groups | - |

What is hard in it:

* **Concurrency.** Handlers run at once, each statement of a handler that opens no
  transaction is a step of its own, and PostgreSQL runs at READ COMMITTED. The
  updater, the jobs command and the API are three processes that share files and
  tables.
* **Failure.** A handler may fail between two writes; the updater may be killed at
  any point and has an ERR trap with steps of its own; the API is restarted in the
  middle of an update, by that update; a file and its row are never written
  together.
* **Staleness.** Versions are compared when a request is queued and used minutes
  later; the cleanup reads the known names first and the directory afterwards;
  an invitation is tested and then consumed; a hierarchy is tested and then written.
* **One tab, many answers.** The browser is single-threaded, but every request is answered
  later and in any order: an answer acts on the caches, forms and dialogs as they then are,
  which may be of another account, another day, another event.
* **Liveness.** One lock guards all updates; if a path forgets it, the Version
  Center is dead. One file that cannot be removed ends the daily cleanup.

What makes each part correct, in a sentence each:

* Release: at most one task at a time, and its lock, request and status belong
  together until a claim fails; a success report is true; a failure report that says "restored" is true;
  the backend only runs against a schema it accepts; every task ends and gives the
  lock back.
* Files: a stored file stays until its owner or his account goes; a dropped account
  owns nothing; whatever fails leaves at most files without rows, and these go.
* Registration: an invitation admits as many accounts as it allows, at the moment
  they are committed; usernames are unique; nobody waits for ever.
* Team and goals: the rows form a forest; a deletion takes exactly what it should.
* Sessions: a session only holds accounts that were authenticated in it, and a change of
  an account takes it out of all of them.
* Account of a tab: it acts for the account it shows, and shows and keeps nothing of another.
* Pages: what a page settles on includes every change it was told of; what a form saves was
  built on it; pictures stored are pictures of dreams; a list that says "nothing" has nothing.
* Frame: links lead where they say, for every role; a folded group stays folded.
* Dates and amounts: ranges tile the calendar, a wall time and its instant agree, a PV survives
  the way to a net amount and back.
* Learning minutes: a day and its minutes are those of one save; a total is not less than the
  items it was compared with.
* Snapshots: each is one team, of a moment not before the time it bears; the monthly job captures everybody
  or is known to have failed; its month is the one just finished.
* Connections: only as many lists at once as there are connections can stop them all.

## 2. Modules

| Module | Models | Extends / instances |
|---|---|---|
| `ReleaseTask` | abstract: a queue of one task that is committed, taken and reported | - |
| `ReleaseUpdate` | handlers, files, updater, API process and links | instances `ReleaseTask` |
| `ReleaseUpdateProofs` | theorems about it | `ReleaseUpdate`, `TLAPS` |
| `FileStore`, `FileStoreProofs` | files, rows, account deletion, daily cleanup | - |
| `Membership` | abstract: somebody joins in one step, on an invitation that is open and counts it | - |
| `Registration` | registration, invitations, account deletion | instances `Membership` |
| `ConnPool` | the connections of a process and the requests that take one or two | - |
| `RegistrationProofs` | theorems about registration and about connections | `Registration`, `ConnPool` |
| `Forest`, `Calendar` | rows with a parent column; the Gregorian calendar and timezones | - |
| `OperatorProofs` | lemmas about their operators | `Forest`, `Calendar` |
| `TeamTree` | the team hierarchy | `Forest` |
| `LearningMinutes` | the worklog of a day, its minutes and the sessions of items | - |
| `TeamSnapshots` | captures of a team, the monthly job and its labels | `Calendar` |
| `RecordsProofs` | theorems about the three records that several requests write at once | `TeamTree`, `LearningMinutes`, `TeamSnapshots`, `OperatorProofs` |
| `GoalTree`, `GoalTreeProofs` | the goal hierarchy | `Forest` |
| `BrowserSessions`, `BrowserSessionsProofs` | sessions, their accounts, and what changes these | - |
| `QueryCache` | one query of the browser's cache: fetch, join, restart, cancel, store | - |
| `ClientSession` | the account of a tab against the session of its cookie, caches by owner | `QueryCache` |
| `PageCache` | pages, queries and changes: what refetches what | `QueryCache` |
| `VersionCenter`, `DreamEditor`, `WorklogForm`, `CalendarPage` | the page or dialog they are named after | `QueryCache` but for `DreamEditor` |
| `ScriptLibrary`, `FriendRecords`, `CommunicationTools` | the two tabs of the communication page, and the page | `QueryCache` |
| `Navigation` | routes, links by role, groups of the sidebar | - |
| `ClientConversions` | `lib/date.ts`, `lib/pv.ts`, the countdown of the settings | - |
| `ClientProofs` | theorems about the parts of the browser's application | the parts |
| `MC*` | instances for TLC; `MCClient` is the sum of all parts of the browser, `MCRecords` of `TeamTree`, `LearningMinutes` and the labels of `TeamSnapshots`, `MCStatements` of `BrowserSessions`, the captures of `TeamSnapshots` and `ConnPool` | the module or modules they instantiate |

In every module an action is one statement, one system call or one uninterrupted
piece of a handler, of the script or of a page's callback; its name is the step's. Operators whose comment
starts with "Variant:" are plausible slips of the operator below them. No behaviour
uses them; they show that the properties notice.

### ReleaseUpdate

`lock`, `trigger`, `queuedStatus` and `status` are the four files; `lapsed`, a history, says that
the lock of a waiting request was once given up; `pc[r]` is how far
the handler of request `r` has come, `upc` the stage of the script; `bDirs`, `wDirs`,
`bLink`, `wLink` are the installed releases and the links; `running` is the build the
API process serves and `schema` the version goose reports. `claim`, `prevB`, `prevW`,
`installed` and the like are the shell's variables, lost when the script ends.

`Validate`, `AcquireLock`, `WriteQueuedStatus`, `WriteRequest` and the `...Fails`
actions are `Service.Queue` with every error branch and the deferred undo.
`ClaimRequest` to `Healthy` are the script in order; `ClaimFails` is the move of `request.json`
that fails, and what `cleanup_owned_request` then does to a request it does not have; `StepFails`, `SwitchedStepFails`,
`RestoreBackend`, `RestoreWeb`, `Revive`, `Purge`, `ReportFailure`, `Discard`,
`CleanQueuedStatus` and `ReleaseLock` are `on_error`,
`restore_previous_release` and `cleanup_owned_request`. `Killed` ends the script
without its trap (the unit's time limit, a reboot), `ApiCrash` the API with the
handlers in it, and `OperatorUnlock` is the procedure under Troubleshooting in
`docs/release-management.md`. `VisibleStatus` is `readStatus`. Which of these failures a run has
is its `Faults`: `write` of a handler, `apiCrash`, `kill`, `relink` and `restart` of a restore, `claim`.

`ReleaseTask` has the same flaw in one word, `Lapse`: the lock of a request that waits is given up. From then on
(`astray`) a request may act without holding the lock, and a later one may take the place of one that
still waits. Even then one request runs at a time, once, and it alone reports, once; the refinement shows that
nothing worse comes of a failing claim. `TaskFilesAgree` and `VisibleNeverRegresses` speak of the time before it.

Abstractions: the backend and web directories of a new release appear together (the
script makes both before it copies); the checks of digests, archive names, manifests'
syntax and permissions are one step that may fail; only the updater migrates, so the
schema a step reads is the schema; requests are well formed and have fresh ids, which
bounds a run; the operator removes the lock only while no handler is at work.

### FileStore

`row[f]` and `disk` are `file_assets` and the directory, `failed[f]` the rows of
`file_cleanup_failures`, `acct[u]` the account's status; `up`, `del` and `dpc` are the
upload, the deletion of a file and the deletion of an account under way, and the job
has a stage, the names it read and the entries it has still to look at. `CreateFile`,
`InsertRow`, `TakenBack` are `Upload`; `RemoveFile`, `DeleteRow` are `Delete`;
`MarkDeleting`, `ListNames`, `DropAccount`, `RemoveNamed` are `DeleteAccount`;
`ReadKnown`, `ReadDir`, `ScanEntry`, `QueryDue`, `RetryFailed` are the job. A failure
(`Mishap`) may strike any statement or removal, a reply may be lost after the
statement took effect, the process may end (`Crash`) and the job may meet its
deadline; `MaxMishaps` bounds how many of these a behaviour has.

Abstractions: content, size, type and original name of a file; the batch of 100
retries and the counter of attempts; the grace period of one hour is longer than any
upload and any job (`GrowsOld` only happens to files nobody is writing); one deletion
request per file at a time; the account check of the session is merged with the
creation of the file, which comes right after it.

### Registration

`invitation[c]` is the row of a code, `rowLock[c]` the transaction that has changed it
and not yet ended, `pc[r]` a request's progress, `began[r]` the `now()` of its
transaction (the WHERE clause of `ConsumeInvitation` uses that, the tests in Go the
clock). `Find`, `Consume`, `CreateAccount`, `NameTaken`, `Commit` are
`Service.Register`, statement by statement, `OpenSession` the session the handler then
opens. READ COMMITTED is in the guards: an UPDATE waits for the row and evaluates its
WHERE on what it then finds; an INSERT waits while another transaction has inserted
the same username. All refusals are one answer, `refused`. `Create`, `Update` and
`Delete` are the administrators' requests; `DeleteAccount` is the files service's.

`Membership` is what all this is for: `Publish`, `Amend` and `Withdraw` an invitation, `Join` and
`Leave`. In it nothing waits, is tested early or fails half-way. `Offers` and `Members` map the
tables to it: an account counts from its commit on, so that `Commit` is a `Join`, `DeleteAccount`
a `Leave`, the administrators' requests are theirs, and every other step changes nothing. When an
invitation expires is not part of it; that is what `Admitted` adds.

### ConnPool

`held[r]` are the connections of a caller, `stage[r]` what it does or wants one for, and `waits[r]` that
it is in `Acquire`. pgxpool is not part of the repository; nothing here depends on the order in which it
serves. `Statement` is any query, transaction or `Exec`
that holds one connection. `List` begins a list whose rows stay open while each row is completed over
a second connection: `LoadRelations`, `CloseTags`, `LoadFiles` and `Related` are the two queries
per row of `knowledge.ListItems` (`internal/knowledge/service.go:69-87`, `263-292`). The attendees and
exceptions of `calendar.List` (`internal/calendar/service.go:152-176`) are the same two; the retries
of the file cleanup and the monthly snapshots need one statement or transaction per row, which is less. The
tags are read to their end before the files are asked for: pgx closes rows, and gives their connection
back, when `Next` returns false, so that the `rows.Close()` between the two queries (277) only repeats
it. Had the second query been put inside the loop over the first, a caller would hold three.
`Leave` is every error return: the client has gone, the deadline of the jobs command has passed, a
query fails.

Abstractions: connections that break (the pool opens others); what a query reads; a transaction holds
one connection from its beginning to its end, and no service asks the pool for another one meanwhile.

### Forest, TeamTree and GoalTree

A table is a function from ids to a parent, `Root` (NULL) or `Absent` (no row).
`Descendants` is the fixed point that the recursive query and ON DELETE CASCADE reach,
`Acyclic` says that no set of rows has all its parents inside. Both are stated with
sets, not by recursion, so that theorems can be proved about them.

`TeamTree`: `Save` validates and goes to the tests of the hierarchy, `CheckParent`,
`CheckCycle` and `Upsert` are the three statements that follow, none in a transaction.
`QueryEnds` says when the recursive query returns: `UNION ALL` keeps going round a
cycle unless `EXISTS` meets the parent first. `Delete`, `ReadMember`, `LookForChildren`
and `Drop` are the transaction that deletes; its writes and its commit are one step
at the commit, and a child that appeared meanwhile makes the foreign key refuse. Names,
codes and the test for a duplicate code only refuse, which `Breaks` covers.

`GoalTree`: `Save` starts the walk of `validateGoalParent`, `Walk` is one turn of its
loop with its query, `Write` the transaction, `Delete` the cascading DELETE. In both, a
client can only name ids that have had a row (ids are random UUIDs drawn by the server).

Two history variables of both modules say what a request has missed: `stale` holds the
requests under way during which another one has changed the rows, and `raced` becomes
true when one of those writes. `GoalsAreAcyclic` and `TeamIsAcyclic` promise a forest
until then, with any number of tabs, which says more than a promise for a user with one
tab: overlapping requests are harmless unless one writes what another has overtaken.

### TeamSnapshots

What a team consists of is `TeamTree`'s; here it is known by its edition, `editions[u]`, which every change
of a member raises. The number is the clock as well: the time a capture bears (`now()`, the beginning of its
transaction) is the edition there was. `snapshots` is the table, with the editions whose members a snapshot holds: one, if
all is well. `captures[c]` is the transaction of a request or of a job: `CreateSnapshot`, `UpsertSnapshot`,
`ClearMembers`, `ReadTeam` and `CommitSnapshot` are the statements of `Service.CreateSnapshot`. The upsert waits for
whoever holds the row, and each statement sees what is committed when it runs. `StartJob`, `CaptureNext`, `EndJob` and
`FailJob` are `CaptureMonthlySnapshots`, which stops at its first error; the accounts and their
timezones are the rows of one query, in any order. `SnapshotMonthFor` is computed
over instants in half-hours and a zone with one change of its offset, and `MonthStart` is the truncation that
`CreateSnapshot` adds.

Abstractions: `captured_late`; the deletion of an account, which takes its snapshots along; what a member's
copy contains. A repeated capture may bear an earlier time than the one it replaces (it began earlier and waited), but
never holds an older team (`SnapshotsGrowNewer`). No systemd unit of the repository starts this job: the one
there is runs `cleanup` (`deploy/systemd/jl-business-jobs.service:12`).

### LearningMinutes

`rows` has the committed rows of one day of one user: the worklog, represented by the minutes it was
saved with, and the `DAILY_UNALLOCATED` row of each type. `writes[c]` is what the transaction of
client `c` has written, and locked, and not committed; `items` are the minutes of the sessions of items. `SaveWorklog`,
`UpsertWorklog`, then `CompareItems` and `WriteMinutes` once per type (a Go map, so in any
order) and `Commit` are `Service.SaveWorklog`, `DeleteWorklog`, `DropWorklog` and `DropMinutes`
the deletion, `SaveTotal` and `WriteTotal` the two statements of `knowledge.SaveSession` for a total, outside
any transaction; `RecordSession`, `ForgetSessions` and `DeleteTotal` are single statements.
An INSERT ... ON CONFLICT waits for whoever writes the row or its key, a DELETE only for a
row it can see (`Takes`). `Aborts` is any error, and the way out of a deadlock.

History variables: `loose` is true while a total may differ from the worklog because it was written
or deleted without it, or because a deletion found no worklog yet; a save that nobody overtakes
(`overtaken`) ends that. `outgrown` has the types whose items grew after they were compared with the total
(`late` while the request is under way): no statement checks a session of an item against the total.
The turnover of a worklog, one more row of its transaction, is left out, and so are items
and notes: a session is its minutes.

### BrowserSessions

`status[a]` is the account's row, `live`, `active` and `links` are `browser_sessions` and
`browser_session_accounts`, and `req[r]` is a handler: the place it has come to, its session
and the account it works with, as it read them, and, inside `DeleteAccountSessions`, the
sessions and links the statement has found. `Load`, `ReadAccount`, `Backfill` are
`LoadSession`, which the middleware runs before every handler; `Switch` and `SetActive` are
the two moments of one UPDATE, which finds its row in a snapshot and writes when it has the
lock; `Add`, `Link`, `CommitLink` and `Login`, `CreateSession`, `CommitSession` are the two
ways an account is authenticated in a browser. `Disable`, `NewPassword`, `Delete`,
`DeleteAdmin` and `DeleteSessions` read what they will delete (`Looking`), `Commit` deletes
it: a session found goes if it still uses the account, a link found goes, and what was
not found stays, as READ COMMITTED has it. `Held`, `Kept` and `Locked` are the row locks
that make others wait. The handlers that change the account of their own session then
destroy that session (`leave`, `Logout`).

Abstractions: a password is right or the request goes nowhere; cookies and tokens; a row
that has expired is as good as deleted (`Expire`); `LoadSession` after a switch or an addition
is the `Load` of a next request; an administrator's own session; any account may be meant by
an action of users or of administrators. A session's or account's id can be used again once
nobody knows it any more, which is as good as a new one and keeps the instance finite.

History variables: `ever[s]` and `proved[s]` hold the accounts authenticated in a session,
the latter until they are disabled, deleted or given a new password. `given[r]` and `taken[r]`
hold the accounts that others have given to sessions or taken from them since `r` began, and
`raced` becomes true when a handler gives an account that was taken meanwhile, or takes one
that was given; such an overlap the code does not sort out, and the properties
that start with `~raced` stop promising.


### QueryCache

A query is a record: the data it holds, whether its last fetch failed, whether a fetch is
under way, and what the server read for that fetch. `Started` is a fetch on mounting,
`Restarted` what `invalidateQueries` and `refetch` do: they start over when there is data to
show and **join** the fetch under way when there is none, so that an answer read before a
change may become the data after it. `Stored` and `Cancelled` are `setQueryData` and
`cancelQueries`. The client in `frontend/src/main.tsx` neither retries nor refetches on focus.
TanStack Query is not part of the repository; these operators state what its pages rely on.

### ClientSession

`jar` is the session the cookie names, as the handlers of `internal/api/handler.go` keep it on the server, `me` the query the tab
learns the account from, `entries` and `loads` the cached and requested data, each with the
key it is under and the account it was read for, `op[k]` the mutation of kind `k` and `at`
the route. `Send...` are the forms and menus, `Serve` is the server, `LoggedIn` to `TimezoneChanged`
the `onSuccess` callbacks with their cancelling, removing and storing, `Rejected` and
`Invalidated` the `onError` ones, `FetchMe` to `FailMe` the query of `me`, `Visit` and `Load`
the routes with their guards (`Landing`, `Redirects`) and what their pages fetch, `Preload`
the prefetches of a link. `Elsewhere` is another tab, or the session's end on the server, `Severed` an
administrator who takes an account out of it. `Effect` is what a handler does to the session: a login
makes a new one, an addition links the account **and makes it the active one** (`LinkBrowserAccount`).
`BrowserSessions` has the same handlers statement by statement, against each other; here each is one step.

`unsure` becomes true when two account operations overlap, when an answer is lost although the
server did what was asked, or when another tab acts: the tab then shows a state that only a
reload puts right, the code promises nothing, and the model stops following it. `crossed` becomes true when
an account is added while a load of the former one waits to be served, or when one is asked for under the former account's key
before the answer of the addition: what such a load brings is of the other account, and stays until the `user` keys are removed (section 4).
`CacheIsOwn` leaves out that time, and the model goes on.

### PageCache

Tables give the queries each page mounts, those its changes wait for, and those it keeps
showing when a refetch fails; and per mutation what it writes and which queries its answer fetches
again, all taken from the pages. `Reads` says which records make up an answer. The actions then follow one watched query
(`watched`, any of them) through visits, prefetches, ageing, failed refetches and up to two
changes under way. `edition` counts the changes the server has made to what the query reads, `known` the newest
one this tab was told of. `Gaps` names the four changes whose answers do not refresh a query
they change (section 4); `known` leaves them out, and `ShownIsCurrent` promises all others.

### VersionCenter, DreamEditor, WorklogForm and CalendarPage

`VersionCenter` counts statuses (`2k - 1` while task `k` runs, `2k` after it). Polls, the check
and the two actions are answered in any order; `AnswerAction` and `AnswerCheck` store their
answers in the polled query. `calm` says that nothing else of the dialog was under way when
the action was answered: a poll that was read before and answered after it may
otherwise hide the task until the next poll.

`DreamEditor` has the pictures of the server and what the page holds of them:
`temporary` (uploaded, not saved), `removedFiles`, uploads and deletions under way. `dreamListed` is the cached list,
which shows a save only when the refetch after it (`dreamRefetch`) is answered, and `sheetDream` the dream the
sheet was opened with: the editor edits that one. Its actions are
the callbacks of `goals-page.tsx`. `dreamDisturbed` names what the code leaves unsorted: the
sheet closed or edited while its save or an upload is under way, the page left with temporary
pictures, a lost answer, a deletion that fails, an editor opened on a dream that is not as it is
stored (section 4).

`WorklogForm` has the days of one query for the last ninety days and of one query per older
day. `Reloads` is the effect that fills the form again: part of every action that changes what
it depends on. `draft.holds` is the edition the form was filled from, `draft.careful` that it
was first typed into when its day was loaded and nothing was under way; `answered` is the
newest own save the caches must show.

`CalendarPage` has the stack of dialogs, the form of the editor, the drag that waits for a scope and
the writes under way; `holds` is the edition a write was built on, `careful` that nothing was
under way when its dialog was opened or its event dragged, `told` the newest own write of an event that was
answered to the page. A move of a series reads the event again before it writes, as the code does. A
this-and-following edit also begins another event on the server, which the model does not follow.

The server's side of these pages (`ServeAction`, `ServeDream`, `ServeWorklog`, `ServeCall`) is one step per request, taken
from the services in `internal/`; what happens between their statements is in `ReleaseUpdate`, `FileStore`
and `LearningMinutes`.

### ScriptLibrary, FriendRecords, CommunicationTools and Navigation

The two tabs keep what they filter by in the address (`filters`) and in the page (`wants`),
which is why only the first returns to page one when a filter changes. The queries are
kept under the key of the filters, and a change is one mutation under way. `strayed` and
`off` mark a page number that was not chosen on the list as it is now, `apart` and `lost` a list that
was left behind its records (a lost answer, a joined fetch), and `behind` that a friend was
saved since the list was read, which no answer refreshes. `Found`, `ListedFriends` and the changes served are
`internal/communication`: the type a list is filtered by is a LIKE pattern, so that a name finds the names that contain it
(`Alike`); a save ensures its type in a statement of its own, so that a script that is not written leaves its type
behind; a new friend's record is never archived. The words searched for match the same scripts all along (`Matching`, `Wanted`):
an edit that changes whether a script is found by them is left out.

`Navigation` has the links of each role, the guards of the routes and the roles they admit, the
return address of the login, and the set of open groups, which pages, drawer, rail and reader
all change. An address that the role may not see unmounts the shell and mounts it anew under the role's home (`Arrives`,
`AdmitsShell`: the page of the administrators has its own guard inside their shell). `folded` and `astray` are histories.

### ClientConversions and MCClient

`ClientConversions` translates the functions of `lib/date.ts` and `lib/pv.ts` with days,
months, half-hours and hundredths as numbers; the calendar of `Date` and the offset of a time zone
(one change) are external and in `Calendar`. Its variables only enumerate days and zones.

`MCClient` is a sum, not a product: a behaviour chooses one part and the others stay where they
begin. The parts share no variable; what one does to another (an account switch removes the pages'
data) is inside `ClientSession`. The VIEW `Followed` shows TLC only the variables of the part
followed and merges the states in which a part has stopped; every property is a statement about
one part and holds trivially in those states, so nothing is hidden from a property. Of a session that is `crossed`
it leaves out the cached entries too: no guard reads them, `CacheIsOwn` is silent, and the steps that sign the tab out, after which
`SignedOutIsClean` speaks of them, end `crossed` and remove what it asks about.

## 3. Runs

| Run | Instance | Shows |
|---|---|---|
| `release_faults` | 3 requests, 3 releases (2 accepts 1's schema, 3 breaks 1), all faults | `TaskFilesAgree` (`TaskHoldsLock` and `QueuedStatusIsOwn`, until a claim fails), `LinkMovesToCompatible`, `SuccessIsComplete`, `VisibleNeverRegresses`, and that it implements `ReleaseTask` (`TaskSpec`) |
| `release_benign` | 3 requests, 3 releases that accept every schema, only the API and its writes fail, fair | `CurrentInstalled`, `RestoredClaimIsTrue`, `UpdateMovesForward`, `TasksEnd` (`CommittedIsReported` and `LockIsReleased`) |
| `release_rollback` | 2 requests, no faults but failing steps | violates `RollbackOnlySwitches` |
| `release_refusal` | 3 requests, no faults | violates `RefusalReleasesLock` |
| `files` | 2 files, 1 deletion of the account, 1 failure of any kind, fair, every file removable in the end | `StoredFilesStay`, `RowsAgree` (`GoneOwnsNothing` and `FailuresAreOrphans`), `LeftoversGo` |
| `file_retry` | the same with a file that can never be removed | violates `FailuresResolve` |
| `registration` | 2 requests, 2 codes, 1 username, limit 1 or none, expiry or none, statements fail and replies get lost, fair | `UsesAreCounted`, `Admitted`, `RegistrationsEnd`, and that it implements `Membership` (`MembershipSpec`), in which no two members share a name |
| `records` | 3 members, 2 tabs; or one day, 2 requests, minutes up to 1, sessions of reading; or 1 job, 6 zones, 4 instants, 1 snapshot | `TeamIsAcyclic`, `DeletionKeepsTheRest`; `DayIsWhole`; `LabelsAreExplained` |
| `snapshot_month` | 1 job, 1 zone east of Greenwich, 1 instant | violates `LabelsAreJustFinished` |
| `goals` | 3 goals, 2 tabs, fair | `GoalsAreAcyclic`, `WalkIsExact`, `DeletedGoalsStayGone`, `WalksEnd` |
| `statements` | 1 session, 2 accounts, 2 handlers; or 2 users, 1 request, 1 job, 1 change of a team, 2 snapshots, failing statements; or 4 callers, 2 connections | `OnlyAuthenticated`, `SessionsKeepUp` (`ChangesInvalidate` and `ActiveIsLinked`); `SnapshotsAreWhole`, `SnapshotsGrowNewer`, `JobsAreComplete`; `ListsAloneBlock` |
| `client` | one tab, each part of it in turn; constants in `MCClient.cfg` | `MeIsCurrent`, `TabHoldsItsOwn` (`CacheIsOwn` and `SignedOutIsClean`), `ShownIsCurrent`, `AcceptedIsFollowed`, `PicturesAreAccounted`, `NoEntryIsTakenBack`, `CalendarWritesAreCurrent`, `ReaderIsLed`, `ConversionsAgree`, `ListsAreHonest` |

Why the bounds are enough. Three requests let one wait at the lock while another runs
and a third was validated before either; three releases are the fewest with one that
accepts the others' schemas and one that does not. Two files suffice for everything the
file properties relate (one known, one orphan); one failure is the one that is then handled, and the
theorems about the three invariants hold for any number of failures and deletions. Where a run has several parts, a behaviour follows one of them and the others stay as they begin, so that the parts are
checked next to each other and not multiplied. Two registrations are all that one row lock or one
username tells apart, and two codes let them hold different rows and want one name. Three members
or goals are a chain whose middle can go or whose top can move under its bottom, and two
tabs are one request that reads and another that overtakes it. Two requests for a day are a save and what meets it;
no minutes delete a row and one minute writes it, and the comparison with the items, done for each type alike, needs sessions of one type only. A request and a job are one capture that waits for another of the same label, a second
user the one a failing job leaves out; two snapshots are one of each user, or
two labels of one user; the labels need no second capture or snapshot, and their zones lie on
both sides of Greenwich, on it, and change their clocks at the first midnight of a month. Two
connections are the fewest of which one list cannot take all; with four callers two lists
can block two more. Sessions do not know each
other: what one account or handler does to a session is seen in one, with a second account
to switch to and a second handler to overtake the first. In the browser two accounts are one to leave and one to arrive at, two
requests under way (of which one may load a page's data) are one that overtakes the other, and two changes to a record an older and a newer
one; administrators' accounts, of whom the same code is run with other keys, are left to the theorems.
The days of `ConversionsAgree` are those from 2023-12-25 to 2024-09-16, with a change of year, a leap day, the start of a business
year, and zones whose clocks skip, repeat or do neither with hours, one of them with midnight. The theorems of section 5 remove
these bounds from most of the safety properties. `CHECK_DEADLOCK FALSE` is said where
requests are used up.

What the properties leave out. Some of them are stated for the time until a particular overlap
happens, because the code sorts that overlap out nowhere; they show that everything else is harmless, and not that the overlap
is: `TeamIsAcyclic`, `GoalsAreAcyclic` and `SessionsKeepUp` (`raced`), `AcceptedIsFollowed` (`calm`: no poll or check
under way), `CalendarWritesAreCurrent` (writes built one after the other), `TaskFilesAgree` and `VisibleNeverRegresses` (`lapsed`),
`MeIsCurrent` (`unsure`: a switch under a fetch of `me`), `CacheIsOwn` (`crossed`), `PicturesAreAccounted` (`dreamDisturbed`), the
filters and pages of `ListsAreHonest` (`off`, `strayed`).
`hazards` in `PROJECT.json` says at each of them what is left out. Section 4 says what then happens.

Fairness, and why the code has it:

* `ReleaseUpdate`: weak fairness of the updater (the systemd path unit starts it while
  `request.json` exists; downloads, health checks and the service have time limits)
  and of each handler that has begun (a goroutine runs on). `LockIsReleased` leaves out
  a handler that died with the API before it committed its request: that lock is the
  operator's to remove, as the documentation says.
* `FileStore`: weak fairness of the job's steps (a daily timer with `Persistent=true`) and
  of a recorded failure falling due; strong fairness of a file growing older than the grace
  period, because it does so between two days' jobs, whatever else goes on. No handler has to finish.
* `Registration`: weak fairness of each request's next statement; PostgreSQL wakes
  waiters when the transaction they wait for ends.
* `GoalTree`: weak fairness of the walk's next query.
* The other modules state no fairness. What those of the browser promise is said of states in which
  nothing is under way.

## 4. What the code does that its documents do not say

Checked by runs that find the violation:

* **A failed rollback deletes the release** (`release_rollback`). `on_error` removes the
  target's directories after a successful restore, whether it made them or not
  (`scripts/release-updater.sh:489`); `docs/release-management.md:132` says a rollback only
  switches between installed releases.
* **A refused rollback keeps the lock** (`release_refusal`). `manifest_compatible` fails
  inside a function called outside a condition; the script has no `errtrace`, so the ERR
  trap does not run there, and the script ends with lock and status as they were
  (`release-updater.sh:662`). `release-updater-test.sh:361` expects a failed status and no lock.
* **A stuck file stops the retries** (`file_retry`). `CleanupOrphanFiles` returns at the first
  file it cannot remove and the command then never calls `RetryFileCleanup`
  (`internal/files/service.go:284`), against the comment at 188.
* **A month too early** (`snapshot_month`). `SnapshotMonthFor` turns the first of the finished month, by the
  account's clocks, into UTC, and `CreateSnapshot` takes the month of that instant (`internal/team/service.go:369`, `267`): east of
  Greenwich, the default `Asia/Shanghai` included, that is the month before, against the comment at 334. The
  unit test (`service_test.go:10`) looks at the instant before it is truncated. Where
  the clocks skip the midnight at which the current month begins (Asuncion in October 2023) the label shifts as well.

Met while modelling, without a run of its own (in the models unless said otherwise):

* A claim that fails gives up a lock it should keep. `claim_request` sets `claim_dir` before its `mv`; when that fails (a full disk, a
  read-only file system) `on_error` runs `cleanup_owned_request`, which takes `claim_dir` for a claim and removes
  `queued-status.json` and `update.lock`, while `request.json` stays in place
  (`scripts/release-updater.sh:206-215`, `62-78`). The path unit starts the script again, now for a request without
  a lock: another request can be queued beside it, overwrite it while it waits, or lose its own lock to the
  end of the first. `docs/release-management.md:115` has every update begin with a lock that refuses
  concurrent tasks. In `ReleaseUpdate` this is `ClaimFails`.
* The dream editor can forget a picture. It is filled from the dream of the cached list, or of the detail sheet
  (`features/goals/goals-page.tsx:239-249`, `264`, `315`). After a save that list is stale until the refetch started at 178 is
  answered, and stays so when it fails. A save of the stale dream then unlinks the pictures the save before had added
  (`internal/daily/service.go:445-449`), and nothing deletes them.
* Adding an account leaves loads of the former one running. The server makes the added account the active one
  (`internal/auth/service.go:238-262`), but `addMutation` neither cancels nor removes the `user` queries
  (`components/layout/account-menu.tsx:90-101`) as the switch beside it does (72-75): a load asked for under
  the former account's key is served for the added one, and stays under that key until the next switch or sign-out
  removes it (`crossed`).

* Two saves make a cycle. The test and the write of `SaveMember` are separate statements
  (`internal/team/service.go:149`, message "team hierarchy cannot contain a cycle" at 157); `TeamIsAcyclic` says what
  it takes (`raced`). Afterwards the recursive query, started on the cycle, does not end. `validateGoalParent`
  (`internal/daily/service.go:766`) has the same gap: goals get a cycle once `raced` is true.
  Its walk still ends (`WalksEnd`), because it remembers what it has met.
* With releases that do not accept each other's schemas, a failed task whose target is
  also the current release restores the links to it and then removes it, and reports the
  application restored: `RestoredClaimIsTrue` fails under the constants of
  `release_faults` (that is why `release_benign` states its constants).
* A second update to an installed version writes over its directories: the guard at
  `release-updater.sh:602` is an `&&` list, and only its last command's failure ends the
  script (`TargetMayBeFetched`), against "immutable" in `docs/release-management.md:121`.
* A deletion of an account that breaks off after its first statement leaves the account
  `DELETING`; every later request answers "account is already being deleted"
  (`internal/files/service.go:196`) though nobody deletes it.
* An update of a team member deleted meanwhile creates him again
  (`internal/team/service.go:176`, INSERT ... ON CONFLICT), where
  `backend/openapi/openapi.yaml:1285` speaks of an update.
* A switch or an addition that overlaps a new password or a disabling can leave the account
  in the session (`db/queries/auth.sql:94` and `113` each read before the other writes); the
  handler at `internal/api/handler.go:246-248` counts on such changes having removed it.
* Two tabs can remove the link of the account in use: the test at `internal/api/handler.go:243`
  looks at what the middleware read. `LoadSession` then adds the link again, as it would for
  what its comment (`internal/auth/session.go:236`) calls legacy sessions only.
* A list of the communication tools that is being fetched while the account is switched arrives
  under the former account's key with the new account's rows, and is shown when the reader switches back:
  the switch cancels and removes only keys that begin with `user`
  (`frontend/src/components/layout/account-menu.tsx:72-75`), where `docs/communication-tools.md:7` says
  records and scripts are isolated by the account that is signed in. `CacheIsOwn` speaks of the
  `user` keys for that reason.
* Saving a friend's record or his progress refreshes a key without the account, which no query has
  (`features/communication/communication-page.tsx:1019` and `1032`; the keys are at `871`): the list stays as it was, and an
  edit of the old row writes the old progress back.
* Deleting a knowledge item deletes its learning sessions but not what the page shows of them
  (`features/knowledge/knowledge-page.tsx:50`), and a saved dream's files are not listed again.
* The filters of the friends' list do not return to its first page (`communication-page.tsx:813`): on a later page a filter can show
  "nothing" although it selects records.
* On the day before clocks skip midnight (Santiago, Asuncion) the settings page asks for the instant of that
  midnight while it is rendered, `zonedDateTimeToISO` throws, and no error boundary catches it
  (`features/auth/settings-page.tsx:109`); so does `calendarQueryRange` where the first midnight of a month is
  skipped. `PreviewCountsDown`, a part of `ConversionsAgree`, says that this happens exactly there.
* A picture whose upload ends after its sheet was closed, and one that is chosen when the page is
  left, stay on the server without a dream (`features/goals/goals-page.tsx:128-143`, `182-191`); so do all pictures of a deleted dream.
  The answer of a save closes whatever sheet or editor is in front
  (`goals-page.tsx:177`, `calendar-page.tsx:267`).
* An event that is saved with a new contact stores the contact first; when the event then fails, each retry
  stores the contact again and is refused as a duplicate (`calendar-page.tsx:264`,
  `internal/calendar/service.go:113`; contacts are not in `CalendarPage`).
* A deletion of a day whose first save is under way sees no worklog and does not wait for it; when that save
  commits before the deletion's next statement, its minutes go and its worklog stays
  (`internal/daily/service.go:312-319`; `loose` in `LearningMinutes`).
* A session of an item is compared with nothing, so items can outgrow a total that was refused when it was less than
  they were (`internal/knowledge/service.go:224` and `249`; `outgrown`). The dashboard adds both (`internal/daily/service.go:605`),
  although by that comparison the total contains them; `db/queries/daily_core.sql:106` counts totals only (not in the models).
* As many lists at once as the pool has connections (by default the larger of four and the number of
  processors), each at its first row, wait for each other, and everybody else behind them, until one of
  the clients gives up: `ListsAloneBlock` has that state as its only exception. The pages of
  knowledge and calendar ask for such lists. The readiness check (`internal/health/handler.go:41`) then
  fails after its two seconds.
* A registration whose session cannot be opened answers with an error although the
  account exists (`internal/api/handler.go:80`).

## 5. Proofs

Each `*Proofs` module proves its theorems from the assumptions of the
modules, `ConstantsAssumption` and the like (disjointness of ids and special values, finite
sets where something is counted), which TLC also evaluates in the runs.

* `ReleaseUpdateProofs`: `TypeCorrect`, `OneTaskHoldsLock` and `StatusBelongsToTask` (together `TaskFilesBelongTogether`),
  `BackendAcceptsSchema`, `SuccessReportIsTrue`, `PollingNeverRegresses`, and `ImplementsTaskQueue` (the
  refinement of `ReleaseTask`). The inductive invariants are `LockInv` (where each
  request is, against the lock, the trigger and the claim), `StageInv` (what each stage
  of the script knows about links, directories and schema; without it the step that
  reports success knows nothing of the steps before it) and `ReportInv`. What they say of lock and trigger holds until a
  claim fails; the rest, and the refinement, hold after it as well.
  `CurrentIsInstalled`, `RestoredReportIsTrue` and `UpdatesMoveForward` are proved from two
  assumptions stated with them, which `release_benign` instantiates and `release_faults` refutes: every release
  accepts the schema of every other (`SchemasAgree`), and the updater is not killed and what it restores succeeds
  (`RestoresWork`; no claim fails either). Without the first, a failed task whose target is the current release
  removes what it has just restored; without the second a restore that breaks off leaves links to
  what was removed. Their invariant `ReleaseInv` says where the links and the API agree, what each stage
  has kept of the release before the task, and that a request under way asks for another release than the
  one that runs, an update for a newer one.
* `FileStoreProofs`: `TypeCorrect`, `StoredFilesAreKept`, `GoneAccountsOwnNothing` and
  `FailuresNameOrphans` (together `RowsStayInAgreement`), from `StoreInv`, which ties the names held by the job and by a
  deletion under way to the rows they were read from: a file can only be taken for an
  orphan when it is old and was unknown, and by then its upload is over.
* `RegistrationProofs`: `TypeCorrect`, `UsesCounted`, `NamesUnique`, `OnlyAdmitted`, and
  `ImplementsMembership`, the refinement of `Membership`. The
  invariant says that a transaction past `Consume` holds the row lock and that the
  invitation, which nobody can then change, still satisfies the WHERE clause; that an
  account without a commit does not exist; that at most one request is pending or has an
  account for each name; and the count itself. With it, `Commit` maps to `Join`: the row it writes is
  the one `Find` tested, because it has held its lock since `Consume`, and the name is nobody's. Every
  other step maps to an action of the administrators, to `Leave`, or to a stutter.
  Of the connections `PoolTypesKept` and `OnlyListsBlock` (`ListsAloneBlock` for any callers and
  connections). The invariant (`PoolShape`) says that who waits holds nothing, or the one connection its list is
  read with, and that nobody holds more than two. When no connection is free and
  everybody who holds one waits, each connection is held by a waiting list and each of these holds one:
  the lists are at least as many as the connections.
* `RecordsProofs`: of the snapshots `SnapshotTypesKept`, `SnapshotsStayWhole`, `CapturesAreInOrder`,
  `JobsCaptureAll` and `MonthsAreExplained`, for any users, requests, jobs and zones. The invariant
  (`SnapshotInv`) says that one transaction at a time is past the upsert of a label, that what it has cleared is
  still all there is, that it began before the team it has read, and not before its job, and that every
  account a running job has left behind is captured. `MonthsAreExplained` follows the
  label through the two conversions, with the lemmas of `OperatorProofs` about months.
  Of the team `TypeCorrect`, `OnlyRacesMakeCycles` and `DeletionsKeepTheRest`, for any
  number of tabs. The invariant says of every request nobody has overtaken that what it read is still so: a
  drawn id has no row, a parent that passed the test is not below the member, and the
  parent a deletion read is still the member's. A write marks every other request under
  way, so only the writer's own part is left to show. That a deletion changes who is above whom for nobody else
  needs no forest: the property once excused teams with a cycle too, and the proof showed that it need not.
  Of a day's minutes `DaysAreWhole`, for any number of requests: a row is written by one
  transaction at a time; the one that holds the worklog has written what it will leave of every type it has been through, or has
  found no row to delete, which nobody has brought back since; a deletion that missed the worklog is
  `loose`; and a total that passed the comparison suffices for its items until a session is recorded.
* `GoalTreeProofs`: `TypeCorrect`, `DeletedStayGone` (the invariant says that an id drawn
  for a new goal is drawn once), `OnlyRacesMakeCycles` and `UndisturbedWalkIsExact`, for any
  number of tabs. A walk nobody has overtaken keeps two facts: begun below the goal, it
  stays below it and has marked it; and everything it has marked, the goal apart, and the
  parent it started from are below where it stands.
* `BrowserSessionsProofs`: `TypeCorrect`, `SessionsHoldOnlyAuthenticated`,
  `OnlyRacesOutliveChanges` and `OnlyRacesUnlinkTheActive` (together `OnlyRacesLeaveSessionsBehind`), for any number of sessions and
  handlers. `EverInv` says what no race can disturb: a handler about to write an account into
  a session has read it there, an uncommitted link keeps its session and account, and a
  deleted account is nowhere. `UnracedInv` says of every handler that what it has read is true
  still except for the accounts it has missed (`given`, `taken`); a step then needs an argument
  about its own handler only, since it adds to what all others have missed (`Remembered`,
  `OthersAbreast`).
* `ClientProofs`, a section for each module. `SessionTypeCorrect`, `TabIsCurrent`, `CacheBelongsToUser` and
  `SignedOutHoldsNothing` (the last two together `TabKeepsItsOwn`; `MeIsCurrent`, `CacheIsOwn`, `SignedOutIsClean` for any users,
  administrators and bounds), from `SessionInvariant`. Its parts hold until the tab is `unsure`: one
  operation at a time and no fetch of `me` that it would not cancel (`Alone`); an answer under way tells of the session
  there is (`Told`); what `me` holds or is about to be answered agrees with it unless such an
  answer will replace it (`InStep`); a tab that knows nobody holds nothing (`Clean`); what is cached or
  under way for a user is his (`Owned`, until an account is added past a load). Without `Told` and `InStep` the step that
  stores an answer would know nothing of it.
  + `ReadersAreLed`, for every route and role, from the finite tables of routes and links. The
    first attempt failed: `Admits` had two branches for the settings and let TLC choose the first, which is
    now written as the code's one guard.
  + `AcceptedStaysInView`, for any number of tasks: no answer tells of a status that is to come, and while the page's own
    task runs all that is shown, read or served since is its status.
  + `ListsKeepUp` (`ShownIsCurrent`): what the server is about to answer, what is taken as fresh and what is shown at
    rest holds every change the tab was told of. That the changes name what they write, or that no page takes as fresh
    what they forget, is a fact of the tables (`ChangesNameTheirs`), proved row by row.
  + `FormsKeepOwnEntries` (`NoEntryIsTakenBack`) and `CalendarWritesStayCurrent` (`CalendarWritesAreCurrent`), for any
    number of saves, dialogs, drags and writes: what the server has, what is read of it and what a list at rest shows is
    not older than what the page was told of. For the calendar, what was taken over with care also pins down the dialogs
    that can be open and the kind of the writes under way (`HeldIsCurrent`), so that an answer that
    closes somebody else's dialog cannot be meant; and a day and a scope are never in front of another dialog.
    The run of this page has one write at a time, the theorem any number.
  + `NoPictureIsForgotten` (`PicturesAreAccounted`), for any pictures: every stored picture is of the dream, or the sheet
    or a request knows of it, and these sets stay apart in the way that the sheet's own lists say, as long as the
    editor was opened on a dream as it is stored.
  + `ListsCountEverything` (`ListsAreHonest`), for any scripts, types, friends and page sizes: a count taken
    while nothing is written is the one the filters select, and a page beyond it is noticed. Counting needs
    finitely many scripts and friends, and a filter needs a type to choose: both are assumed of the constants.
  + `ConversionsHold` (`ConversionsAgree` for any days and any zones whose offsets are less than a day and change once):
    weeks, months, business years, calendar pages and review periods are those of the calendar, with the lemmas of
    `OperatorProofs` about it. `WallTimesAreFound`, `BoundariesAreMet` and `AmountsRoundTrip` are its parts that hold
    for every instant and every amount. `BoundariesAreMet` promises the change of the date only
    where the clocks do not show the midnight in question twice: east of
    Greenwich `zonedDateTimeToISO` takes the second one (Amman's until 2021), an hour after the date has changed.
* `OperatorProofs`. Of `Forest`: moving a row under one that is not below it, taking out a row with
  all below it, and promoting children all keep a forest a forest; promoting children also keeps who
  else is above whom; being below is transitive; a parent is not below its child. These are statements about sets of
  rows and need no induction. Of `Calendar`: a month begins 28 to 31 days after the one before it, a year
  31 days after its December, and every day has one year and one month, which the
  `CHOOSE` in `YearOf` and `MonthOf` finds (`YearFound`, `MonthFound`). That the first guess of the year is off by at
  most one is arithmetic with quotients by 4, 100, 400 and 146097, bounded one by one.

Only model-checked: everything about liveness (TLAPS does not handle fairness and
ENABLED), that is `TasksEnd`, `LeftoversGo`, `RegistrationsEnd` and `WalksEnd`. That the pool
serves whoever waits is not stated at all: it is pgxpool's.

The type invariants (`TypeOK`, `SessionTypeOK`, ...) are proved where a `*Proofs` module exists and
are not checked again by the runs.

## 6. Not modelled, and the plan

Not modelled: parsing, validation and rendering in the HTTP handlers, generated code (in the
backend, and `frontend/src/api/openapi.gen.ts`, 5591 lines of types that are erased when the frontend is built),
configuration and start-up, reviews, analytics and search in the backend (queries without state of their own), password
hashing, headers, build and development scripts. In the frontend: components, texts, menus,
titles, the delays of type-ahead searches, charts and layout, validation of fields, and
`features/dashboard/account-switcher.tsx`, which nothing imports. The table of components
in `PROJECT.json` says so part by part.

Done, in the order of the plan: `ReleaseTask`, `ReleaseUpdate` with refinement and proofs;
`FileStore`; `Membership` and `Registration` with refinement; `Forest`, `TeamTree`, `GoalTree`; `BrowserSessions`;
`LearningMinutes`; `TeamSnapshots` over `Calendar`; `ConnPool`; the browser's application, part by part. Each has its proofs.

Left, the most important first:

1. Contacts in `CalendarPage`, and the event that a this-and-following edit begins.
2. Pure algorithms as functions against a reference definition: `CompareVersions`
   (`internal/release/service.go:412`), the expansion of recurring events, the window and counter of `internal/auth/rate_limit.go`.
3. `ClientSession` over `BrowserSessions`: both model the handlers of the session, one as steps of a request and one statement
   by statement; a refinement between the two is not stated.
4. Proofs: types of the pages as theorems of their own; what `GoalTree` leaves of the hierarchy after a deletion;
   the theorems of whatever 1 to 3 add.
