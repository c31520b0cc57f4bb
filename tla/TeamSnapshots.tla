---------------------------- MODULE TeamSnapshots ----------------------------
(***************************************************************************)
(* Snapshots of users' teams: a transaction at READ COMMITTED that writes  *)
(* the row of a month, clears its members, reads the team and copies it,   *)
(* on request or for one account after another in the monthly job.         *)
(*                                                                         *)
(* What a team consists of is TeamTree's; here it is known by its edition, *)
(* which every change of a member raises.  The same number is the clock:   *)
(* the time a snapshot was captured at is the edition there was.  What     *)
(* captured_late says is left out.                                         *)
(***************************************************************************)
EXTENDS Calendar

CONSTANTS
    Users,
    NoLabel,     \* of a transaction that is over
    Captors,     \* requests that capture a month somebody chose
    Jobs,        \* processes that run the monthly job
    Zones,       \* bound: an offset before and after an instant
    Instants,    \* bound: when a job is started
    Chosen,      \* bound: days of the months that are chosen
    MaxEditions  \* bound: of a team

Captures == Captors \cup Jobs
SnapshotTypes == {"AUTO", "MANUAL"}
Labels == [user : Users, month : Int, type : SnapshotTypes]

ASSUME SnapshotAssumption ==
    /\ Captors \cap Jobs = {} /\ NoLabel \notin Labels
    /\ Instants \cup Chosen \subseteq Int /\ MaxEditions \in Nat
    /\ \A z \in Zones : z.at \in Int /\ {z.before, z.after} \subseteq (-HalfHours)..HalfHours

VARIABLES
    editions,   \* of each user's team
    snapshots,  \* table: what is captured for a user, a month and a type
    captures,   \* the transaction of each request or job, by its next statement
    jobs        \* the accounts that a run of the job still has to visit

snapshotVars == <<editions, snapshots, captures, jobs>>

SnapshotTypeOK ==
    /\ editions \in [Users -> Nat]
    /\ DOMAIN snapshots \subseteq Labels
    /\ \A l \in DOMAIN snapshots : snapshots[l] \in [captured : Nat, members : SUBSET Nat]
    /\ captures \in [Captures ->
            [next : {"idle", "upsert", "clear", "read", "commit"}, label : Labels \cup {NoLabel},
             began : Nat, cleared : SUBSET Nat, team : Nat]]
    /\ jobs \in [Jobs ->
            [state : {"running", "ended", "failed"}, now : Int, left : SUBSET Users,
             zones : UNION {[active -> Zones] : active \in SUBSET Users}, since : [Users -> Nat]]]

-----------------------------------------------------------------------------
(* The month of a snapshot                                                 *)

MonthStart(day) == DateUTC(YearOf(day), MonthOf(day), 1)

\* External: time.Date in a location, of what its clocks are to show.  Where
\* they skip it, one of the two offsets is used.
LocalDate(zone, wall) == wall - Offset(zone, wall - Offset(zone, wall))

\* External: AddDate(0, -1, 0) on the date.
MonthBack(day) == DateUTC(YearOf(day), MonthOf(day) - 1, day - MonthStart(day) + 1)

LocalMonth(now, zone) == MonthStart(WallTime(zone, now) \div HalfHours)

\* Variant: the account's timezone is not asked.
GreenwichMonthFor(now, zone) == MonthBack(MonthStart(now \div HalfHours)) * HalfHours

SnapshotMonthFor(now, zone) ==
    LET shown == WallTime(zone, LocalDate(zone, LocalMonth(now, zone) * HalfHours))
    IN LocalDate(zone, (MonthBack(shown \div HalfHours) * HalfHours) + (shown % HalfHours))

-----------------------------------------------------------------------------
(* Service.CreateSnapshot                                                  *)

NoCapture == [next |-> "idle", label |-> NoLabel, began |-> 0, cleared |-> {}, team |-> 0]

SnapshotInit ==
    /\ editions = [u \in Users |-> 0]
    /\ snapshots = <<>>
    /\ captures = [c \in Captures |-> NoCapture]
    /\ jobs = [j \in Jobs |-> [state |-> "ended", now |-> 0, left |-> {},
                               zones |-> [u \in {} |-> {}], since |-> [u \in Users |-> 0]]]

\* A member is saved or deleted.
ChangeTeam(u) ==
    /\ editions[u] < MaxEditions
    /\ editions' = [editions EXCEPT ![u] = @ + 1]
    /\ UNCHANGED <<snapshots, captures, jobs>>

\* The month is truncated, the transaction begins: now() is this moment.
CreateSnapshot(c, user, day, type) ==
    /\ captures[c].next = "idle"
    /\ captures' = [captures EXCEPT ![c] =
            [NoCapture EXCEPT !.next = "upsert", !.began = editions[user],
                         !.label = [user |-> user, month |-> MonthStart(day), type |-> type]]]

Continue(c, next) == captures' = [captures EXCEPT ![c].next = next]

\* The row of the label stays locked from its upsert to the end.
Holds(c) == captures[c].next \in {"clear", "read", "commit"}

UpsertSnapshot(c) ==
    /\ captures[c].next = "upsert"
    /\ \A d \in Captures \ {c} : Holds(d) => captures[d].label # captures[c].label
    /\ Continue(c, "clear")
    /\ UNCHANGED <<editions, snapshots, jobs>>

\* The members that are seen, which are those of the last commit.
MembersOf(label) == IF label \in DOMAIN snapshots THEN snapshots[label].members ELSE {}

\* Variant: the old members stay.
ClearedNothing(c) == {}

MembersCleared(c) == MembersOf(captures[c].label)

ClearMembers(c) ==
    /\ captures[c].next = "clear"
    /\ captures' = [captures EXCEPT ![c].next = "read", ![c].cleared = MembersCleared(c)]
    /\ UNCHANGED <<editions, snapshots, jobs>>

\* Variant: the team is read before the row is locked.
TeamReadEarly(c) == captures[c].began

TeamRead(c) == editions[captures[c].label.user]

ReadTeam(c) ==
    /\ captures[c].next = "read"
    /\ captures' = [captures EXCEPT ![c].next = "commit", ![c].team = TeamRead(c)]
    /\ UNCHANGED <<editions, snapshots, jobs>>

\* Variant: the job goes on with the next account.
SkipsAccount(c) ==
    jobs' = [j \in Jobs |->
                IF j = c /\ captures[c].next # "idle"
                THEN [jobs[j] EXCEPT !.left = @ \ {captures[c].label.user}] ELSE jobs[j]]

FailsJob(c) == jobs' = [j \in Jobs |-> IF j = c THEN [jobs[j] EXCEPT !.state = "failed"] ELSE jobs[j]]

\* The copies, one INSERT each, are seen when the transaction commits; the
\* answer is then read back, which may fail.
CommitSnapshot(c) ==
    /\ captures[c].next = "commit"
    /\ LET label == captures[c].label
           row == [captured |-> captures[c].began,
                   members |-> (MembersOf(label) \ captures[c].cleared) \cup {captures[c].team}]
       IN /\ snapshots' = [l \in DOMAIN snapshots \cup {label} |->
                              IF l = label THEN row ELSE snapshots[l]]
          /\ \/ FailsJob(c)
             \/ jobs' = [j \in Jobs |-> IF j = c THEN [jobs[j] EXCEPT !.left = @ \ {label.user}]
                                        ELSE jobs[j]]
    /\ captures' = [captures EXCEPT ![c] = NoCapture]
    /\ UNCHANGED editions

\* A statement fails: the transaction is rolled back, and the job is over.
FailSnapshot(c) ==
    /\ captures[c].next # "idle"
    /\ captures' = [captures EXCEPT ![c] = NoCapture]
    /\ FailsJob(c)
    /\ UNCHANGED <<editions, snapshots>>

-----------------------------------------------------------------------------
(* The handler, and Service.CaptureMonthlySnapshots                        *)

RequestSnapshot(c) ==
    /\ \E user \in Users, day \in Chosen, type \in SnapshotTypes : CreateSnapshot(c, user, day, type)
    /\ UNCHANGED <<editions, snapshots, jobs>>

\* The active accounts with their timezones are one result, read row by row.
StartJob(j) ==
    /\ jobs[j].state # "running"
    /\ \E now \in Instants, active \in SUBSET Users : \E zones \in [active -> Zones] :
        jobs' = [jobs EXCEPT ![j] = [state |-> "running", now |-> now, left |-> active,
                                     zones |-> zones, since |-> editions]]
    /\ UNCHANGED <<editions, snapshots, captures>>

JobMonth(j, user) == SnapshotMonthFor(jobs[j].now, jobs[j].zones[user]) \div HalfHours

CaptureNext(j) ==
    /\ jobs[j].state = "running"
    /\ \E user \in jobs[j].left : CreateSnapshot(j, user, JobMonth(j, user), "AUTO")
    /\ UNCHANGED <<editions, snapshots, jobs>>

EndJob(j) ==
    /\ jobs[j].state = "running" /\ captures[j].next = "idle" /\ jobs[j].left = {}
    /\ jobs' = [jobs EXCEPT ![j].state = "ended"]
    /\ UNCHANGED <<editions, snapshots, captures>>

\* A row of the result or its timezone is refused, or the deadline has passed.
FailJob(j) ==
    /\ jobs[j].state = "running" /\ captures[j].next = "idle"
    /\ FailsJob(j)
    /\ UNCHANGED <<editions, snapshots, captures>>

-----------------------------------------------------------------------------
SnapshotNext ==
    \/ \E u \in Users : ChangeTeam(u)
    \/ \E c \in Captures :
        UpsertSnapshot(c) \/ ClearMembers(c) \/ ReadTeam(c) \/ CommitSnapshot(c) \/ FailSnapshot(c)
    \/ \E c \in Captors : RequestSnapshot(c)
    \/ \E j \in Jobs : StartJob(j) \/ CaptureNext(j) \/ EndJob(j) \/ FailJob(j)

SnapshotSpec == SnapshotInit /\ [][SnapshotNext]_snapshotVars

-----------------------------------------------------------------------------
(* Properties                                                              *)

\* A snapshot is one team, as it was at one moment that is not before the time
\* it was captured at, whatever captures of the same month overlap or fail.
SnapshotsAreWhole ==
    \A l \in DOMAIN snapshots : \E team \in snapshots[l].captured..editions[l.user] :
        snapshots[l].members = {team}

\* A capture that waited for another one of the same month does not put back
\* an older team, and no snapshot is lost.
SnapshotsGrowNewer ==
    [][\A l \in DOMAIN snapshots :
        /\ l \in DOMAIN snapshots'
        /\ \A old \in snapshots[l].members, fresh \in snapshots'[l].members : old <= fresh]_snapshotVars

LabelOf(j, user) == [user |-> user, month |-> MonthStart(JobMonth(j, user)), type |-> "AUTO"]

\* A job that ended well has a snapshot of the team of every account that was
\* active at its start, none of them older than the job.
JobsAreComplete ==
    \A j \in Jobs : jobs[j].state = "ended" => \A user \in DOMAIN jobs[j].zones :
        /\ LabelOf(j, user) \in DOMAIN snapshots
        /\ \A team \in snapshots[LabelOf(j, user)].members : jobs[j].since[user] <= team

\* The clocks show midnight when the month begins.
ShowsMidnight(zone, month) == WallTime(zone, LocalDate(zone, month * HalfHours)) = month * HalfHours

\* The month before the current one, or the one before that where its first
\* midnight was still in the month before by Greenwich.
ExplainedMonth(now, zone) ==
    LET finished == MonthStart(LocalMonth(now, zone) - 1)
    IN IF LocalDate(zone, finished * HalfHours) < finished * HalfHours
       THEN MonthStart(finished - 1) ELSE finished

\* The month of the job's snapshots is the one just finished west of Greenwich
\* and the one before it to the east, for every account whose month began at
\* midnight.
LabelsAreExplained ==
    \A j \in Jobs : jobs[j].state = "running" => \A user \in DOMAIN jobs[j].zones :
        LET zone == jobs[j].zones[user]
        IN ShowsMidnight(zone, LocalMonth(jobs[j].now, zone)) =>
                MonthStart(JobMonth(j, user)) = ExplainedMonth(jobs[j].now, zone)

\* What the comment on the job says: the just-finished month of the account's
\* timezone.
LabelsAreJustFinished ==
    \A j \in Jobs : jobs[j].state = "running" => \A user \in DOMAIN jobs[j].zones :
        LET zone == jobs[j].zones[user]
        IN MonthStart(JobMonth(j, user)) = MonthStart(LocalMonth(jobs[j].now, zone) - 1)
=============================================================================
