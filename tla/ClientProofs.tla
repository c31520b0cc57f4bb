----------------------------- MODULE ClientProofs -----------------------------
(***************************************************************************)
(* Theorems about the browser's application, one section for each module,  *)
(* with the inductive invariant of each.                                   *)
(*                                                                         *)
(*   ClientSession: as long as no two account operations overlap, a tab    *)
(*     agrees with the session of its cookie except while an answer that   *)
(*     changed the session is on its way, and its caches are of the        *)
(*     account it shows.                                                   *)
(*   Navigation: a reader of a page is led to it.                          *)
(*   VersionCenter: a task that was accepted stays in view.                *)
(*   PageCache, WorklogForm, CalendarPage: lists keep up with what the     *)
(*     page wrote; forms, and the writes of events, take no own write back.*)
(*   DreamEditor: every picture is of a dream or on its way out.           *)
(*   CommunicationTools: the lists count all that the server has.          *)
(*   ClientConversions: the conversions agree on every day, in every       *)
(*     timezone and for every amount.                                      *)
(***************************************************************************)
EXTENDS ClientSession, Navigation, VersionCenter, PageCache, WorklogForm, DreamEditor,
        CalendarPage, CommunicationTools, ClientConversions, OperatorProofs,
        FiniteSetTheorems, SequenceTheorems, TLAPS

-----------------------------------------------------------------------------
(* The inductive invariant                                                 *)

Aimed == {"login", "switch", "add", "unlink"}       \* operations on an account
Telling == {"login", "switch", "add", "unlink", "timezone"} \* answered with a view
Leaving == {"logout", "password", "delete"}         \* operations that end the session

Done(k) == op[k].phase = "done"

\* What the requests and their answers say is well-formed.
Shaped ==
    /\ jar.token # 0 => jar.active \in Accounts
    /\ \A k \in Aimed : op[k].phase = "sent" => op[k].to \in Accounts
    /\ \A k \in Telling : Done(k) => op[k].view \in Views
    /\ ~me.busy => me.seen = NoData

\* One operation at a time, and no fetch of `me` that it would not cancel
Alone ==
    /\ \A j \in Kinds, k \in Kinds : Waiting(j) /\ Waiting(k) => j = k
    /\ \A k \in Kinds \ Steady : Waiting(k) => ~me.busy

\* The session is the one that an answer tells of, or it is over.
Told ==
    /\ \A k \in Telling : Done(k) =>
         jar.token # 0 /\ op[k].view.account = jar.active /\ op[k].view.token = jar.token
    /\ \A k \in Leaving : Done(k) => jar.token = 0

Agrees(d) ==
    \/ d = NoData
    \/ jar.token = 0 /\ d = SignedOut
    \/ jar.token # 0 /\ d \in Views /\ d.account = jar.active /\ d.token = jar.token

\* No answer is on its way that changes who is signed in.
Stable == \A k \in {"login", "switch", "add"} \cup Leaving : ~Done(k)

InStep == Stable => Agrees(me.data) /\ Agrees(me.seen)

\* Until a tab knows who is signed in, and once it knows that nobody is, it
\* holds nothing.
Clean ==
    Stable /\ me.data \notin Views =>
        \A e \in entries \cup loads : e.area = "communication"

\* What is cached of a user is the user's, and what is still to be read will be.
Owned ==
    ~Done("login") /\ ~Done("switch") /\ ~crossed =>
        /\ \A e \in entries \cup loads : e.area = "user" => e.owner \in {e.key, Nobody}
        /\ jar.token # 0 =>
             \A l \in loads : l.area = "user" /\ l.owner = Nobody => l.key = jar.active

Sure == Alone /\ Told /\ InStep /\ Clean /\ Owned

SessionInv == SessionTypeOK /\ Shaped /\ (unsure \/ Sure)

-----------------------------------------------------------------------------
(* The query of `me`                                                       *)

\* A query that is started or started over keeps its data, and what it was
\* about to be answered or nothing.
LEMMA StartedQuery ==
    ASSUME NEW D, NEW q \in Query(D), NEW s, s = Started(q) \/ s = Restarted(q)
    PROVE  s \in Query(D) /\ s.data = q.data /\ s.busy /\ s.seen \in {q.seen, NoData}
BY DEF Query, Started, Restarted

\* The server's reading of what its answer will say
LEMMA ReadQuery ==
    ASSUME NEW D, NEW q \in Query(D), NEW v \in D
    PROVE  /\ ReadAs(q, v) \in Query(D) /\ ReadAs(q, v).data = q.data
           /\ ReadAs(q, v).seen = v /\ ReadAs(q, v).busy = q.busy
BY DEF Query, ReadAs

\* The answer
LEMMA AnsweredQuery ==
    ASSUME NEW D, NEW q \in Query(D)
    PROVE  /\ Answered(q) \in Query(D) /\ Answered(q).data = q.seen
           /\ Answered(q).seen = NoData /\ ~Answered(q).busy
BY DEF Query, Answered

\* A fetch that fails or is cancelled
LEMMA EndedQuery ==
    ASSUME NEW D, NEW q \in Query(D), NEW s, s = Failed(q) \/ s = Cancelled(q)
    PROVE  s \in Query(D) /\ s.data = q.data /\ s.seen = NoData /\ ~s.busy
BY DEF Query, Failed, Cancelled

\* A fetch that failed says so.
LEMMA FailedQuery ==
    ASSUME NEW D, NEW q \in Query(D)
    PROVE  Failed(q).failed
BY DEF Query, Failed

\* Data put into the cache
LEMMA StoredQuery ==
    ASSUME NEW D, NEW q \in Query(D), NEW v \in D
    PROVE  /\ Stored(q, v) \in Query(D) /\ Stored(q, v).data = v
           /\ Stored(q, v).seen = q.seen /\ Stored(q, v).busy = q.busy
BY DEF Query, Stored

\* A route leads to a route.
LEMMA LandingIsARoute ==
    ASSUME NEW route \in Routes, NEW q
    PROVE  Landing(route, q) \in Routes
BY DEF Landing, HomeOf, Routes

LEMMA RedirectsAreTyped ==
    ASSUME SessionTypeOK, Redirects
    PROVE  at' \in Routes /\ from' \in Routes \cup {Nobody}
BY LandingIsARoute DEF SessionTypeOK, Redirects

-----------------------------------------------------------------------------
(* The steps that leave the operations and the session as they are         *)

\* What such a step has to keep besides the types
LEMMA QuietStep ==
    ASSUME SessionInv, SessionTypeOK', UNCHANGED <<op, jar>>, ~me'.busy => me'.seen = NoData,
           unsure' \/ (~unsure /\ (me'.busy => me.busy \/ \A k \in Kinds \ Steady : ~Waiting(k))),
           unsure' \/ (~unsure /\ InStep' /\ Clean' /\ Owned')
    PROVE  SessionInv'
<1>1. Shaped'
    BY DEF SessionInv, Shaped, Done
<1>2. ASSUME ~unsure' PROVE Alone' /\ Told'
    BY <1>2 DEF SessionInv, Sure, Alone, Told, Waiting, Done
<1> QED BY <1>1, <1>2 DEF SessionInv, Sure

\* A fetch of `me` is started, read or given up.
LEMMA FetchStep ==
    ASSUME SessionInv, ~unsure, FetchMe \/ ReadMe \/ FailMe
    PROVE  SessionInv'
<1>1. me \in Query(Profiles) /\ unsure \in BOOLEAN
    BY DEF SessionInv, SessionTypeOK
<1>2. /\ jar.token = 0 => Report(jar) = SignedOut
      /\ jar.token # 0 => /\ Report(jar) \in Views /\ Report(jar).account = jar.active
                          /\ Report(jar).token = jar.token
    BY DEF SessionInv, SessionTypeOK, Shaped, Report, Views
<1>3. Report(jar) \in Profiles /\ Agrees(Report(jar))
    BY <1>2 DEF Agrees, Profiles
<1>4. /\ me' \in Query(Profiles) /\ me'.data = me.data
      /\ me'.seen \in {me.seen, NoData, Report(jar)} /\ (~me'.busy => me'.seen = NoData)
      /\ unsure' \/ (me'.busy => me.busy \/ \A k \in Kinds \ Steady : ~Waiting(k))
    <2>1. CASE FetchMe
        BY <1>1, <2>1, StartedQuery DEF FetchMe
    <2>2. CASE ReadMe
        <3>1. me.busy /\ me' = ReadAs(me, Report(jar))
            BY <2>2 DEF ReadMe, MayRead
        <3>2. /\ ReadAs(me, Report(jar)) \in Query(Profiles)
              /\ ReadAs(me, Report(jar)).busy = me.busy
              /\ ReadAs(me, Report(jar)).data = me.data
              /\ ReadAs(me, Report(jar)).seen = Report(jar)
            BY <1>1, <1>3, ReadQuery
        <3> QED BY <3>1, <3>2
    <2>3. CASE FailMe
        BY <1>1, <2>3, EndedQuery DEF FailMe
    <2> QED BY <2>1, <2>2, <2>3
<1>5. UNCHANGED <<entries, loads, op, at, from, jar, crossed>> /\ unsure' \in BOOLEAN
    BY <1>1 DEF FetchMe, ReadMe, FailMe
<1>6. SessionTypeOK'
    BY <1>4, <1>5 DEF SessionInv, SessionTypeOK
<1>7. InStep'
    BY <1>3, <1>4, <1>5 DEF SessionInv, Sure, InStep, Stable, Agrees, Done
<1>8. Clean' /\ Owned'
    BY <1>4, <1>5 DEF SessionInv, Sure, Clean, Owned, Stable, Done
<1> QED BY <1>4, <1>5, <1>6, <1>7, <1>8, QuietStep

\* The answer of a fetch of `me`
LEMMA AnswerStep ==
    ASSUME SessionInv, ~unsure, AnswerMe
    PROVE  SessionInv'
<1>1. me \in Query(Profiles) /\ me.busy /\ me.seen # NoData
    BY DEF SessionInv, SessionTypeOK, AnswerMe, MayAnswer
<1>2. /\ me' \in Query(Profiles) /\ me'.data = me.seen /\ me'.seen = NoData /\ ~me'.busy
    BY <1>1, AnsweredQuery DEF AnswerMe
<1>3. UNCHANGED <<entries, loads, op, jar, crossed, unsure>>
    BY DEF AnswerMe
<1>4. SessionTypeOK'
    BY <1>2, <1>3, RedirectsAreTyped DEF SessionInv, SessionTypeOK, AnswerMe
<1>5. InStep'
    BY <1>2, <1>3 DEF SessionInv, Sure, InStep, Stable, Agrees, Done
<1>6. Clean'
    BY <1>1, <1>2, <1>3, ClientAssumption
    DEF SessionInv, Sure, InStep, Agrees, Clean, Stable, Done
<1>7. Owned'
    BY <1>2, <1>3 DEF SessionInv, Sure, Owned, Done
<1> QED BY <1>2, <1>3, <1>4, <1>5, <1>6, <1>7, QuietStep

\* A link is followed, or an address typed.
LEMMA VisitStep ==
    ASSUME SessionInv, ~unsure, NEW route \in Routes, Visit(route)
    PROVE  SessionInv'
<1>1. at' \in Routes /\ from' \in Routes \cup {Nobody}
    BY LandingIsARoute DEF Visit, SessionInv, SessionTypeOK
<1>2. UNCHANGED <<me, entries, loads, op, jar, crossed, unsure>>
    BY DEF Visit
<1>3. SessionTypeOK'
    BY <1>1, <1>2 DEF SessionInv, SessionTypeOK
<1>4. InStep' /\ Clean' /\ Owned'
    BY <1>2 DEF SessionInv, Sure, InStep, Stable, Agrees, Clean, Owned, Done
<1> QED BY <1>2, <1>3, <1>4, QuietStep DEF SessionInv, Shaped

\* The kinds of cached and of asked data
Fetched == [area : Areas, key : Accounts \cup {Nobody}, owner : Accounts]
Asked == [area : Areas, key : Accounts \cup {Nobody}, owner : Accounts \cup {Nobody}]

\* A page, or a link that is pointed at, asks for data of the account shown.
LEMMA LoadStep ==
    ASSUME SessionInv, ~unsure, NEW area \in Areas, LoadKey(area)
    PROVE  SessionInv'
<1> DEFINE l == [area |-> area, key |-> KeyOf(area, me.data.account), owner |-> Nobody]
<1>1. /\ SignedIn /\ loads' = loads \cup {l}
      /\ UNCHANGED <<me, entries, op, at, from, jar, unsure>>
      /\ crossed' \in BOOLEAN
      /\ ~crossed' => /\ ~crossed
                      /\ area = "user" /\ Done("add") => op["add"].view.account = me.data.account
    BY DEF LoadKey, Done
<1>2. l \in Asked /\ l.area = area /\ l.owner = Nobody
    BY <1>1 DEF Asked, SignedIn, Views, KeyOf
<1>3. area = "user" => l.key = me.data.account
    BY DEF KeyOf
<1> HIDE DEF l
<1>4. SessionTypeOK'
    BY <1>1, <1>2 DEF SessionInv, SessionTypeOK, Asked
<1>5. InStep' /\ Clean'
    BY <1>1 DEF SessionInv, Sure, InStep, Agrees, Clean, Stable, Done, SignedIn
<1>6. Owned'
    <2> SUFFICES ASSUME ~Done("login"), ~Done("switch"), ~crossed'
                 PROVE  /\ \A e \in entries \cup loads' :
                              e.area = "user" => e.owner \in {e.key, Nobody}
                        /\ jar.token # 0 =>
                             \A k \in loads' : k.area = "user" /\ k.owner = Nobody => k.key = jar.active
        BY <1>1 DEF Owned, Done
    <2>1. \A e \in entries \cup loads' : e.area = "user" => e.owner \in {e.key, Nobody}
        BY <1>1, <1>2 DEF SessionInv, Sure, Owned
    <2>2. ASSUME jar.token # 0, area = "user" PROVE l.key = jar.active
        <3>1. CASE ~Done("add")
            <4>1. Stable
                BY <2>2, <3>1 DEF SessionInv, Sure, Told, Stable
            <4> QED BY <1>1, <1>3, <2>2, <4>1, ClientAssumption
                DEF SessionInv, Sure, InStep, Agrees, SignedIn
        <3>2. CASE Done("add")
            BY <1>1, <1>3, <2>2, <3>2 DEF SessionInv, Sure, Told, Telling
        <3> QED BY <3>1, <3>2
    <2>3. jar.token # 0 =>
            \A k \in loads' : k.area = "user" /\ k.owner = Nobody => k.key = jar.active
        BY <1>1, <1>2, <2>2 DEF SessionInv, Sure, Owned
    <2> QED BY <2>1, <2>3
<1> QED BY <1>1, <1>4, <1>5, <1>6, QuietStep DEF SessionInv, Shaped

\* The server reads what a fetch asks for, its answer arrives, or it fails.
LEMMA LoadedStep ==
    ASSUME SessionInv, ~unsure, NEW l \in loads, ReadLoad(l) \/ AnswerLoad(l) \/ FailLoad(l)
    PROVE  SessionInv'
<1> DEFINE r == [l EXCEPT !.owner = jar.active]
<1>1. l \in Asked
    BY DEF SessionInv, SessionTypeOK, Asked
<1>2. UNCHANGED <<me, op, at, from, jar, crossed, unsure>>
    BY DEF ReadLoad, AnswerLoad, FailLoad
<1>3. CASE ReadLoad(l)
    <2>1. /\ loads' = (loads \ {l}) \cup {r} /\ entries' = entries
          /\ jar.token # 0 /\ l.owner = Nobody
        BY <1>3 DEF ReadLoad
    <2>2. jar.active \in Accounts
        BY <2>1 DEF SessionInv, Shaped
    <2>3. r \in Asked /\ r.area = l.area /\ r.key = l.key /\ r.owner = jar.active
        BY <1>1, <2>2 DEF Asked
    <2> HIDE DEF r
    <2>4. SessionTypeOK'
        BY <1>2, <2>1, <2>3 DEF SessionInv, SessionTypeOK, Asked
    <2>5. InStep' /\ Clean'
        BY <1>2, <2>1, <2>3 DEF SessionInv, Sure, InStep, Agrees, Clean, Stable, Done
    <2>6. ASSUME ~Done("login"), ~Done("switch"), ~crossed
          PROVE  /\ \A e \in entries \cup loads' : e.area = "user" => e.owner \in {e.key, Nobody}
                 /\ \A k \in loads' : k.area = "user" /\ k.owner = Nobody => k.key = jar.active
        <3>1. r.area = "user" => r.owner = r.key
            BY <2>1, <2>3, <2>6 DEF SessionInv, Sure, Owned
        <3>2. r.owner # Nobody
            BY <2>2, <2>3, ClientAssumption
        <3> QED BY <2>1, <2>6, <3>1, <3>2 DEF SessionInv, Sure, Owned
    <2>7. Owned'
        BY <1>2, <2>1, <2>6 DEF Owned, Done
    <2> QED BY <1>2, <2>4, <2>5, <2>7, QuietStep DEF SessionInv, Shaped
<1>4. CASE AnswerLoad(l) \/ FailLoad(l)
    <2>1. loads' \subseteq loads /\ entries' \subseteq entries \cup {l}
        BY <1>4 DEF AnswerLoad, FailLoad
    <2>2. entries' \subseteq Fetched
        BY <1>1, <1>4 DEF AnswerLoad, FailLoad, Asked, Fetched, SessionInv, SessionTypeOK
    <2>3. SessionTypeOK'
        BY <1>2, <2>1, <2>2 DEF SessionInv, SessionTypeOK, Fetched
    <2>4. InStep' /\ Clean' /\ Owned'
        BY <1>2, <2>1 DEF SessionInv, Sure, InStep, Agrees, Clean, Owned, Stable, Done
    <2> QED BY <1>2, <2>3, <2>4, QuietStep DEF SessionInv, Shaped
<1> QED BY <1>3, <1>4

\* Something else changes the session.
LEMMA OutsideStep ==
    ASSUME SessionInv, ~unsure, Elsewhere \/ Severed
    PROVE  SessionInv'
<1>1. UNCHANGED browser /\ unsure' \in BOOLEAN /\ jar.token # 0
    BY DEF Elsewhere, Severed, SessionInv, SessionTypeOK
<1>2. jar \in [token : 0..MaxLogins, active : Accounts \cup {Nobody},
               linked : SUBSET Accounts, logins : 0..MaxLogins]
    BY DEF SessionInv, SessionTypeOK
<1>3. CASE Elsewhere
    <2>1. jar' \in [token : 0..MaxLogins, active : Accounts \cup {Nobody},
                    linked : SUBSET Accounts, logins : 0..MaxLogins]
          /\ (jar'.token # 0 => jar'.active \in Accounts)
        BY <1>2, <1>3, ClientAssumption DEF Elsewhere, NoSession
    <2>2. SessionTypeOK' /\ Shaped' /\ unsure'
        BY <1>1, <1>3, <2>1 DEF SessionInv, SessionTypeOK, Shaped, Done, browser, Elsewhere
    <2> QED BY <2>2 DEF SessionInv
<1>4. CASE Severed
    <2>1. /\ jar' \in [token : 0..MaxLogins, active : Accounts \cup {Nobody},
                        linked : SUBSET Accounts, logins : 0..MaxLogins]
          /\ jar'.token = jar.token /\ jar'.active = jar.active /\ unsure' = unsure
        BY <1>2, <1>4 DEF Severed
    <2>2. SessionTypeOK' /\ Shaped'
        BY <1>1, <2>1 DEF SessionInv, SessionTypeOK, Shaped, Done, browser
    <2>3. Alone' /\ Told' /\ InStep' /\ Clean' /\ Owned'
        BY <1>1, <2>1 DEF SessionInv, Sure, Alone, Told, InStep, Agrees, Clean, Owned, Stable,
                          Done, Waiting, browser
    <2> QED BY <2>2, <2>3 DEF SessionInv, Sure
<1> QED BY <1>3, <1>4

-----------------------------------------------------------------------------
(* The steps of the operations                                             *)

Operations ==
    [phase : {"idle", "sent", "done", "refused", "failed"}, to : Accounts \cup {Nobody},
     token : 0..MaxLogins, view : Views \cup {Nobody}]

\* Fields of an operation, whatever is put into it
LEMMA OperationFields ==
    ASSUME NEW o \in Operations, NEW p \in {"idle", "sent", "done", "refused", "failed"}
    PROVE  /\ [o EXCEPT !.phase = p] \in Operations /\ [o EXCEPT !.phase = p].phase = p
           /\ [o EXCEPT !.phase = p].to = o.to /\ [o EXCEPT !.phase = p].view = o.view
BY DEF Operations

\* An operation that is over
LEMMA QuietIsIdle == Quiet \in Operations /\ Quiet.phase = "idle"
<1>1. 0 \in 0..MaxLogins
    BY ClientAssumption
<1> QED BY <1>1 DEF Operations, Quiet

\* What a step of an operation has to keep that changes no session and no data
LEMMA OperationStep ==
    ASSUME SessionInv, UNCHANGED <<me, entries, loads, at, from, jar, crossed>>,
           unsure' \in BOOLEAN, NEW k \in Kinds, NEW o \in Operations,
           op' = [op EXCEPT ![k] = o],
           k \in Aimed /\ o.phase = "sent" => o.to \in Accounts, o.phase # "done",
           unsure' \/ (~unsure /\ ~Done(k)),
           unsure' \/ Waiting(k) \/ ((\A j \in Kinds : ~Waiting(j)) /\ (k \notin Steady => ~me.busy))
    PROVE  SessionInv'
<1>1. op \in [Kinds -> Operations]
    BY DEF SessionInv, SessionTypeOK, Operations
<1>2. /\ op' \in [Kinds -> Operations] /\ op'[k] = o
      /\ \A j \in Kinds : j # k => op'[j] = op[j]
    BY <1>1
<1>3. SessionTypeOK'
    BY <1>2 DEF SessionInv, SessionTypeOK, Operations
<1>4. Shaped'
    BY <1>2 DEF SessionInv, Shaped, Done, Aimed, Telling, Kinds
<1>5. ASSUME ~unsure' PROVE Sure'
    <2>1. ~unsure /\ \A j \in Kinds : Done(j)' <=> Done(j)
        BY <1>2, <1>5 DEF Done
    <2>2. \A j \in Kinds : Done(j) => op'[j] = op[j]
        BY <1>2, <1>5 DEF Done
    <2>3. Alone'
        BY <1>2, <1>5, <2>1 DEF SessionInv, Sure, Alone, Waiting, Steady
    <2>4. Told'
        BY <2>1, <2>2 DEF SessionInv, Sure, Told, Telling, Leaving, Kinds
    <2>5. InStep' /\ Clean' /\ Owned'
        BY <2>1 DEF SessionInv, Sure, InStep, Agrees, Clean, Owned, Stable, Leaving, Kinds
    <2> QED BY <2>3, <2>4, <2>5 DEF Sure
<1> QED BY <1>3, <1>4, <1>5 DEF SessionInv

\* A request is sent.
LEMMA SendStep ==
    ASSUME SessionInv, ~unsure, NEW k \in Kinds, NEW to \in Accounts \cup {Nobody},
           k \in Aimed => to \in Accounts, Send(k, to)
    PROVE  SessionInv'
<1> DEFINE o == [phase |-> "sent", to |-> to, view |-> Nobody,
                 token |-> IF SignedIn THEN me.data.token ELSE 0]
<1>1. (IF SignedIn THEN me.data.token ELSE 0) \in 0..MaxLogins
    BY ClientAssumption DEF SignedIn, Views
<1>2. o \in Operations /\ o.phase = "sent" /\ o.to = to
    BY <1>1 DEF Operations
<1>3. /\ op' = [op EXCEPT ![k] = o] /\ ~Waiting(k)
      /\ UNCHANGED <<me, entries, loads, at, from, jar, crossed>>
      /\ unsure' \in BOOLEAN
      /\ unsure' \/ ((\A j \in Kinds : ~Waiting(j)) /\ (k \notin Steady => ~me.busy))
    BY DEF Send, Overlaps
<1>4. ~Done(k)
    BY <1>3 DEF Waiting, Done
<1> HIDE DEF o
<1> QED BY <1>2, <1>3, <1>4, OperationStep

\* Every request that the pages offer is of one of these forms.
LEMMA AsksStep ==
    ASSUME SessionInv, ~unsure, Asks
    PROVE  SessionInv'
<1>1. \E k \in Kinds, to \in Accounts \cup {Nobody} : (k \in Aimed => to \in Accounts) /\ Send(k, to)
    <2>1. CASE SendLogin \/ SendAdd \/ SendSwitch \/ SendUnlink
        BY <2>1 DEF SendLogin, SendAdd, SendSwitch, SendUnlink, Shell, SignedIn, Views, Kinds
    <2>2. CASE SendLogout \/ SendPassword \/ SendTimezone \/ SendDelete
        BY <2>2 DEF SendLogout, SendPassword, SendTimezone, SendDelete, Kinds, Aimed
    <2> QED BY <2>1, <2>2 DEF Asks
<1> QED BY <1>1, SendStep

\* A request fails, or its answer is lost; the form reports an error.
LEMMA FailStep ==
    ASSUME SessionInv, ~unsure, NEW k \in Kinds, Fail(k) \/ Rejected(k)
    PROVE  SessionInv'
<1>1. op \in [Kinds -> Operations] /\ op[k] \in Operations
    BY DEF SessionInv, SessionTypeOK, Operations
<1>2. CASE Fail(k)
    <2> DEFINE o == [op[k] EXCEPT !.phase = "failed"]
    <2>1. o \in Operations /\ o.phase = "failed"
        BY <1>1, OperationFields
    <2>2. /\ op' = [op EXCEPT ![k] = o] /\ Waiting(k)
          /\ UNCHANGED <<me, entries, loads, at, from, jar, crossed>>
          /\ unsure' \in BOOLEAN /\ (unsure' \/ ~Done(k))
        BY <1>1, <1>2 DEF Fail, Waiting, Done
    <2> HIDE DEF o
    <2> QED BY <2>1, <2>2, OperationStep
<1>3. CASE Rejected(k)
    <2>1. /\ op' = [op EXCEPT ![k] = Quiet] /\ Waiting(k) /\ ~Done(k)
          /\ UNCHANGED <<me, entries, loads, at, from, jar, crossed, unsure>>
        BY <1>3 DEF Rejected, Ends, Waiting, Done
    <2>2. Quiet \in Operations /\ Quiet.phase = "idle"
        BY QuietIsIdle
    <2>3. unsure' \in BOOLEAN
        BY <2>1 DEF SessionInv, SessionTypeOK
    <2> QED BY <2>1, <2>2, <2>3, OperationStep
<1> QED BY <1>2, <1>3

\* While an operation is under way, no other one is answered.
LEMMA OnlyOne ==
    ASSUME SessionInv, ~unsure, NEW k \in Kinds, Waiting(k)
    PROVE  \A j \in Kinds : j # k => ~Waiting(j) /\ ~Done(j)
BY DEF SessionInv, Sure, Alone, Waiting, Done

\* What the server makes of the session when it accepts a request
LEMMA EffectOnSession ==
    ASSUME SessionInv, NEW k \in Kinds, op[k].phase = "sent", Accepts(k, op[k]),
           jar' = Effect(k, op[k].to)
    PROVE  /\ jar' \in [token : 0..MaxLogins, active : Accounts \cup {Nobody},
                        linked : SUBSET Accounts, logins : 0..MaxLogins]
           /\ jar'.token # 0 => jar'.active \in Accounts
           /\ k \in Telling => jar'.token # 0
           /\ k \in Leaving => jar'.token = 0
           /\ k \notin {"login", "switch", "add"} \cup Leaving =>
                jar'.token = jar.token /\ jar'.active = jar.active /\ jar.token # 0
           /\ k = "add" => jar.token # 0
<1>1. jar \in [token : 0..MaxLogins, active : Accounts \cup {Nobody},
              linked : SUBSET Accounts, logins : 0..MaxLogins]
    BY DEF SessionInv, SessionTypeOK
<1>2. /\ jar.token # 0 => jar.active \in Accounts
      /\ k \in Aimed => op[k].to \in Accounts
    BY DEF SessionInv, Shaped
<1>3. CASE k = "login"
    BY <1>1, <1>2, <1>3, ClientAssumption DEF Effect, Accepts, Aimed, Leaving
<1>4. CASE k = "switch"
    BY <1>1, <1>2, <1>4 DEF Effect, Accepts, Aimed, Leaving
<1>5. CASE k \in {"add", "unlink", "timezone"}
    BY <1>1, <1>2, <1>5 DEF Effect, Accepts, Aimed, Leaving
<1>6. CASE k \in Leaving
    BY <1>1, <1>6, ClientAssumption DEF Effect, Leaving, Telling, NoSession
<1> QED BY <1>3, <1>4, <1>5, <1>6 DEF Kinds, Leaving

\* The server serves a request.
LEMMA ServeStep ==
    ASSUME SessionInv, ~unsure, NEW k \in Kinds, Serve(k)
    PROVE  SessionInv'
<1>1. /\ op \in [Kinds -> Operations] /\ op[k] \in Operations /\ unsure \in BOOLEAN
      /\ op[k].phase = "sent" /\ Waiting(k) /\ ~Done(k)
      /\ UNCHANGED <<me, entries, loads, at, from, unsure>>
    BY DEF SessionInv, SessionTypeOK, Operations, Serve, Waiting, Done
<1>4. crossed' <=> \/ crossed
                   \/ k = "add" /\ jar'.active # jar.active
                      /\ \E l \in loads : l.area = "user" /\ l.owner = Nobody
    BY Zenon DEF Serve
<1>5. crossed \in BOOLEAN /\ crossed' \in BOOLEAN
    <2>1. crossed \in BOOLEAN
        BY DEF SessionInv, SessionTypeOK
    <2>2. crossed' = (crossed \/ (k = "add" /\ jar'.active # jar.active
                                  /\ \E l \in loads : l.area = "user" /\ l.owner = Nobody))
        BY DEF Serve
    <2> QED BY <2>1, <2>2, Zenon
<1>2. CASE ~Accepts(k, op[k])
    <2> DEFINE o == [op[k] EXCEPT !.phase = "refused"]
    <2>1. o \in Operations /\ o.phase = "refused"
        BY <1>1, OperationFields
    <2>2. op' = [op EXCEPT ![k] = o] /\ UNCHANGED jar
        BY <1>1, <1>2 DEF Serve
    <2>3. UNCHANGED crossed
        <3>1. crossed' <=> crossed
            BY <1>4, <2>2, Zenon
        <3> QED BY <1>5, <3>1
    <2> HIDE DEF o
    <2> QED BY <1>1, <2>1, <2>2, <2>3, OperationStep
<1>3. CASE Accepts(k, op[k])
    <2> DEFINE v == IF jar'.token = 0 THEN Nobody ELSE Report(jar')
               o == [op[k] EXCEPT !.phase = "done", !.view = v]
    <2>1. jar' = Effect(k, op[k].to) /\ op' = [op EXCEPT ![k] = o]
        BY <1>1, <1>3 DEF Serve
    <2>2. /\ jar' \in [token : 0..MaxLogins, active : Accounts \cup {Nobody},
                       linked : SUBSET Accounts, logins : 0..MaxLogins]
          /\ jar'.token # 0 => jar'.active \in Accounts
          /\ k \in Telling => jar'.token # 0
          /\ k \in Leaving => jar'.token = 0
          /\ k \notin {"login", "switch", "add"} \cup Leaving =>
               jar'.token = jar.token /\ jar'.active = jar.active /\ jar.token # 0
          /\ k = "add" => jar.token # 0
        BY <1>1, <1>3, <2>1, EffectOnSession
    <2>3. /\ v \in Views \cup {Nobody}
          /\ jar'.token # 0 => v \in Views /\ v.account = jar'.active /\ v.token = jar'.token
        BY <2>2 DEF Report, Views
    <2> HIDE DEF v
    <2>4. o \in Operations /\ o.phase = "done" /\ o.to = op[k].to /\ o.view = v
        BY <1>1, <2>3 DEF Operations
    <2> HIDE DEF o
    <2>5. /\ op' \in [Kinds -> Operations] /\ op'[k] = o
          /\ \A j \in Kinds : j # k => op'[j] = op[j] /\ ~Done(j)
        BY <1>1, <2>1, <2>4, OnlyOne
    <2>6. SessionTypeOK'
        BY <1>1, <1>5, <2>2, <2>5 DEF SessionInv, SessionTypeOK, Operations
    <2>7. Shaped'
        BY <1>1, <2>2, <2>3, <2>4, <2>5 DEF SessionInv, Shaped, Done, Aimed, Telling, Kinds
    <2>8. \A j \in Kinds : ~Done(j) /\ (Done(j)' <=> j = k)
        BY <1>1, <2>4, <2>5 DEF Done
    <2>9. Alone'
        BY <1>1, <2>4, <2>5 DEF SessionInv, Sure, Alone, Waiting
    <2>10. Told'
        BY <2>2, <2>3, <2>4, <2>5, <2>8 DEF Told, Telling, Leaving, Kinds
    <2>11. Stable /\ (Stable' => k \notin {"login", "switch", "add"} \cup Leaving)
        BY <2>8 DEF Stable, Leaving, Kinds
    <2>12. InStep' /\ Clean'
        BY <1>1, <2>2, <2>11 DEF SessionInv, Sure, InStep, Agrees, Clean
    <2>13. ASSUME k \notin {"login", "switch"}, ~crossed', jar'.token # 0
           PROVE  \A l \in loads : l.area = "user" /\ l.owner = Nobody => l.key = jar'.active
        <3>1. /\ ~crossed /\ jar.token # 0
              /\ k = "add" => \/ jar'.active = jar.active
                              \/ \A l \in loads : ~(l.area = "user" /\ l.owner = Nobody)
            BY <1>4, <2>2, <2>13
        <3>2. \A l \in loads : l.area = "user" /\ l.owner = Nobody => l.key = jar.active
            BY <2>8, <3>1 DEF SessionInv, Sure, Owned, Kinds
        <3>3. CASE k = "add"
            BY <3>1, <3>2, <3>3
        <3>4. CASE k # "add"
            BY <2>2, <2>13, <3>2, <3>4
        <3> QED BY <3>3, <3>4
    <2>14. ~crossed' => \A e \in entries \cup loads : e.area = "user" => e.owner \in {e.key, Nobody}
        BY <1>4, <2>8 DEF SessionInv, Sure, Owned, Kinds
    <2>15. Owned'
        BY <1>1, <2>8, <2>13, <2>14 DEF Owned, Kinds
    <2> QED BY <2>6, <2>7, <2>9, <2>10, <2>12, <2>15 DEF SessionInv, Sure
<1> QED BY <1>2, <1>3

-----------------------------------------------------------------------------
(* The steps that end an operation                                         *)

\* What such a step has to keep besides the types
LEMMA EndStep ==
    ASSUME SessionInv, ~unsure, NEW k \in Kinds, Waiting(k), op' = [op EXCEPT ![k] = Quiet],
           jar' = jar, unsure' \in BOOLEAN,
           me' \in Query(Profiles), ~me'.busy => me'.seen = NoData,
           entries' \subseteq Fetched, loads' \subseteq Asked, crossed' \in BOOLEAN,
           at' \in Routes, from' \in Routes \cup {Nobody},
           Agrees(me'.data), Agrees(me'.seen),
           me'.data \notin Views => \A e \in entries' \cup loads' : e.area = "communication",
           ~crossed' => \A e \in entries' \cup loads' : e.area = "user" => e.owner \in {e.key, Nobody},
           ~crossed' /\ jar.token # 0 =>
             \A l \in loads' : l.area = "user" /\ l.owner = Nobody => l.key = jar.active
    PROVE  SessionInv'
<1>1. op \in [Kinds -> Operations]
    BY DEF SessionInv, SessionTypeOK, Operations
<1>2. /\ op' \in [Kinds -> Operations] /\ op'[k].phase = "idle"
      /\ \A j \in Kinds : j # k => op'[j] = op[j]
    BY <1>1, QuietIsIdle
<1>3. \A j \in Kinds : op'[j].phase = "idle"
    BY <1>2, OnlyOne DEF Waiting
<1>4. SessionTypeOK'
    BY <1>2 DEF SessionInv, SessionTypeOK, Operations, Fetched, Asked
<1>5. Shaped'
    BY <1>3 DEF SessionInv, Shaped, Done, Aimed, Telling, Kinds
<1>6. Alone' /\ Told'
    BY <1>3 DEF Alone, Told, Waiting, Done, Telling, Leaving, Kinds
<1>7. InStep' /\ Clean' /\ Owned'
    BY DEF InStep, Agrees, Clean, Owned
<1> QED BY <1>4, <1>5, <1>6, <1>7 DEF SessionInv, Sure

\* What is left of the caches
LEMMA RemovedAreas ==
    ASSUME SessionInv, NEW areas, Removed(areas)
    PROVE  /\ entries' \subseteq Fetched /\ loads' \subseteq Asked
           /\ entries' \subseteq entries /\ loads' \subseteq loads
           /\ \A e \in entries' \cup loads' : e.area \in Areas \ areas
           /\ crossed' \in BOOLEAN
BY DEF SessionInv, SessionTypeOK, Removed, Fetched, Asked

\* Someone signs in.
LEMMA LoggedInStep ==
    ASSUME SessionInv, ~unsure, LoggedIn
    PROVE  SessionInv'
<1> DEFINE v == op["login"].view
<1>1. /\ "login" \in Kinds /\ Waiting("login") /\ Done("login")
      /\ op' = [op EXCEPT !["login"] = Quiet] /\ UNCHANGED <<jar, unsure>>
      /\ me' = Stored(Cancelled(me), v) /\ Removed(Areas)
    BY DEF LoggedIn, Ends, Waiting, Done, Kinds, Become
<1>2. v \in Views /\ jar.token # 0 /\ v.account = jar.active /\ v.token = jar.token
    BY <1>1 DEF SessionInv, Shaped, Sure, Told, Telling
<1>3. me \in Query(Profiles) /\ unsure \in BOOLEAN /\ from \in Routes \cup {Nobody}
    BY DEF SessionInv, SessionTypeOK
<1> HIDE DEF v
<1>4. /\ me' \in Query(Profiles) /\ me'.data = v /\ me'.seen = NoData
    <2>1. v \in Profiles
        BY <1>2 DEF Profiles
    <2>2. Cancelled(me) \in Query(Profiles) /\ Cancelled(me).seen = NoData
        BY <1>3, EndedQuery
    <2> QED BY <1>1, <2>1, <2>2, StoredQuery
<1>5. /\ entries' \subseteq Fetched /\ loads' \subseteq Asked /\ entries' \cup loads' = {}
      /\ crossed' \in BOOLEAN
    BY <1>1, RemovedAreas
<1>6. at' \in Routes /\ from' \in Routes \cup {Nobody}
    BY <1>3 DEF LoggedIn, HomeOf, Routes
<1>7. Agrees(me'.data) /\ Agrees(me'.seen)
    BY <1>2, <1>4 DEF Agrees
<1> QED BY <1>1, <1>2, <1>3, <1>4, <1>5, <1>6, <1>7, EndStep

\* Someone signs out, by a logout, a new password or a deleted account.
LEMMA SignedOutStep ==
    ASSUME SessionInv, ~unsure, LoggedOut \/ PasswordChanged \/ AccountDeleted
    PROVE  SessionInv'
<1>1. me \in Query(Profiles) /\ unsure \in BOOLEAN
    BY DEF SessionInv, SessionTypeOK
<1>2. SignedOut \in Profiles
    BY DEF Profiles
<1>3. PICK k \in Leaving : /\ Done(k) /\ Waiting(k) /\ op' = [op EXCEPT ![k] = Quiet]
                           /\ k \notin Steady => me' = Stored(me, SignedOut)
                           /\ k \in Steady => me' = Stored(Cancelled(me), SignedOut)
    <2>1. CASE LoggedOut
        BY <2>1 DEF LoggedOut, Ends, Become, Done, Waiting, Leaving, Steady
    <2>2. CASE PasswordChanged
        BY <2>2 DEF PasswordChanged, Ends, Shows, Done, Waiting, Leaving, Steady
    <2>3. CASE AccountDeleted
        BY <2>3 DEF AccountDeleted, Ends, Shows, Done, Waiting, Leaving, Steady
    <2> QED BY <2>1, <2>2, <2>3
<1>4. k \in Kinds /\ jar.token = 0 /\ (k \notin Steady => ~me.busy)
    BY <1>3 DEF SessionInv, Sure, Alone, Told, Leaving, Kinds
<1>5. me' \in Query(Profiles) /\ me'.data = SignedOut /\ me'.seen = NoData
    <2>1. CASE k \in Steady
        <3>1. Cancelled(me) \in Query(Profiles) /\ Cancelled(me).seen = NoData
            BY <1>1, EndedQuery
        <3> QED BY <1>2, <1>3, <2>1, <3>1, StoredQuery
    <2>2. CASE k \notin Steady
        <3>1. me.seen = NoData
            BY <1>4, <2>2 DEF SessionInv, Shaped
        <3> QED BY <1>1, <1>2, <1>3, <2>2, <3>1, StoredQuery
    <2> QED BY <2>1, <2>2
<1>6. Removed({"user", "admin"}) /\ UNCHANGED <<jar, unsure>>
    BY DEF LoggedOut, PasswordChanged, AccountDeleted, SignOutClears
<1>7. /\ entries' \subseteq Fetched /\ loads' \subseteq Asked /\ crossed' \in BOOLEAN
      /\ \A e \in entries' \cup loads' : e.area = "communication"
    BY <1>6, RemovedAreas DEF Areas
<1>8. at' \in Routes /\ from' \in Routes \cup {Nobody}
    <2>1. CASE Redirects
        BY <2>1, RedirectsAreTyped DEF SessionInv
    <2>2. CASE at' = "login" /\ from' = Nobody
        BY <2>2 DEF Routes
    <2> QED BY <2>1, <2>2 DEF LoggedOut, PasswordChanged, AccountDeleted
<1>9. Agrees(me'.data) /\ Agrees(me'.seen)
    BY <1>4, <1>5 DEF Agrees
<1> QED BY <1>1, <1>3, <1>4, <1>5, <1>6, <1>7, <1>8, <1>9, EndStep

\* The tab switches accounts.
LEMMA SwitchedStep ==
    ASSUME SessionInv, ~unsure, Switched
    PROVE  SessionInv'
<1> DEFINE v == op["switch"].view
<1>1. /\ "switch" \in Kinds \ Steady /\ Waiting("switch") /\ Done("switch")
      /\ op' = [op EXCEPT !["switch"] = Quiet] /\ UNCHANGED <<jar, unsure>>
      /\ me' = Stored(me, v) /\ Removed({"user"}) /\ Redirects
    BY DEF Switched, Ends, Waiting, Done, Kinds, Steady, Shows, SwitchClears
<1>2. v \in Views /\ jar.token # 0 /\ v.account = jar.active /\ v.token = jar.token
    BY <1>1 DEF SessionInv, Shaped, Sure, Told, Telling
<1>3. me \in Query(Profiles) /\ unsure \in BOOLEAN /\ me.seen = NoData
    BY <1>1 DEF SessionInv, SessionTypeOK, Sure, Alone, Shaped
<1> HIDE DEF v
<1>4. me' \in Query(Profiles) /\ me'.data = v /\ me'.seen = NoData
    <2>1. v \in Profiles
        BY <1>2 DEF Profiles
    <2> QED BY <1>1, <1>3, <2>1, StoredQuery
<1>5. /\ entries' \subseteq Fetched /\ loads' \subseteq Asked /\ crossed' \in BOOLEAN
      /\ \A e \in entries' \cup loads' : e.area # "user"
    BY <1>1, RemovedAreas
<1>6. at' \in Routes /\ from' \in Routes \cup {Nobody}
    BY <1>1, RedirectsAreTyped DEF SessionInv
<1>7. Agrees(me'.data) /\ Agrees(me'.seen)
    BY <1>2, <1>4 DEF Agrees
<1> QED BY <1>1, <1>2, <1>3, <1>4, <1>5, <1>6, <1>7, EndStep

\* The other answers leave the account and the token of `me`, and the caches,
\* as they are.
LEMMA KeepingStep ==
    ASSUME SessionInv, ~unsure, NEW k \in Kinds, Waiting(k), ~Done("login"), ~Done("switch"),
           op' = [op EXCEPT ![k] = Quiet], UNCHANGED <<entries, loads, jar, crossed>>,
           unsure' \in BOOLEAN, at' \in Routes, from' \in Routes \cup {Nobody},
           me' \in Query(Profiles), ~me'.busy => me'.seen = NoData,
           Agrees(me'.data), Agrees(me'.seen),
           me'.data \notin Views => Stable /\ me.data \notin Views
    PROVE  SessionInv'
<1>1. entries \subseteq Fetched /\ loads \subseteq Asked /\ crossed \in BOOLEAN
    BY DEF SessionInv, SessionTypeOK, Fetched, Asked
<1>2. /\ me'.data \notin Views => \A e \in entries \cup loads : e.area = "communication"
      /\ ~crossed => \A e \in entries \cup loads : e.area = "user" => e.owner \in {e.key, Nobody}
      /\ ~crossed /\ jar.token # 0 =>
           \A l \in loads : l.area = "user" /\ l.owner = Nobody => l.key = jar.active
    BY DEF SessionInv, Sure, Clean, Owned
<1> QED BY <1>1, <1>2, EndStep

\* While an operation that changes nothing of who is signed in is under way,
\* the tab and the session agree.
LEMMA StillStable ==
    ASSUME SessionInv, ~unsure, NEW k \in Kinds, Waiting(k),
           k \notin {"login", "switch", "add"} \cup Leaving \/ ~Done(k)
    PROVE  Stable /\ Agrees(me.data) /\ Agrees(me.seen) /\ ~Done("login") /\ ~Done("switch")
<1>1. \A j \in Kinds : j # k => ~Done(j)
    BY OnlyOne
<1>2. Stable
    BY <1>1 DEF Stable, Leaving, Kinds
<1> QED BY <1>2 DEF SessionInv, Sure, InStep, Stable

\* An account is taken off the list of a view.
LEMMA WithoutAnAccount ==
    ASSUME SessionInv, Agrees(me.data), NEW a
    PROVE  /\ Without(me, a) \in Query(Profiles) /\ Agrees(Without(me, a).data)
           /\ Without(me, a).seen = me.seen /\ Without(me, a).busy = me.busy
           /\ Without(me, a).data \notin Views => me.data \notin Views
<1>1. me \in Query(Profiles)
    BY DEF SessionInv, SessionTypeOK
<1>2. CASE me.data \in Views
    <2> DEFINE v == [me.data EXCEPT !.list = @ \ {a}]
    <2>1. /\ v \in Views /\ v.account = me.data.account /\ v.token = me.data.token
          /\ Without(me, a) = Stored(me, v)
        BY <1>2 DEF Views, Without
    <2>2. v \in Profiles
        BY <2>1 DEF Profiles
    <2>3. jar.token # 0 /\ me.data.account = jar.active /\ me.data.token = jar.token
        BY <1>2, ClientAssumption DEF Agrees
    <2> HIDE DEF v
    <2>4. Agrees(v)
        BY <2>1, <2>3 DEF Agrees
    <2> QED BY <1>1, <2>1, <2>2, <2>4, StoredQuery
<1>3. CASE me.data \notin Views
    BY <1>1, <1>3 DEF Without
<1> QED BY <1>2, <1>3

\* An account is added to the list, or found to be in it, and the tab is now its.
LEMMA AccountAddedStep ==
    ASSUME SessionInv, ~unsure, AccountAdded
    PROVE  SessionInv'
<1> DEFINE v == op["add"].view
<1>1. /\ "add" \in Kinds /\ Waiting("add") /\ Done("add")
      /\ "add" \notin Steady
      /\ op' = [op EXCEPT !["add"] = Quiet] /\ UNCHANGED <<entries, loads, jar, crossed, unsure>>
      /\ me' = Stored(me, v) /\ Redirects
    BY DEF AccountAdded, Ends, Waiting, Done, Kinds, Steady, Shows
<1>2. v \in Views /\ jar.token # 0 /\ v.account = jar.active /\ v.token = jar.token
    BY <1>1 DEF SessionInv, Shaped, Sure, Told, Telling
<1>3. me \in Query(Profiles) /\ unsure \in BOOLEAN /\ me.seen = NoData
    BY <1>1 DEF SessionInv, SessionTypeOK, Shaped, Sure, Alone
<1> HIDE DEF v
<1>4. /\ me' \in Query(Profiles) /\ me'.data = v /\ me'.seen = NoData
    <2>1. v \in Profiles
        BY <1>2 DEF Profiles
    <2> QED BY <1>1, <1>3, <2>1, StoredQuery
<1>5. Agrees(me'.data) /\ Agrees(me'.seen)
    BY <1>2, <1>4 DEF Agrees
<1>6. at' \in Routes /\ from' \in Routes \cup {Nobody}
    BY <1>1, RedirectsAreTyped DEF SessionInv
<1>7. ~Done("login") /\ ~Done("switch")
    BY <1>1, OnlyOne DEF Kinds
<1> QED BY <1>1, <1>2, <1>3, <1>4, <1>5, <1>6, <1>7, KeepingStep

\* An account is taken off the list, or an operation is refused because it has
\* been before.
LEMMA UnlinkedStep ==
    ASSUME SessionInv, ~unsure, Unlinked \/ Invalidated("switch") \/ Invalidated("unlink")
    PROVE  SessionInv'
<1>1. PICK k \in {"switch", "unlink"} :
        /\ Waiting(k) /\ (k = "switch" => ~Done(k)) /\ op' = [op EXCEPT ![k] = Quiet]
        /\ \/ me' = Without(me, op[k].to) /\ unsure' = unsure
           \/ me' = Restarted(me) /\ ~Done(k)
           \/ me' = Restarted(Without(me, op[k].to)) /\ ~Done(k)
    BY DEF Unlinked, Invalidated, Ends, Waiting, Done
<1>2. /\ k \in Kinds /\ (k \notin {"login", "switch", "add"} \cup Leaving \/ ~Done(k))
      /\ UNCHANGED <<entries, loads, at, from, jar, crossed>>
    BY <1>1 DEF Kinds, Leaving, Unlinked, Invalidated
<1>3. /\ me \in Query(Profiles) /\ (~me.busy => me.seen = NoData)
      /\ at' \in Routes /\ from' \in Routes \cup {Nobody} /\ unsure' \in BOOLEAN
    BY <1>2 DEF SessionInv, SessionTypeOK, Shaped, Unlinked, Invalidated
<1>4. Stable /\ Agrees(me.data) /\ Agrees(me.seen) /\ ~Done("login") /\ ~Done("switch")
    BY <1>1, <1>2, StillStable
<1>6. PICK q \in Query(Profiles) :
        /\ Agrees(q.data) /\ q.seen = me.seen /\ q.busy = me.busy
        /\ q.data \notin Views => me.data \notin Views
        /\ me' = q \/ me' = Restarted(q)
    <2> DEFINE w == Without(me, op[k].to)
    <2>1. /\ w \in Query(Profiles) /\ Agrees(w.data) /\ w.seen = me.seen /\ w.busy = me.busy
          /\ w.data \notin Views => me.data \notin Views
        BY <1>4, WithoutAnAccount
    <2>2. me' = w \/ me' = Restarted(w) \/ me' = Restarted(me)
        BY <1>1
    <2> HIDE DEF w
    <2> QED BY <1>3, <1>4, <2>1, <2>2
<1>7. /\ me' \in Query(Profiles) /\ me'.data = q.data /\ (~me'.busy => me'.seen = NoData)
      /\ Agrees(me'.seen)
    <2> USE DEF Agrees
    <2>1. CASE me' = q
        BY <1>3, <1>4, <1>6, <2>1
    <2>2. CASE me' = Restarted(q)
        BY <1>4, <1>6, <2>2, StartedQuery
    <2> QED BY <1>6, <2>1, <2>2
<1> QED BY <1>1, <1>2, <1>3, <1>4, <1>6, <1>7, KeepingStep

\* The account of the view is read again after its timezone has changed.
LEMMA TimezoneChangedStep ==
    ASSUME SessionInv, ~unsure, TimezoneChanged
    PROVE  SessionInv'
<1> DEFINE k == "timezone"
           v == [me.data EXCEPT !.account = op[k].view.account]
<1>1. /\ k \in Kinds /\ Waiting(k) /\ Done(k) /\ k \notin {"login", "switch", "add"} \cup Leaving
      /\ op' = [op EXCEPT ![k] = Quiet] /\ UNCHANGED <<entries, loads, jar, crossed, unsure>> /\ Redirects
      /\ me' = IF SignedIn THEN Stored(me, v) ELSE me
    BY DEF TimezoneChanged, Ends, Waiting, Done, Kinds, Leaving
<1>2. op[k].view \in Views /\ jar.token # 0 /\ op[k].view.account = jar.active
    BY <1>1 DEF SessionInv, Shaped, Sure, Told, Telling
<1>3. me \in Query(Profiles) /\ unsure \in BOOLEAN /\ (~me.busy => me.seen = NoData)
    BY DEF SessionInv, SessionTypeOK, Shaped
<1>4. Stable /\ Agrees(me.data) /\ Agrees(me.seen) /\ ~Done("login") /\ ~Done("switch")
    BY <1>1, StillStable
<1>5. /\ me' \in Query(Profiles) /\ me'.seen = me.seen /\ me'.busy = me.busy
      /\ Agrees(me'.data) /\ (me'.data \notin Views => me.data \notin Views)
    <2>1. CASE SignedIn
        <3>1. v \in Views /\ v.account = jar.active /\ v.token = me.data.token
            BY <1>2, <2>1 DEF SignedIn, Views
        <3>2. v \in Profiles
            BY <3>1 DEF Profiles
        <3>3. Agrees(v)
            BY <1>2, <1>4, <2>1, <3>1, ClientAssumption DEF Agrees, SignedIn
        <3> HIDE DEF v
        <3> QED BY <1>1, <1>3, <2>1, <3>1, <3>2, <3>3, StoredQuery
    <2>2. CASE ~SignedIn
        BY <1>1, <1>3, <1>4, <2>2
    <2> QED BY <2>1, <2>2
<1>6. at' \in Routes /\ from' \in Routes \cup {Nobody}
    BY <1>1, RedirectsAreTyped DEF SessionInv
<1> QED BY <1>1, <1>2, <1>3, <1>4, <1>5, <1>6, KeepingStep

-----------------------------------------------------------------------------
(* The theorems                                                            *)

\* The page begins knowing nothing.
LEMMA SessionStarts == SessionInit => SessionInv
<1> SUFFICES ASSUME SessionInit PROVE SessionInv
    OBVIOUS
<1>1. /\ me \in Query(Profiles) /\ me.data = NoData /\ me.seen = NoData
    BY DEF SessionInit, Started, Blank, Query
<1>2. \A k \in Kinds : op[k] = Quiet /\ ~Waiting(k) /\ ~Done(k)
    BY QuietIsIdle DEF SessionInit, Waiting, Done
<1>3. op \in [Kinds -> Operations]
    BY QuietIsIdle DEF SessionInit
<1>4. /\ jar \in [token : 0..MaxLogins, active : Accounts \cup {Nobody},
                  linked : SUBSET Accounts, logins : 0..MaxLogins]
      /\ jar.token # 0 => jar.active \in Accounts
    BY ClientAssumption DEF SessionInit, NoSession, LiveSessions
<1>5. SessionTypeOK
    BY <1>1, <1>3, <1>4 DEF SessionInit, SessionTypeOK, Operations
<1>6. Shaped
    BY <1>1, <1>2, <1>4, QuietIsIdle DEF Shaped, Aimed, Telling, Kinds
<1>7. Alone /\ Told
    BY <1>2 DEF Alone, Told, Telling, Leaving, Kinds
<1>8. InStep /\ Clean /\ Owned
    BY <1>1 DEF SessionInit, InStep, Agrees, Clean, Owned
<1> QED BY <1>5, <1>6, <1>7, <1>8 DEF SessionInv, Sure

\* Every step of a tab that has stayed sure keeps the invariant.
LEMMA SessionSteps == SessionInv /\ [SessionNext]_sessionVars => SessionInv'
<1> SUFFICES ASSUME SessionInv, [SessionNext]_sessionVars PROVE SessionInv'
    OBVIOUS
<1>1. CASE UNCHANGED sessionVars
    BY <1>1 DEF SessionInv, SessionTypeOK, Shaped, Sure, Alone, Told, InStep, Agrees, Clean, Owned,
                Stable, Done, Waiting, sessionVars
<1>2. CASE ~unsure /\ Moves
    <2>1. CASE FetchMe \/ ReadMe \/ FailMe
        BY <1>2, <2>1, FetchStep
    <2>2. CASE AnswerMe
        BY <1>2, <2>2, AnswerStep
    <2>3. CASE \E route \in Routes : Visit(route)
        BY <1>2, <2>3, VisitStep
    <2>4. CASE Load \/ Preload
        <3>1. \E area \in Areas : LoadKey(area)
            BY <2>4 DEF Load, Preload, Preloads, Mounted, Areas
        <3> QED BY <1>2, <3>1, LoadStep
    <2>5. CASE \E l \in loads : ReadLoad(l) \/ AnswerLoad(l) \/ FailLoad(l)
        BY <1>2, <2>5, LoadedStep
    <2>6. CASE Asks
        BY <1>2, <2>6, AsksStep
    <2>7. CASE Answers
        <3>1. CASE LoggedIn
            BY <1>2, <3>1, LoggedInStep
        <3>2. CASE LoggedOut \/ PasswordChanged \/ AccountDeleted
            BY <1>2, <3>2, SignedOutStep
        <3>3. CASE Switched
            BY <1>2, <3>3, SwitchedStep
        <3>4. CASE AccountAdded
            BY <1>2, <3>4, AccountAddedStep
        <3>5. CASE Unlinked \/ \E k \in {"switch", "unlink"} : Invalidated(k)
            BY <1>2, <3>5, UnlinkedStep
        <3>6. CASE TimezoneChanged
            BY <1>2, <3>6, TimezoneChangedStep
        <3>7. CASE \E k \in Kinds : Rejected(k)
            BY <1>2, <3>7, FailStep
        <3> QED BY <2>7, <3>1, <3>2, <3>3, <3>4, <3>5, <3>6, <3>7 DEF Answers
    <2>8. CASE \E k \in Kinds : Serve(k) \/ Fail(k)
        BY <1>2, <2>8, ServeStep, FailStep
    <2>9. CASE Elsewhere \/ Severed
        BY <1>2, <2>9, OutsideStep
    <2> QED BY <1>2, <2>1, <2>2, <2>3, <2>4, <2>5, <2>6, <2>7, <2>8, <2>9 DEF Moves
<1> QED BY <1>1, <1>2 DEF SessionNext

\* The invariant of a tab and its session: what is known of one from the other
\* while at most one operation is under way.
THEOREM SessionInvariant == SessionSpec => []SessionInv
BY SessionStarts, SessionSteps, PTL DEF SessionSpec

\* The variables of a tab keep their types.
THEOREM SessionTypeCorrect == SessionSpec => []SessionTypeOK
<1>1. SessionInv => SessionTypeOK
    BY DEF SessionInv
<1> QED BY <1>1, SessionInvariant, PTL

\* What a tab takes for the signed-in account is the active account of the
\* session it holds, for any accounts, roles and number of sessions.
THEOREM TabIsCurrent == SessionSpec => []MeIsCurrent
<1>1. SessionInv => MeIsCurrent
    <2> SUFFICES ASSUME SessionInv, Calm, me.data # NoData PROVE MeIsCurrent
        BY DEF MeIsCurrent
    <2>1. Stable
        BY DEF Calm, Stable, Waiting, Done, Leaving, Kinds
    <2>2. Agrees(me.data)
        BY <2>1 DEF SessionInv, Sure, InStep, Calm
    <2> QED BY <2>2 DEF MeIsCurrent, Agrees, SignedIn
<1> QED BY <1>1, SessionInvariant, PTL

\* What is cached under the "user" keys of an account is that account's.
THEOREM CacheBelongsToUser == SessionSpec => []CacheIsOwn
<1>1. SessionInv => CacheIsOwn
    <2> SUFFICES ASSUME SessionInv, Calm, ~crossed PROVE CacheIsOwn
        BY DEF CacheIsOwn
    <2>1. ~Done("login") /\ ~Done("switch")
        BY DEF Calm, Waiting, Done, Kinds
    <2> QED BY <2>1 DEF SessionInv, Sure, Owned, CacheIsOwn, Calm
<1> QED BY <1>1, SessionInvariant, PTL

\* A tab that is signed out holds nothing that it fetched as a user or an
\* administrator, and awaits nothing.
THEOREM SignedOutHoldsNothing == SessionSpec => []SignedOutIsClean
<1>1. SessionInv => SignedOutIsClean
    <2> SUFFICES ASSUME SessionInv, Calm, me.data = SignedOut
                 PROVE  \A e \in entries \cup loads : e.area = "communication"
        BY DEF SignedOutIsClean
    <2>1. Stable
        BY DEF Calm, Stable, Waiting, Done, Leaving, Kinds
    <2>2. me.data \notin Views
        BY ClientAssumption
    <2> QED BY <2>1, <2>2 DEF SessionInv, Sure, Clean, Calm
<1> QED BY <1>1, SessionInvariant, PTL

\* Both: the tab keeps nothing of another account than the one it shows.
THEOREM TabKeepsItsOwn == SessionSpec => []TabHoldsItsOwn
<1>1. CacheIsOwn /\ SignedOutIsClean => TabHoldsItsOwn
    BY DEF TabHoldsItsOwn
<1> QED BY <1>1, CacheBelongsToUser, SignedOutHoldsNothing, PTL

-----------------------------------------------------------------------------
(* Navigation                                                              *)

\* The routes of the three areas, by the second segment of their addresses
LEMMA RoutesByName ==
    /\ UserRoutes = {App, Search, Turnover} \cup {AppPage(n) : n \in
           {"goals", "calendar", "worklog", "communication", "team", "finance",
            "income-simulator", "knowledge", "reviews", "analytics", "settings"}}
    /\ Groups = {"planning", "operations", "growth", "system"}
    /\ UNION {Items[g] : g \in Groups} \subseteq UserRoutes \ {Turnover}
<1>1. Groups = {"planning", "operations", "growth", "system"}
    BY DEF Groups, Items
<1>2. UNION {Items[g] : g \in Groups} =
        Items["planning"] \cup Items["operations"] \cup Items["growth"] \cup Items["system"]
    BY <1>1
<1>3. UNION {Items[g] : g \in Groups} = {AppPage(n) : n \in
           {"goals", "calendar", "worklog", "communication", "team", "finance",
            "income-simulator", "knowledge", "reviews", "analytics", "settings"}}
    <2>1. /\ Items["planning"] = {AppPage("goals"), AppPage("calendar"), AppPage("worklog"),
                                  AppPage("communication")}
          /\ Items["operations"] = {AppPage("team"), AppPage("finance"), AppPage("income-simulator")}
        BY DEF Items
    <2>2. /\ Items["growth"] = {AppPage("knowledge"), AppPage("reviews"), AppPage("analytics")}
          /\ Items["system"] = {AppPage("settings")}
        BY DEF Items, Settings, AppPage
    <2> QED BY <1>2, <2>1, <2>2
<1>4. Turnover \notin UNION {Items[g] : g \in Groups}
    BY <1>3 DEF AppPage, Turnover
<1> QED BY <1>1, <1>3, <1>4 DEF UserRoutes

\* Which roles a route admits
LEMMA RoutesAdmit ==
    /\ \A p \in UserRoutes \ {Settings} : Admits(p) = {"USER"}
    /\ Admits(Settings) = Roles
    /\ \A p \in AdminItems : Admits(p) = {"ADMIN", "SUPER_ADMIN"}
    /\ Admits(AdminPage("admins")) = {"SUPER_ADMIN"}
<1>1. /\ Settings \in UserRoutes /\ (AdminItems \cup {AdminPage("admins")}) \cap UserRoutes = {}
      /\ Settings \notin AdminItems /\ AdminPage("admins") \notin AdminItems \cup {Settings}
    BY RoutesByName DEF App, Search, Turnover, AppPage, Settings, AdminItems, Admin, AdminPage
<1> QED BY <1>1 DEF Admits

\* Routes and the check of a return address agree.
LEMMA ReturnsAdmitted == \A r \in Roles, p \in AllRoutes : IsAllowedPath(p, r) <=> r \in Admits(p)
<1>1. ASSUME NEW p \in UserRoutes \ {Settings}, NEW r \in Roles
      PROVE  IsAllowedPath(p, r) <=> r = "USER"
    BY RoutesByName DEF IsAllowedPath, IsPrefix, App, Search, Turnover, AppPage, Settings, Admin, AdminPage, Roles
<1>2. ASSUME NEW p \in AdminItems, NEW r \in Roles
      PROVE  IsAllowedPath(p, r) <=> r # "USER"
    BY DEF IsAllowedPath, IsPrefix, App, Settings, Admin, AdminPage, AdminItems, Roles
<1>3. ASSUME NEW r \in Roles
      PROVE  /\ IsAllowedPath(AdminPage("admins"), r) <=> r = "SUPER_ADMIN"
             /\ IsAllowedPath(Settings, r)
    BY DEF IsAllowedPath, IsPrefix, App, Settings, Admin, AdminPage, Roles
<1> QED BY <1>1, <1>2, <1>3, RoutesAdmit DEF AllRoutes, Roles

\* A role that a route admits lands there, and every other on its home.
LEMMA LandsOnRoutes ==
    /\ \A r \in Roles, p \in AllRoutes : Lands(r, p) \in AllRoutes
    /\ \A r \in Roles, p \in AllRoutes \ {Turnover} : r \in Admits(p) => Lands(r, p) = p
BY RoutesByName DEF Lands, AllRoutes, RoleHome, UserRoutes, AdminItems, AppPage

\* Where the links offered to each role lead
LEMMA LinksAdmitted ==
    ASSUME NEW r \in Roles, NEW link,
           \/ link = RoleHome(r) \/ link \in MobileItems(r)
           \/ r # "USER" /\ link \in AdminNavigation(r)
           \/ r = "USER" /\ (link \in ResultRoutes \/ link \in UNION {Items[g] : g \in Groups})
    PROVE  link \in AllRoutes /\ Lands(r, link) = link
<1>1. /\ Turnover \notin AdminItems \cup {AdminPage("admins"), Settings, App}
      /\ App # Settings /\ Settings \in UserRoutes /\ Settings \notin AdminItems
    BY RoutesByName DEF Turnover, AdminItems, Admin, AdminPage, Settings, App, AppPage
<1>2. ASSUME r # "USER", link \in AdminNavigation(r)
      PROVE  link \in AllRoutes \ {Turnover} /\ r \in Admits(link)
    BY <1>1, <1>2, RoutesAdmit DEF AdminNavigation, AllRoutes, Roles
<1>3. ASSUME r = "USER", link \in UserRoutes \ {Turnover}
      PROVE  link \in AllRoutes \ {Turnover} /\ r \in Admits(link)
    BY <1>3, RoutesAdmit DEF AllRoutes, Roles
<1>4. ASSUME r = "USER", link \in MobileItems(r) \cup ResultRoutes
      PROVE  link \in UserRoutes \ {Turnover}
    BY <1>4, RoutesByName DEF MobileItems, ResultRoutes, Turnover, Settings, App, AppPage, Search
<1>5. RoleHome(r) \in (IF r = "USER" THEN UserRoutes \ {Turnover} ELSE AdminNavigation(r))
    BY <1>1, RoutesByName DEF RoleHome, AdminNavigation, AdminItems
<1>6. link \in AllRoutes \ {Turnover} /\ r \in Admits(link)
    <2>1. CASE r = "USER"
        BY <1>3, <1>4, <1>5, <2>1, RoutesByName
    <2>2. CASE r # "USER"
        BY <1>2, <1>5, <2>2 DEF MobileItems
    <2> QED BY <2>1, <2>2
<1> QED BY <1>6, LandsOnRoutes

\* A group that was folded by hand was visited before.
NavigationInv ==
    /\ NavigationTypeOK
    /\ folded \cap expandedGroups = {} /\ folded \subseteq visitedGroups
    /\ ~astray

LEMMA ActiveGroupsAre == \A p \in AllRoutes : ActiveGroups[p] \subseteq Groups
BY DEF ActiveGroups

\* A step to another page within the shell
LEMMA ShellStays ==
    ASSUME NavigationInv, NEW p \in AllRoutes, ShellShows(p), astray' = FALSE, drawerOpen' \in BOOLEAN,
           role' \in Roles, UNCHANGED <<collapsed, folded>>
    PROVE  NavigationInv'
BY ActiveGroupsAre DEF NavigationInv, NavigationTypeOK, ShellShows

\* A shell that mounts
LEMMA ShellIsNew ==
    ASSUME NavigationInv, NEW r \in Roles, NEW p \in AllRoutes, NEW groups \in SUBSET Groups,
           ShellMounts(r, p, groups), astray' = FALSE, UNCHANGED collapsed
    PROVE  NavigationInv'
BY ActiveGroupsAre DEF NavigationInv, NavigationTypeOK, ShellMounts

\* An address under the shell, or under another one
LEMMA ArrivalsStand ==
    ASSUME NavigationInv, NEW r \in Roles, NEW p \in AllRoutes, Arrives(r, p), astray' = FALSE
    PROVE  NavigationInv'
<1>1. RoleHome(r) \in AllRoutes /\ Lands(r, p) \in AllRoutes
    BY LandsOnRoutes DEF RoleHome, AllRoutes, UserRoutes, AdminItems
<1>2. CASE r \in AdmitsShell(p)
    <2>1. /\ role' = r /\ ShellShows(Lands(r, p))
          /\ UNCHANGED <<drawerOpen, folded, collapsed>>
        BY <1>2 DEF Arrives
    <2>2. drawerOpen' \in BOOLEAN
        BY <2>1, Zenon DEF NavigationInv, NavigationTypeOK
    <2> QED BY <1>1, <2>1, <2>2, ShellStays
<1>3. CASE r \notin AdmitsShell(p)
    <2>1. ShellMounts(r, RoleHome(r), expandedGroups) /\ UNCHANGED collapsed
        BY <1>3 DEF Arrives
    <2>2. expandedGroups \in SUBSET Groups
        BY DEF NavigationInv, NavigationTypeOK
    <2> QED BY <1>1, <2>1, <2>2, ShellIsNew
<1> QED BY <1>2, <1>3

\* A link leads to its own page.
LEMMA LinksLead ==
    ASSUME NavigationInv, NEW link, Follow(link), drawerOpen' \in BOOLEAN,
           \/ link = RoleHome(role) \/ link \in MobileItems(role)
           \/ role # "USER" /\ link \in AdminNavigation(role)
           \/ role = "USER" /\ (link \in ResultRoutes \/ link \in UNION {Items[g] : g \in Groups})
    PROVE  NavigationInv'
<1>1. role \in Roles
    BY DEF NavigationInv, NavigationTypeOK
<1>2. link \in AllRoutes /\ Lands(role, link) = link
    BY <1>1, LinksAdmitted
<1>3. ShellShows(link) /\ astray' = (path' # link) /\ UNCHANGED <<role, collapsed, folded>>
    BY <1>2 DEF Follow
<1>4. astray' = FALSE
    BY <1>3 DEF ShellShows
<1>5. role' \in Roles
    BY <1>1, <1>3
<1> QED BY <1>2, <1>3, <1>4, <1>5, ShellStays

\* A group that was folded by hand stays folded until it is opened, and every
\* link leads to its page, past guards that admit whom the login lets return.
THEOREM ReadersAreLed == NavigationSpec => []ReaderIsLed
<1>1. NavigationInit => NavigationInv
    BY DEF NavigationInit, NavigationInv, NavigationTypeOK, Roles, AllRoutes, UserRoutes
<1>2. NavigationInv /\ [NavigationNext]_navigationVars => NavigationInv'
    <2> SUFFICES ASSUME NavigationInv, [NavigationNext]_navigationVars PROVE NavigationInv'
        OBVIOUS
    <2> USE DEF NavigationInv, NavigationTypeOK
    <2>1. CASE Reload
        BY <2>1, ShellIsNew DEF Reload
    <2>2. CASE SignIn
        <3>1. \A r \in Roles : Returns[r] \subseteq AllRoutes
            BY LandsOnRoutes DEF Returns
        <3> QED BY <2>2, <3>1, ShellIsNew DEF SignIn
    <2>3. ASSUME NEW r \in Roles, SwitchAccount(r) PROVE NavigationInv'
        BY <2>3, ArrivalsStand DEF SwitchAccount
    <2>4. CASE SidebarLink
        <3>1. PICK link \in IF role # "USER" THEN AdminNavigation(role)
                            ELSE {App} \cup (IF collapsed /\ ~drawerOpen THEN {}
                                             ELSE UNION {Items[g] : g \in expandedGroups}) :
                 Follow(link) /\ drawerOpen' = FALSE
            BY <2>4 DEF SidebarLink
        <3>2. CASE role # "USER"
            BY <3>1, <3>2, LinksLead
        <3>3. CASE role = "USER"
            <4>1. link = RoleHome(role) \/ link \in UNION {Items[g] : g \in Groups}
                BY <3>1, <3>3 DEF RoleHome
            <4> QED BY <3>1, <3>3, <4>1, LinksLead
        <3> QED BY <3>2, <3>3
    <2>5. CASE MobileLink \/ BrandLink \/ SearchResult
        BY <2>5, LinksLead DEF MobileLink, BrandLink, SearchResult
    <2>6. ASSUME NEW p \in AllRoutes, Visited(p) PROVE NavigationInv'
        BY <2>6, ArrivalsStand DEF Visited
    <2>7. ASSUME NEW g \in Groups, ToggleGroup(g) \/ OpenGroup(g) PROVE NavigationInv'
        <3>1. CASE ToggleGroup(g) /\ g \in expandedGroups
            BY <3>1 DEF ToggleGroup
        <3>2. CASE ToggleGroup(g) /\ g \notin expandedGroups
            BY <3>2 DEF ToggleGroup
        <3>3. CASE OpenGroup(g)
            BY <3>3 DEF OpenGroup
        <3> QED BY <2>7, <3>1, <3>2, <3>3
    <2>8. CASE ToggleCollapsed \/ ToggleDrawer
        <3>1. collapsed' \in BOOLEAN /\ drawerOpen' \in BOOLEAN
            BY <2>8, Zenon DEF ToggleCollapsed, ToggleDrawer
        <3>2. UNCHANGED <<role, path, expandedGroups, visitedGroups, folded, astray>>
            BY <2>8 DEF ToggleCollapsed, ToggleDrawer
        <3> QED BY <3>1, <3>2
    <2>9. CASE UNCHANGED navigationVars
        BY <2>9 DEF navigationVars
    <2> QED BY <2>1, <2>2, <2>3, <2>4, <2>5, <2>6, <2>7, <2>8, <2>9 DEF NavigationNext
<1>3. NavigationInv => ReaderIsLed
    <2>1. Turnover \in AllRoutes
        BY DEF AllRoutes, UserRoutes
    <2> QED BY <2>1, ReturnsAdmitted DEF NavigationInv, NavigationTypeOK, ReaderIsLed, ReturnsAreAdmitted
<1> QED BY <1>1, <1>2, <1>3, PTL DEF NavigationSpec

-----------------------------------------------------------------------------
(* VersionCenter                                                           *)

VersionTypeOK ==
    /\ release \in Query(Nat) /\ (~release.busy => release.seen = NoData)
    /\ task \in Nat /\ mine \in Nat
    /\ checking \in [phase : {"idle", "sent", "served"}, as : Nat]
    /\ action \in [Actions -> [phase : {"idle", "sent", "served"}, as : Nat]]

Following == calm /\ mine # 0 /\ task = mine

\* Nothing answers with a status that is to come.  While the own task runs,
\* everything that is shown, read or served since is its status.
VersionInv ==
    /\ VersionTypeOK
    /\ mine <= task /\ (mine # 0 => IsRunning(mine))
    /\ \A a \in Actions : action[a].phase = "served" => action[a].as <= task /\ IsRunning(action[a].as)
    /\ Following =>
        /\ release.data = mine /\ release.seen \in {NoData, mine}
        /\ checking.phase = "served" => checking.as = mine
        /\ \A a \in Actions : action[a].phase # "served"

\* A step of the query alone, which shows nothing older
LEMMA VersionQueryStep ==
    ASSUME VersionInv, UNCHANGED <<checking, action, task, mine, calm>>,
           release' \in Query(Nat), ~release'.busy => release'.seen = NoData,
           release'.data \in {release.data, release.seen},
           release'.data # NoData \/ release.data = NoData,
           release'.seen \in {release.seen, NoData, task}
    PROVE  VersionInv'
<1>1. VersionTypeOK'
    BY DEF VersionInv, VersionTypeOK
<1>2. Following => Following' /\ mine # NoData
    BY VersionAssumption DEF Following, VersionInv, VersionTypeOK
<1> QED BY <1>1, <1>2, VersionAssumption DEF VersionInv, Following, VersionTypeOK, IsRunning

LEMMA VersionSteps == VersionInv /\ [VersionNext]_versionVars => VersionInv'
<1> SUFFICES ASSUME VersionInv, [VersionNext]_versionVars PROVE VersionInv'
    OBVIOUS
<1>q. release \in Query(Nat) /\ task \in Nat /\ NoData \notin Nat
    BY VersionAssumption DEF VersionInv, VersionTypeOK
<1>1. CASE OpenCenter \/ Poll
    <2>1. release' = Started(release) /\ UNCHANGED <<checking, action, task, mine, calm>>
        BY <1>1 DEF OpenCenter, Poll
    <2> QED BY <1>q, <2>1, StartedQuery, VersionQueryStep
<1>2. CASE ReadRelease
    <2>1. ReadAs(release, task) \in Query(Nat) /\ ReadAs(release, task).data = release.data
          /\ ReadAs(release, task).seen = task /\ ReadAs(release, task).busy = release.busy
        BY <1>q, ReadQuery
    <2>2. release.busy /\ release' = ReadAs(release, task) /\ UNCHANGED <<checking, action, task, mine, calm>>
        BY <1>2 DEF ReadRelease, MayRead
    <2> QED BY <2>1, <2>2, VersionQueryStep
<1>3. CASE AnswerRelease
    <2>1. release.seen # NoData /\ release' = Answered(release)
          /\ UNCHANGED <<checking, action, task, mine, calm>>
        BY <1>3 DEF AnswerRelease, MayAnswer
    <2> QED BY <1>q, <2>1, AnsweredQuery, VersionQueryStep
<1>4. CASE ReleaseFails
    <2>1. release' = Failed(release) /\ UNCHANGED <<checking, action, task, mine, calm>>
        BY <1>4 DEF ReleaseFails
    <2> QED BY <1>q, <2>1, EndedQuery, VersionQueryStep
<1>5. CASE CloseCenter \/ Dismiss \/ (\E a \in Actions : OpenConfirm(a)) \/ UNCHANGED versionVars
    <2>1. UNCHANGED <<release, checking, action, task, mine, calm>>
        BY <1>5 DEF CloseCenter, Dismiss, OpenConfirm, versionVars
    <2> QED BY <2>1 DEF VersionInv, VersionTypeOK, Following, IsRunning
<1>6. CASE Check \/ ServeCheck \/ CheckFails
    <2>1. /\ UNCHANGED <<release, action, task, mine, calm>>
          /\ checking' \in [phase : {"idle", "sent", "served"}, as : Nat]
          /\ checking'.phase = "served" => checking'.as = task
        BY <1>q, <1>6 DEF Check, ServeCheck, CheckFails, NotAsked
    <2> QED BY <2>1 DEF VersionInv, VersionTypeOK, Following, IsRunning
<1>7. CASE AnswerCheck
    <2>1. checking.phase = "served" /\ checking.as \in Nat /\ release' = Stored(release, checking.as)
          /\ checking' = NotAsked /\ UNCHANGED <<action, task, mine, calm>>
        BY <1>7 DEF AnswerCheck, VersionInv, VersionTypeOK
    <2>2. release' \in Query(Nat) /\ release'.data = checking.as /\ release'.seen = release.seen
          /\ release'.busy = release.busy
        BY <1>q, <2>1, StoredQuery
    <2> QED BY <2>1, <2>2 DEF VersionInv, VersionTypeOK, Following, IsRunning, NotAsked
<1>8. CASE \E a \in Actions : Confirm(a) \/ ActionFails(a)
    <2>1. UNCHANGED <<release, checking, task, mine, calm>>
          /\ action' \in [Actions -> [phase : {"idle", "sent", "served"}, as : Nat]]
          /\ \A a \in Actions : action'[a].phase = "served" => action'[a] = action[a]
        BY <1>8 DEF Confirm, ActionFails, NotAsked, VersionInv, VersionTypeOK
    <2>2. VersionTypeOK'
        BY <2>1 DEF VersionInv, VersionTypeOK
    <2>3. \A a \in Actions : action'[a].phase = "served" =>
            action'[a].as <= task' /\ IsRunning(action'[a].as) /\ ~Following'
        BY <2>1 DEF VersionInv, Following
    <2> QED BY <2>1, <2>2, <2>3 DEF VersionInv, Following, IsRunning
<1>9. CASE \E a \in Actions : ServeAction(a)
    <2>1. PICK a \in Actions : ServeAction(a)
        BY <1>9
    <2>2. task' = task + 1 /\ UNCHANGED <<release, checking, mine, calm>> /\ IsRunning(task')
        BY <1>q, <2>1 DEF ServeAction, IsRunning
    <2>3. action' \in [Actions -> [phase : {"idle", "sent", "served"}, as : Nat]]
          /\ \A b \in Actions : action'[b].phase = "served" => action'[b] = action[b] \/ action'[b].as = task'
        BY <1>q, <2>1, <2>2 DEF ServeAction, VersionInv, VersionTypeOK
    <2>4. ~Following'
        BY <1>q, <2>2 DEF Following, VersionInv, VersionTypeOK
    <2> QED BY <1>q, <2>2, <2>3, <2>4 DEF VersionInv, VersionTypeOK, IsRunning
<1>10. CASE \E a \in Actions : AnswerAction(a)
    <2>1. PICK a \in Actions : AnswerAction(a)
        BY <1>10
    <2>2. /\ action[a].phase = "served" /\ action[a].as \in Nat /\ IsRunning(action[a].as)
          /\ action[a].as <= task
        BY <2>1 DEF AnswerAction, VersionInv, VersionTypeOK
    <2>3. /\ release' = Stored(release, action[a].as) /\ mine' = action[a].as /\ UNCHANGED <<checking, task>>
          /\ calm' = (Settled /\ \A b \in Actions \ {a} : ~Asking(b))
          /\ action' = [action EXCEPT ![a] = NotAsked]
        BY <2>1 DEF AnswerAction, ShowAccepted
    <2>4. release' \in Query(Nat) /\ release'.data = action[a].as /\ release'.seen = release.seen
          /\ release'.busy = release.busy
        BY <1>q, <2>2, <2>3, StoredQuery
    <2>5. VersionTypeOK'
        BY <2>2, <2>3, <2>4 DEF VersionInv, VersionTypeOK, NotAsked
    <2>6. Following' => release'.data = mine' /\ release'.seen = NoData /\ checking'.phase = "idle"
                        /\ \A b \in Actions : action'[b].phase # "served"
        BY <2>3, <2>4 DEF Following, Settled, AtRest, Asking, VersionInv, VersionTypeOK, NotAsked
    <2>7. \A b \in Actions : action'[b].phase = "served" => action'[b] = action[b]
        BY <2>3 DEF NotAsked, VersionInv, VersionTypeOK
    <2> QED BY <2>2, <2>3, <2>5, <2>6, <2>7 DEF VersionInv, IsRunning
<1>11. CASE TaskMoves
    <2>1. task' = task + 1 /\ UNCHANGED <<release, checking, action, mine, calm>>
        BY <1>11 DEF TaskMoves
    <2>2. ~Following'
        BY <1>q, <2>1 DEF Following, VersionInv, VersionTypeOK
    <2> QED BY <1>q, <2>1, <2>2 DEF VersionInv, VersionTypeOK, IsRunning
<1> QED BY <1>1, <1>2, <1>3, <1>4, <1>5, <1>6, <1>7, <1>8, <1>9, <1>10, <1>11 DEF VersionNext

\* An action accepted while nothing else was under way is shown running as long
\* as its task runs, for any number of tasks, polls, checks and failures.
THEOREM AcceptedStaysInView == VersionSpec => []AcceptedIsFollowed
<1>1. VersionInit => VersionInv
    BY VersionAssumption DEF VersionInit, VersionInv, VersionTypeOK, Blank, Query, NotAsked, Following
<1>2. VersionInv => AcceptedIsFollowed
    BY VersionAssumption DEF VersionInv, VersionTypeOK, Following, AcceptedIsFollowed, ShowsRunning
<1> QED BY <1>1, <1>2, VersionSteps, PTL DEF VersionSpec

-----------------------------------------------------------------------------
(* PageCache                                                               *)

\* Queries that some page takes as fresh for a while
KeptQueries ==
    {"goals", "dreams", "files", "worklogs", "worklogDay", "members", "teamSnapshots",
     "transactions", "categories", "budgets", "finSnapshots", "calendar", "contacts"}

PageTypeOK ==
    /\ watched \in Queries /\ place \in Places[watched]
    /\ entry \in Query(Nat) /\ (~entry.busy => entry.seen = NoData)
    /\ fresh \in BOOLEAN /\ edition \in Nat /\ known \in Nat
    /\ pending \subseteq [effect : Effects[watched], phase : {"sent", "served"}, as : Nat]

\* What is read, is taken as fresh, or is shown at rest holds what is known.
EntryFollows ==
    /\ known <= edition /\ \A c \in pending : c.as <= edition
    /\ entry.seen # NoData => entry.seen >= known
    /\ fresh /\ watched \in KeptQueries => entry.data = NoData \/ entry.data >= known
    /\ OnPage /\ IsShown(entry) /\ AtRest(entry) => entry.data >= known

PageInv == PageTypeOK /\ EntryFollows

LEMMA KeptFreshQueries == \A p \in Pages : KeptFresh(p) \subseteq KeptQueries
BY DEF KeptFresh, KeptQueries, Pages, Facts, Page, GoalsPage, WorklogPage, TeamPage, FinancePage

\* A change alters what a query reads, and neither names it nor is a known gap.
Forgets(c, q) == c.writes \cap Reads[q] # {} /\ q \notin c.refreshes /\ <<c.name, q>> \notin Gaps

\* A query that a change forgets is not taken as fresh by any page, and is not
\* on the change's own page once it is answered: the template goes with its dialog.
Separate(c) ==
    /\ \A q \in KeptQueries : ~Forgets(c, q)
    /\ \A q \in Facts[c.page].shows :
        Forgets(c, q) => c.page = "friendDialog" /\ q = "template"

LEMMA UserPages == KeptQueries \subseteq UserQueries
<1>1. \A p \in {"goals", "worklogOld", "team", "finance", "calendar"} : Facts[p].shows \subseteq UserQueries
    BY DEF UserQueries, Pages, Facts
<1>2. \A q \in KeptQueries :
        \E p \in {"goals", "worklogOld", "team", "finance", "calendar"} : q \in Facts[p].shows
    BY DEF KeptQueries, Facts, Page, GoalsPage, WorklogPage, TeamPage, FinancePage, CalendarPage
<1> QED BY <1>1, <1>2

LEMMA ChangesNameTheirs == \A c \in Changes : Separate(c)
<1> USE DEF Separate, Forgets, KeptQueries, Reads, Gaps, Change, Facts, Page
<1>1. \A c \in GoalsChanges \cup PictureChanges : Separate(c)
    BY UserPages DEF GoalsChanges, PictureChanges, GoalsPage
<1>2. \A c \in WorklogChanges : Separate(c)
    BY UserPages DEF WorklogChanges, WorklogPage
<1>3. \A c \in CalendarChanges : Separate(c)
    BY DEF CalendarChanges, CalendarPage
<1>4. \A c \in TeamChanges : Separate(c)
    BY DEF TeamChanges, TeamPage
<1>5. \A c \in KnowledgeChanges : Separate(c)
    BY DEF KnowledgeChanges, KnowledgePage
<1>6. \A c \in FinanceChanges : Separate(c)
    BY DEF FinanceChanges, FinancePage
<1>7. \A c \in IncomeChanges : Separate(c)
    BY DEF IncomeChanges, IncomePage
<1>8. \A c \in ReviewsChanges : Separate(c)
    BY DEF ReviewsChanges, ReviewsPage
<1>9. \A c \in FriendsChanges : Separate(c)
    BY DEF FriendsChanges, FriendsPage, CommunicationQueries
<1>10. \A c \in ScriptsChanges : Separate(c)
    BY DEF ScriptsChanges, ScriptsPage, CommunicationQueries
<1>11. \A c \in UsersChanges \cup InvitationsChanges \cup AdminsChanges : Separate(c)
    BY DEF UsersChanges, InvitationsChanges, AdminsChanges, UsersPage, InvitationsPage, AdminsPage
<1> HIDE DEF Separate
<1> QED BY <1>1, <1>2, <1>3, <1>4, <1>5, <1>6, <1>7, <1>8, <1>9, <1>10, <1>11 DEF Changes

LEMMA EffectsNameTheirs ==
    ASSUME NEW q \in Queries, NEW e \in Effects[q], e.alters, ~e.gap, ~e.refreshes
    PROVE  /\ q \notin KeptQueries
           /\ e.place # "elsewhere" => e.place = "friendDialog" /\ PlaceOf("friends", q) = "elsewhere"
<1>1. PICK c \in Changes : e = EffectOn(c, q)
    BY DEF Effects
<1>2. Forgets(c, q) /\ Separate(c) /\ e.place = PlaceOf(c.page, q)
    BY <1>1, ChangesNameTheirs DEF EffectOn, Forgets
<1>3. e.place # "elsewhere" => e.place = c.page /\ q \in Facts[c.page].shows
    BY <1>2 DEF PlaceOf, Places
<1>4. q = "template" => PlaceOf("friends", q) = "elsewhere"
    BY DEF PlaceOf, Places, Facts, FriendsPage, Page
<1> QED BY <1>2, <1>3, <1>4 DEF Separate

LEMMA PlacesAreThere ==
    ASSUME NEW q \in Queries
    PROVE  /\ \A p : PlaceOf(p, q) \in Places[q] 
           /\ \A p \in Places[q] : p = "elsewhere" \/ (p \in Pages /\ q \in Facts[p].shows)
BY DEF PlaceOf, Places

\* Two pages of one component are both pages.
LEMMA ComponentsOfPages ==
    ASSUME NEW p \in Pages, NEW o, Component(p) = Component(o)
    PROVE  o # "elsewhere"
BY DEF Component, Pages, Facts

LEMMA StaleEntries ==
    ASSUME NEW p \in Pages, PageInv, ~StaleAt(p)
    PROVE  entry.data >= known
BY KeptFreshQueries DEF StaleAt, PageInv, EntryFollows

\* The steps that start a fetch, end one, or leave the entry as it is
LEMMA PageFetches ==
    ASSUME PageInv,
           \/ \E p \in Pages \cup {"elsewhere"} : VisitPage(p)
           \/ Prefetch \/ Reconnect \/ Retry \/ Read \/ Answer \/ FetchFails \/ Age \/ Collect
    PROVE  PageInv'
<1> USE DEF PageInv
<1>1. ASSUME NEW p \in Pages \cup {"elsewhere"}, VisitPage(p) PROVE PageInv'
    <2>1. entry' = entry \/ entry' = Started(entry)
        BY <1>1 DEF VisitPage
    <2>2. /\ entry' \in Query(Nat) /\ entry'.data = entry.data /\ entry'.seen \in {entry.seen, NoData}
          /\ ~entry'.busy => entry' = entry
        BY <2>1, StartedQuery DEF PageTypeOK
    <2>3. PageTypeOK'
        BY <1>1, <2>2 DEF VisitPage, PageTypeOK
    <2>4. ASSUME OnPage', ~entry'.busy, IsShown(entry') PROVE entry.data >= known
        <3>1. p \in Pages /\ ~(Component(p) # Component(place) /\ StaleAt(p))
            BY <1>1, <2>4, StartedQuery DEF VisitPage, OnPage, PageTypeOK
        <3>2. CASE ~StaleAt(p)
            BY <3>1, <3>2, StaleEntries
        <3>3. CASE Component(p) = Component(place)
            BY <2>2, <2>4, <3>1, <3>3, ComponentsOfPages DEF OnPage, EntryFollows, AtRest
        <3> QED BY <3>1, <3>2, <3>3
    <2>5. EntryFollows'
        BY <1>1, <2>2, <2>4 DEF VisitPage, EntryFollows, AtRest
    <2> QED BY <2>3, <2>5
<1>2. ASSUME Prefetch \/ Reconnect \/ Retry PROVE PageInv'
    <2>1. /\ entry' = Started(entry) \/ entry' = Restarted(entry)
          /\ UNCHANGED <<watched, place, fresh, edition, known, pending>>
        BY <1>2 DEF Prefetch, Reconnect, Retry
    <2>2. /\ entry' \in Query(Nat) /\ entry'.data = entry.data /\ entry'.seen \in {entry.seen, NoData}
          /\ entry'.busy
        BY <2>1, StartedQuery DEF PageTypeOK
    <2> QED BY <2>1, <2>2 DEF PageTypeOK, EntryFollows, AtRest
<1>3. ASSUME Read PROVE PageInv'
    <2>1. /\ entry' \in Query(Nat) /\ entry'.data = entry.data /\ entry'.seen = edition /\ entry'.busy
        BY <1>3, ReadQuery DEF Read, MayRead, PageTypeOK
    <2> QED BY <1>3, <2>1 DEF Read, PageTypeOK, EntryFollows, AtRest
<1>4. ASSUME Answer PROVE PageInv'
    <2>1. /\ entry' \in Query(Nat) /\ entry'.data = entry.seen /\ entry'.seen = NoData /\ entry.seen # NoData
        BY <1>4, AnsweredQuery DEF Answer, MayAnswer, PageTypeOK
    <2> QED BY <1>4, <2>1 DEF Answer, PageTypeOK, EntryFollows
<1>5. ASSUME FetchFails PROVE PageInv'
    <2>1. entry' \in Query(Nat) /\ entry'.data = entry.data /\ entry'.seen = NoData
        BY <1>5, EndedQuery DEF FetchFails, PageTypeOK
    <2>2. entry'.failed
        BY <1>5 DEF FetchFails, PageTypeOK, Failed, Query
    <2>3. UNCHANGED <<watched, place, edition, known, pending>> /\ fresh' \in {fresh, FALSE}
        BY <1>5 DEF FetchFails
    <2>4. PageTypeOK'
        BY <2>1, <2>3 DEF PageTypeOK
    <2>5. fresh' => fresh
        <3>1. CASE fresh' = fresh
            BY <3>1
        <3>2. CASE fresh' = FALSE
            BY <3>2
        <3> QED BY <2>3, <3>1, <3>2
    <2> QED BY <2>1, <2>2, <2>3, <2>4, <2>5 DEF EntryFollows, IsShown
<1>6. ASSUME Age PROVE PageInv'
    BY <1>6 DEF Age, PageTypeOK, EntryFollows, OnPage, IsShown, AtRest
<1>7. ASSUME Collect PROVE PageInv'
    BY <1>7 DEF Collect, PageTypeOK, EntryFollows, OnPage, Blank, Query
<1> QED BY <1>1, <1>2, <1>3, <1>4, <1>5, <1>6, <1>7

\* The steps of a change before its answer
LEMMA PageChanges ==
    ASSUME PageInv,
           \/ \E e \in Effects[watched] : Ask(e)
           \/ \E c \in pending : ServeChange(c) \/ SaveFails(c)
    PROVE  PageInv'
<1> USE DEF PageInv
<1>1. ASSUME NEW e \in Effects[watched], Ask(e) PROVE PageInv'
    BY <1>1 DEF Ask, PageTypeOK, EntryFollows, OnPage, AtRest, IsShown
<1>2. ASSUME NEW c \in pending, ServeChange(c) PROVE PageInv'
    <2> DEFINE d == [c EXCEPT !.phase = "served", !.as = edition']
    <2>1. edition' \in Nat /\ edition' >= edition
        <3>1. edition' = edition + (IF c.effect.alters THEN 1 ELSE 0)
            BY <1>2 DEF ServeChange
        <3> QED BY <3>1 DEF PageTypeOK
    <2>2. d \in [effect : Effects[watched], phase : {"sent", "served"}, as : Nat] /\ d.as = edition'
        BY <2>1 DEF PageTypeOK
    <2>3. /\ pending' = (pending \ {c}) \cup {d}
          /\ UNCHANGED <<watched, place, entry, fresh, known>>
        BY <1>2 DEF ServeChange
    <2> HIDE DEF d
    <2>4. PageTypeOK'
        BY <2>1, <2>2, <2>3 DEF PageTypeOK
    <2>5. \A x \in pending' : x.as <= edition'
        BY <2>1, <2>2, <2>3 DEF PageTypeOK, EntryFollows
    <2>6. EntryFollows'
        BY <2>1, <2>3, <2>5 DEF EntryFollows, PageTypeOK, OnPage, AtRest, IsShown
    <2> QED BY <2>4, <2>6
<1>3. ASSUME NEW c \in pending, SaveFails(c) PROVE PageInv'
    BY <1>3 DEF SaveFails, PageTypeOK, EntryFollows, OnPage, AtRest, IsShown
<1> QED BY <1>1, <1>2, <1>3

\* The answer of a change starts over what it names, unless nothing is shown;
\* what it forgets is not shown, and is fetched when it is next.
LEMMA PageAnswers ==
    ASSUME PageInv, NEW c \in pending, AnswerChange(c)
    PROVE  PageInv'
<1> USE DEF PageInv
<1> DEFINE e == c.effect
<1>1. e \in Effects[watched] /\ c.as \in Nat /\ c.as <= edition /\ watched \in Queries
    BY DEF PageTypeOK, EntryFollows
<1>2. /\ pending' = pending \ {c} /\ UNCHANGED <<watched, edition>>
      /\ known' = IF Counts(e) /\ c.as > known THEN c.as ELSE known
      /\ IF e.refreshes
         THEN /\ fresh' = FALSE
              /\ entry' = IF OnPage THEN Restarted(entry) ELSE entry
         ELSE UNCHANGED <<fresh, entry>>
      /\ place' = IF place = "friendDialog" /\ e.place = place
                  THEN PlaceOf("friends", watched) ELSE place
    BY DEF AnswerChange
<1> HIDE DEF e
<1>3. known' \in Nat /\ known <= known' /\ known' <= edition
    BY <1>1, <1>2 DEF PageTypeOK, EntryFollows
<1>4. place' \in Places[watched] /\ (OnPage' => OnPage)
    BY <1>1, <1>2, PlacesAreThere DEF PageTypeOK, OnPage
<1>5. /\ entry' \in Query(Nat) /\ entry'.data = entry.data /\ entry'.seen \in {entry.seen, NoData}
      /\ ~entry'.busy => entry' = entry
      /\ e.refreshes /\ OnPage => entry'.busy
    BY <1>2, StartedQuery DEF PageTypeOK
<1>6. PageTypeOK'
    BY <1>1, <1>2, <1>3, <1>4, <1>5 DEF PageTypeOK
<1>7. CASE known' = known
    BY <1>2, <1>3, <1>4, <1>5, <1>6, <1>7 DEF EntryFollows, AtRest, PageTypeOK
<1>8. CASE Counts(e) /\ e.refreshes
    <2>1. entry'.seen = NoData
        <3>1. CASE AtRest(entry)
            BY <1>5, <3>1 DEF AtRest, PageTypeOK
        <3>2. CASE OnPage /\ entry.data # NoData
            BY <1>2, <1>8, <3>2 DEF Restarted, Started, PageTypeOK, Query
        <3> QED BY <1>8, <3>1, <3>2 DEF Counts
    <2> QED BY <1>2, <1>3, <1>4, <1>5, <1>6, <1>8, <2>1 DEF EntryFollows, AtRest
<1>9. CASE Counts(e) /\ ~e.refreshes
    <2>1. AtRest(entry) /\ (e.place = place \/ ~OnPage) /\ watched \notin KeptQueries
          /\ (e.place # "elsewhere" => e.place = "friendDialog" /\ PlaceOf("friends", watched) = "elsewhere")
        BY <1>1, <1>9, EffectsNameTheirs DEF Counts
    <2>2. ~OnPage'
        BY <1>2, <1>4, <2>1 DEF OnPage
    <2>3. entry'.seen = NoData
        BY <1>2, <1>9, <2>1 DEF AtRest, PageTypeOK
    <2> QED BY <1>2, <1>3, <1>6, <2>1, <2>2, <2>3 DEF EntryFollows
<1> QED BY <1>2, <1>7, <1>8, <1>9

\* A list at rest on its page holds every change the tab was told of, for any
\* number of changes and editions: every query of every page, with the names
\* that the changes give when they are answered.
THEOREM ListsKeepUp == PageSpec => []ShownIsCurrent
<1>1. PageInit => PageInv
    <2> SUFFICES ASSUME PageInit PROVE PageInv
        OBVIOUS
    <2>1. Blank \in Query(Nat) /\ Blank.seen = NoData /\ Blank.data = NoData
        BY DEF Blank, Query
    <2>2. "elsewhere" \in Places[watched]
        BY DEF PageInit, Places
    <2>3. PageTypeOK
        BY <2>1, <2>2 DEF PageInit, PageTypeOK
    <2>4. EntryFollows
        BY <2>1 DEF PageInit, EntryFollows, OnPage
    <2> QED BY <2>3, <2>4 DEF PageInv
<1>2. PageInv /\ [PageNext]_pageVars => PageInv'
    <2> SUFFICES ASSUME PageInv, [PageNext]_pageVars PROVE PageInv'
        OBVIOUS
    <2>1. CASE UNCHANGED pageVars
        BY <2>1 DEF pageVars, PageInv, PageTypeOK, EntryFollows, OnPage, IsShown, AtRest
    <2> QED BY <2>1, PageFetches, PageChanges, PageAnswers DEF PageNext
<1>3. PageInv => ShownIsCurrent
    BY DEF PageInv, EntryFollows, ShownIsCurrent
<1> QED BY <1>1, <1>2, <1>3, PTL DEF PageSpec

-----------------------------------------------------------------------------
(* WorklogForm                                                             *)

DaysOf(k) == {d \in Days : KeyOfDay(d) = k}
NatOf(k) == [DaysOf(k) -> Nat]

WorklogTypeOK ==
    /\ journal \in [JournalKeys -> UNION {Query(NatOf(k)) : k \in JournalKeys}]
    /\ \A k \in JournalKeys : journal[k] \in Query(NatOf(k)) /\ (~journal[k].busy => journal[k].seen = NoData)
    /\ freshDays \subseteq JournalKeys
    /\ selectedDay \in Days \cup {NoDay} /\ loadedFormDay \in Days \cup {NoDay}
    /\ draft \in [day : Days \cup {NoDay}, holds : Nat, dirty : BOOLEAN, sent : BOOLEAN,
                  careful : BOOLEAN]
    /\ \/ worklogSave = NoWorklogSave
       \/ worklogSave \in [phase : {"sent", "served"}, day : Days, as : Nat]
    /\ records \in [Days -> Nat] /\ answered \in [Days -> Nat]

\* What a query of a day reads, and what it holds fresh or shows at rest, is not
\* older than an own record that the tab was told of.
CachesFollow ==
    /\ \A d \in Days : answered[d] <= records[d]
    /\ worklogSave.phase = "served" => worklogSave.as <= records[worklogSave.day]
    /\ \A d \in Days :
        LET k == KeyOfDay(d)
            q == journal[k]
        IN /\ q.seen # NoData => q.seen[d] >= answered[d]
           /\ /\ q.data # NoData
              /\ k \in freshDays \/ (k \in Watched(selectedDay) /\ ~q.busy /\ ~q.failed)
              => q.data[d] >= answered[d]

Dirty == draft.dirty /\ draft.careful

\* The form is of the day on the screen, and holds what is cached of it or what
\* it has saved.
FormFollows ==
    /\ ~OnWorklog => ~draft.dirty
    /\ draft.dirty => IsReady(journal, selectedDay)
    /\ OnWorklog /\ IsReady(journal, selectedDay) =>
        /\ loadedFormDay = selectedDay /\ draft.day = selectedDay
        /\ draft.dirty \/ draft.holds = Cached(journal, selectedDay)[selectedDay]
                       \/ draft.holds >= answered[selectedDay]
    /\ Dirty => draft.holds >= answered[selectedDay]
    /\ draft.sent /\ worklogSave.phase # "idle" => worklogSave.day = draft.day
    /\ Dirty /\ worklogSave.phase # "idle" =>
        draft.sent /\ (worklogSave.phase = "served" => draft.holds >= worklogSave.as)

WorklogInv == WorklogTypeOK /\ CachesFollow /\ FormFollows

LEMMA WorklogKeys ==
    /\ NoDay \notin Days /\ OldDays \subseteq Days
    /\ \A d \in Days : KeyOfDay(d) \in JournalKeys /\ d \in DaysOf(KeyOfDay(d))
    /\ \A d \in Days \cup {NoDay} : Watched(d) \subseteq JournalKeys
BY WorklogAssumption DEF Days, JournalKeys, KeyOfDay, DaysOf, Watched

\* The effect of the page, after a step that stays on the day, loses nothing
\* that is loaded, and does not tell the tab of more than the form holds.
LEMMA EffectReloads ==
    ASSUME WorklogInv, WorklogTypeOK', selectedDay' = selectedDay,
           IsReady(journal, selectedDay) => IsReady(journal', selectedDay),
           worklogSave' \in {worklogSave, NoWorklogSave},
           Dirty => draft.holds >= answered'[selectedDay],
           Reloads(selectedDay, loadedFormDay, draft)
    PROVE  FormFollows'
<1> USE DEF WorklogInv, FormFollows, OnWorklog, Dirty, NoWorklogSave
<1> HIDE DEF IsReady, Cached, Watched
<1>1. CASE ~OnWorklog
    <2>1. draft' = draft
        BY <1>1 DEF Reloads, WorklogTypeOK
    <2> QED BY <1>1, <2>1
<1>2. CASE OnWorklog /\ ~IsReady(journal', selectedDay)
    <2>1. draft' = draft /\ ~draft.dirty
        BY <1>2 DEF Reloads
    <2> QED BY <1>2, <2>1
<1>3. CASE OnWorklog /\ IsReady(journal', selectedDay) /\ (loadedFormDay # selectedDay \/ ~draft.dirty)
    <2>1. loadedFormDay' = selectedDay /\ draft' = FilledFrom(journal', selectedDay)
        BY <1>3 DEF Reloads
    <2>2. /\ draft'.day = selectedDay /\ ~draft'.dirty /\ ~draft'.sent
          /\ draft'.holds = Cached(journal', selectedDay)[selectedDay]
        BY <1>3, <2>1 DEF FilledFrom, NoDraft
    <2> QED BY <1>3, <2>1, <2>2
<1>4. CASE OnWorklog /\ IsReady(journal', selectedDay) /\ loadedFormDay = selectedDay /\ draft.dirty
    <2>1. loadedFormDay' = loadedFormDay /\ draft' = draft
        BY <1>4 DEF Reloads
    <2> QED BY <1>4, <2>1
<1> QED BY <1>1, <1>2, <1>3, <1>4

\* What the effect makes of the form is a form.
LEMMA ReloadsType ==
    ASSUME WorklogTypeOK, NEW d \in Days \cup {NoDay}, NEW l \in Days \cup {NoDay},
           \A k \in JournalKeys : journal'[k] \in Query(NatOf(k)),
           NEW f \in [day : Days \cup {NoDay}, holds : Nat, dirty : BOOLEAN, sent : BOOLEAN,
                      careful : BOOLEAN],
           Reloads(d, l, f)
    PROVE  /\ loadedFormDay' \in Days \cup {NoDay}
           /\ draft' \in [day : Days \cup {NoDay}, holds : Nat, dirty : BOOLEAN, sent : BOOLEAN,
                          careful : BOOLEAN]
<1>1. ASSUME d \in Days, IsReady(journal', d) PROVE Cached(journal', d)[d] \in Nat
    <2>1. journal'[KeyOfDay(d)].data \in NatOf(KeyOfDay(d))
        BY <1>1, WorklogKeys DEF IsReady, Cached, Query
    <2> QED BY <1>1, <2>1, WorklogKeys DEF Cached, NatOf
<1>2. CASE draft' = f /\ loadedFormDay' \in {NoDay, l}
    BY <1>2
<1>3. CASE d \in Days /\ IsReady(journal', d) /\ loadedFormDay' = d /\ draft' = FilledFrom(journal', d)
    BY <1>1, <1>3 DEF FilledFrom, NoDraft
<1> QED BY <1>2, <1>3 DEF Reloads

\* A step of one fetch
LEMMA WorklogFetchStep ==
    ASSUME WorklogInv, NEW k \in JournalKeys, NEW q \in Query(NatOf(k)), Fetches(k, q),
           ~q.busy => q.seen = NoData,
           q.data = journal[k].data \/ q.data # NoData,
           \A d \in DaysOf(k) : q.seen # NoData => q.seen[d] >= answered[d],
           \/ freshDays' = freshDays /\ q.data = journal[k].data
              /\ (q.busy \/ q.failed \/ (~journal[k].busy /\ ~journal[k].failed))
           \/ freshDays' = freshDays \cup {k}
              /\ \A d \in DaysOf(k) : q.data # NoData => q.data[d] >= answered[d]
    PROVE  WorklogInv'
<1> USE DEF WorklogInv
<1>1. /\ UNCHANGED <<selectedDay, worklogSave, records, answered>>
      /\ journal' = [journal EXCEPT ![k] = q]
      /\ Reloads(selectedDay, loadedFormDay, draft)
    BY DEF Fetches
<1>2. \A x \in JournalKeys : journal'[x] = IF x = k THEN q ELSE journal[x]
    BY <1>1 DEF WorklogTypeOK
<1>3. WorklogTypeOK'
    <2>1. /\ loadedFormDay' \in Days \cup {NoDay}
          /\ draft' \in [day : Days \cup {NoDay}, holds : Nat, dirty : BOOLEAN, sent : BOOLEAN,
                         careful : BOOLEAN]
        BY <1>1, <1>2, ReloadsType DEF WorklogTypeOK
    <2> QED BY <1>1, <1>2, <2>1 DEF WorklogTypeOK
<1>4. CachesFollow'
    <2>1. ASSUME NEW d \in Days, KeyOfDay(d) = k PROVE d \in DaysOf(k)
        BY <2>1 DEF DaysOf
    <2> QED BY <1>1, <1>2, <2>1, WorklogKeys DEF CachesFollow
<1>5. FormFollows'
    <2>1. IsReady(journal, selectedDay) => IsReady(journal', selectedDay)
        BY <1>1, <1>2 DEF IsReady, Cached, WorklogTypeOK
    <2> QED BY <1>1, <1>3, <2>1, EffectReloads DEF FormFollows
<1> QED BY <1>3, <1>4, <1>5

\* The queries
LEMMA WorklogFetches ==
    ASSUME WorklogInv,
           PrefetchDays \/ (\E k \in JournalKeys : RefetchDay(k) \/ ReadDay(k) \/ AnswerDay(k)
                                                   \/ DayFails(k))
    PROVE  WorklogInv'
<1>1. \A k \in JournalKeys : /\ journal[k] \in Query(NatOf(k))
                             /\ ~journal[k].busy => journal[k].seen = NoData
    BY DEF WorklogInv, WorklogTypeOK
<1>2. \A k \in JournalKeys : \A d \in DaysOf(k) : journal[k].seen # NoData => journal[k].seen[d] >= answered[d]
    BY DEF WorklogInv, CachesFollow, DaysOf
<1>3. ASSUME NEW k \in JournalKeys, NEW q, q = Started(journal[k]) \/ q = Restarted(journal[k]),
             Fetches(k, q), UNCHANGED freshDays
      PROVE  WorklogInv'
    <2>1. q \in Query(NatOf(k)) /\ q.data = journal[k].data /\ q.busy /\ q.seen \in {journal[k].seen, NoData}
        BY <1>1, <1>3, StartedQuery
    <2> QED BY <1>2, <1>3, <2>1, WorklogFetchStep
<1>4. ASSUME NEW k \in JournalKeys, ReadDay(k) PROVE WorklogInv'
    <2> DEFINE v == [d \in DaysOf(k) |-> records[d]]
               q == ReadAs(journal[k], v)
    <2>1. v \in NatOf(k) /\ \A d \in DaysOf(k) : v[d] >= answered[d]
        BY DEF WorklogInv, WorklogTypeOK, CachesFollow, NatOf, DaysOf
    <2>2. Fetches(k, q) /\ UNCHANGED freshDays /\ journal[k].busy
        BY <1>4 DEF ReadDay, DaysOf, MayRead
    <2>3. q \in Query(NatOf(k)) /\ q.data = journal[k].data /\ q.seen = v /\ q.busy = journal[k].busy
        BY <1>1, <2>1, ReadQuery
    <2> HIDE DEF v, q
    <2> QED BY <2>1, <2>2, <2>3, WorklogFetchStep
<1>5. ASSUME NEW k \in JournalKeys, AnswerDay(k) PROVE WorklogInv'
    <2> DEFINE q == Answered(journal[k])
    <2>1. Fetches(k, q) /\ freshDays' = freshDays \cup {k} /\ journal[k].seen # NoData
        BY <1>5 DEF AnswerDay, MayAnswer
    <2>2. q \in Query(NatOf(k)) /\ q.data = journal[k].seen /\ q.seen = NoData /\ ~q.busy
        BY <1>1, AnsweredQuery
    <2> HIDE DEF q
    <2> QED BY <1>2, <2>1, <2>2, WorklogFetchStep
<1>6. ASSUME NEW k \in JournalKeys, DayFails(k) PROVE WorklogInv'
    <2> DEFINE q == Failed(journal[k])
    <2>1. Fetches(k, q) /\ UNCHANGED freshDays
        BY <1>6 DEF DayFails
    <2>2. q \in Query(NatOf(k)) /\ q.data = journal[k].data /\ q.seen = NoData /\ ~q.busy
        BY <1>1, EndedQuery
    <2>3. q.failed
        BY <1>1 DEF Failed, Query
    <2> HIDE DEF q
    <2> QED BY <2>1, <2>2, <2>3, WorklogFetchStep
<1>7. ASSUME PrefetchDays PROVE WorklogInv'
    BY <1>3, <1>7 DEF PrefetchDays, JournalKeys
<1>8. ASSUME NEW k \in JournalKeys, RefetchDay(k) PROVE WorklogInv'
    BY <1>3, <1>8 DEF RefetchDay
<1> QED BY <1>4, <1>5, <1>6, <1>7, <1>8

\* Opening the page and choosing another day
LEMMA WorklogOpens ==
    ASSUME WorklogInv, NEW d \in Days, OpenWorklog(d) \/ SelectDay(d)
    PROVE  WorklogInv'
<1> DEFINE started == IF OnWorklog THEN Watched(d) \ Watched(selectedDay) ELSE Watched(d)
<1> USE DEF WorklogInv
<1>1. /\ selectedDay' = d /\ Mounts(started)
      /\ Reloads(d, IF IsReady(journal, d) THEN d ELSE NoDay, FilledFrom(journal, d))
      /\ UNCHANGED <<freshDays, worklogSave, records, answered>>
    BY DEF OpenWorklog, SelectDay
<1>2. \A k \in JournalKeys :
        \/ journal'[k] = journal[k] /\ (k \in started => k \in freshDays)
        \/ journal'[k] = Started(journal[k])
    BY <1>1 DEF Mounts
<1>3. \A k \in JournalKeys :
        /\ journal'[k] \in Query(NatOf(k)) /\ journal'[k].data = journal[k].data
        /\ ~journal'[k].busy => journal'[k].seen = NoData
        /\ journal'[k].seen \in {journal[k].seen, NoData}
        /\ \/ journal'[k] = journal[k] /\ (k \in started => k \in freshDays)
           \/ journal'[k].busy
    BY <1>2, StartedQuery DEF WorklogTypeOK
<1>4. \A x \in Days : KeyOfDay(x) \in JournalKeys
    BY WorklogKeys
<1>5. IsReady(journal', d) = IsReady(journal, d) /\ Cached(journal', d) = Cached(journal, d)
    BY <1>3, <1>4 DEF IsReady, Cached
<1>6. IsReady(journal, d) => Cached(journal, d)[d] \in Nat
    <2>1. IsReady(journal, d) => journal[KeyOfDay(d)].data \in NatOf(KeyOfDay(d))
        BY <1>4 DEF IsReady, Cached, Query, WorklogTypeOK
    <2> QED BY <2>1, WorklogKeys DEF NatOf, Cached
<1>7. /\ draft' = FilledFrom(journal, d)
      /\ loadedFormDay' = IF IsReady(journal, d) THEN d ELSE NoDay
    <2>1. FilledFrom(journal', d) = FilledFrom(journal, d) /\ ~FilledFrom(journal, d).dirty
        BY <1>5 DEF FilledFrom, NoDraft
    <2>2. d # NoDay
        BY WorklogKeys
    <2> QED BY <1>1, <1>5, <2>1, <2>2 DEF Reloads
<1>8. /\ draft' \in [day : Days \cup {NoDay}, holds : Nat, dirty : BOOLEAN, sent : BOOLEAN,
                     careful : BOOLEAN]
      /\ draft'.day = d /\ ~draft'.dirty /\ ~draft'.sent
      /\ IsReady(journal, d) => draft'.holds = Cached(journal, d)[d]
    BY <1>6, <1>7 DEF FilledFrom, NoDraft
<1>9. WorklogTypeOK'
    <2>1. journal' \in [JournalKeys -> UNION {Query(NatOf(k)) : k \in JournalKeys}]
        BY <1>1, <1>3 DEF Mounts
    <2> QED BY <1>1, <1>3, <1>7, <1>8, <2>1 DEF WorklogTypeOK
<1>10. CachesFollow'
    <2>1. \A k \in Watched(selectedDay') : k \in started \/ k \in Watched(selectedDay)
        BY <1>1
    <2> HIDE DEF started, Watched
    <2> QED BY <1>1, <1>3, <1>4, <2>1 DEF CachesFollow
<1>11. FormFollows'
    BY <1>1, <1>5, <1>7, <1>8, WorklogKeys DEF FormFollows, OnWorklog, Dirty
<1> QED BY <1>9, <1>10, <1>11

\* The form
LEMMA WorklogTyping ==
    ASSUME WorklogInv, Type \/ SendWorklog \/ WorklogFails \/ LeaveWorklog
    PROVE  WorklogInv'
<1> USE DEF WorklogInv
<1> HIDE DEF IsReady, Cached
<1>1. CASE Type
    <2>1. /\ draft' = [draft EXCEPT !.dirty = TRUE,
                              !.careful = IF draft.dirty THEN @ ELSE Calmly(selectedDay)]
          /\ OnWorklog /\ IsReady(journal, selectedDay) /\ selectedDay \in Days
          /\ UNCHANGED <<journal, freshDays, selectedDay, loadedFormDay, worklogSave, records, answered>>
        BY <1>1 DEF Type, OnWorklog, WorklogTypeOK
    <2>2. Calmly(selectedDay) =>
            worklogSave = NoWorklogSave /\ Cached(journal, selectedDay)[selectedDay] >= answered[selectedDay]
        BY <2>1 DEF Calmly, CachesFollow, Cached, IsReady, AtRest, IsShown, Watched, OnWorklog
    <2>3. /\ draft'.dirty /\ draft'.day = draft.day /\ draft'.holds = draft.holds /\ draft'.sent = draft.sent
          /\ draft'.careful = IF draft.dirty THEN draft.careful ELSE Calmly(selectedDay)
          /\ draft' \in [day : Days \cup {NoDay}, holds : Nat, dirty : BOOLEAN, sent : BOOLEAN,
                         careful : BOOLEAN]
        BY <2>1 DEF WorklogTypeOK, Calmly, AtRest, IsShown
    <2>4. WorklogTypeOK' /\ CachesFollow'
        BY <2>1, <2>3 DEF WorklogTypeOK, CachesFollow
    <2>5. FormFollows'
        BY <2>1, <2>2, <2>3 DEF FormFollows, OnWorklog, Dirty, NoWorklogSave
    <2> QED BY <2>4, <2>5
<1>2. CASE SendWorklog
    <2>1. draft.day = selectedDay /\ selectedDay \in Days
        BY <1>2 DEF SendWorklog, FormFollows, OnWorklog, WorklogTypeOK
    <2>2. WorklogTypeOK' /\ CachesFollow'
        BY <1>2, <2>1 DEF SendWorklog, WorklogTypeOK, CachesFollow
    <2>3. FormFollows'
        BY <1>2, <2>1 DEF SendWorklog, WorklogTypeOK, FormFollows, OnWorklog, Dirty
    <2> QED BY <2>2, <2>3
<1>3. CASE WorklogFails
    <2>1. WorklogTypeOK' /\ CachesFollow'
        BY <1>3 DEF WorklogFails, WorklogTypeOK, CachesFollow, NoWorklogSave
    <2>2. /\ draft'.day = draft.day /\ draft'.holds = draft.holds /\ draft'.dirty = draft.dirty
          /\ draft'.careful = draft.careful /\ ~draft'.sent
        BY <1>3 DEF WorklogFails, WorklogTypeOK
    <2>3. /\ worklogSave'.phase = "idle"
          /\ UNCHANGED <<journal, freshDays, selectedDay, loadedFormDay, records, answered>>
        BY <1>3 DEF WorklogFails, NoWorklogSave
    <2>4. FormFollows'
        BY <2>2, <2>3 DEF FormFollows, OnWorklog, Dirty
    <2> QED BY <2>1, <2>4
<1>4. CASE LeaveWorklog
    <2>1. WorklogTypeOK'
        BY <1>4 DEF LeaveWorklog, WorklogTypeOK, NoDraft
    <2>2. CachesFollow'
        BY <1>4 DEF LeaveWorklog, CachesFollow, Watched
    <2>3. FormFollows'
        BY <1>4 DEF LeaveWorklog, FormFollows, OnWorklog, Dirty, NoDraft
    <2> QED BY <2>1, <2>2, <2>3
<1> QED BY <1>1, <1>2, <1>3, <1>4

\* The server writes what was sent.
LEMMA WorklogServes ==
    ASSUME WorklogInv, ServeWorklog
    PROVE  WorklogInv'
<1> USE DEF WorklogInv
<1> DEFINE d == worklogSave.day
<1>1. /\ d \in Days /\ worklogSave.phase = "sent" /\ worklogSave.as \in Nat
      /\ records' = [records EXCEPT ![d] = @ + 1]
      /\ worklogSave' = [worklogSave EXCEPT !.phase = "served", !.as = records'[d]]
      /\ draft' = IF draft.sent THEN [draft EXCEPT !.holds = records'[d]] ELSE draft
      /\ UNCHANGED <<journal, freshDays, selectedDay, loadedFormDay, answered>>
    BY DEF ServeWorklog, WorklogTypeOK, NoWorklogSave
<1>2. /\ \A x \in Days : records'[x] \in Nat /\ records'[x] >= records[x]
      /\ records' \in [Days -> Nat]
    BY <1>1 DEF WorklogTypeOK
<1>3. /\ worklogSave'.phase = "served" /\ worklogSave'.as = records'[d] /\ worklogSave'.day = d
      /\ worklogSave' \in [phase : {"sent", "served"}, day : Days, as : Nat]
    BY <1>1, <1>2 DEF WorklogTypeOK, NoWorklogSave
<1>4. /\ draft' \in [day : Days \cup {NoDay}, holds : Nat, dirty : BOOLEAN, sent : BOOLEAN,
                     careful : BOOLEAN]
      /\ draft'.day = draft.day /\ draft'.dirty = draft.dirty /\ draft'.careful = draft.careful
      /\ draft'.sent = draft.sent
      /\ draft'.holds = IF draft.sent THEN records'[d] ELSE draft.holds
    BY <1>1, <1>2 DEF WorklogTypeOK
<1> HIDE DEF d
<1>5. WorklogTypeOK'
    BY <1>1, <1>2, <1>3, <1>4 DEF WorklogTypeOK
<1>6. \A x \in Days : answered[x] <= records'[x]
    BY <1>2 DEF CachesFollow, WorklogTypeOK
<1>7. CachesFollow'
    BY <1>1, <1>2, <1>3, <1>6 DEF CachesFollow, WorklogTypeOK
<1>8. draft.sent => draft.day = d
    BY <1>1 DEF FormFollows, d
<1>9. OnWorklog => selectedDay \in Days
    BY DEF OnWorklog, WorklogTypeOK
<1>10. draft.dirty => OnWorklog /\ IsReady(journal, selectedDay)
    BY DEF FormFollows
<1>11. FormFollows'
    BY <1>1, <1>2, <1>3, <1>4, <1>6, <1>8, <1>9, <1>10 DEF FormFollows, OnWorklog, Dirty
<1> QED BY <1>5, <1>7, <1>11

\* The tab is told: every query that is watched starts over, unless there is
\* nothing yet to show, and none is fresh any longer.
LEMMA WorklogAnswered ==
    ASSUME WorklogInv, WorklogSaved
    PROVE  WorklogInv'
<1> USE DEF WorklogInv
<1> DEFINE d == worklogSave.day
<1>1. /\ d \in Days /\ worklogSave.as \in Nat /\ worklogSave.phase = "served"
      /\ worklogSave' = NoWorklogSave /\ freshDays' = {}
      /\ UNCHANGED <<selectedDay, records>>
      /\ Reloads(selectedDay, loadedFormDay, draft)
    BY DEF WorklogSaved, WorklogTypeOK, NoWorklogSave
<1>2. /\ answered' = IF Overtaken(KeyOfDay(d)) THEN answered ELSE [answered EXCEPT ![d] = worklogSave.as]
      /\ \A k \in JournalKeys :
            journal'[k] = IF k \in Watched(selectedDay) THEN Restarted(journal[k]) ELSE journal[k]
      /\ DOMAIN journal' = JournalKeys /\ journal' = [k \in JournalKeys |-> journal'[k]]
    BY DEF WorklogSaved
<1> HIDE DEF d
<1>3. \A k \in JournalKeys :
        /\ journal'[k] \in Query(NatOf(k)) /\ journal'[k].data = journal[k].data
        /\ ~journal'[k].busy => journal'[k].seen = NoData
        /\ journal'[k].seen \in {journal[k].seen, NoData}
        /\ k \in Watched(selectedDay) => journal'[k].busy
    BY <1>2, StartedQuery DEF WorklogTypeOK
<1>4. \A x \in Days : KeyOfDay(x) \in JournalKeys
    BY WorklogKeys
<1>5. /\ answered' \in [Days -> Nat]
      /\ \A x \in Days : answered'[x] <= records[x]
      /\ \A x \in Days : answered'[x] # answered[x] => x = d /\ ~Overtaken(KeyOfDay(d))
      /\ answered'[d] \in {answered[d], worklogSave.as}
    BY <1>1, <1>2 DEF CachesFollow, WorklogTypeOK, d
<1>6. \A x \in Days : journal'[KeyOfDay(x)].seen # NoData => journal'[KeyOfDay(x)].seen[x] >= answered'[x]
    <2> SUFFICES ASSUME NEW x \in Days, journal'[KeyOfDay(x)].seen # NoData
                 PROVE  journal'[KeyOfDay(x)].seen[x] >= answered'[x]
        OBVIOUS
    <2>1. journal'[KeyOfDay(x)].seen = journal[KeyOfDay(x)].seen
        BY <1>3, <1>4
    <2>2. journal[KeyOfDay(x)].seen[x] >= answered[x]
        BY <2>1 DEF CachesFollow
    <2>3. answered'[x] = answered[x]
        <3> SUFFICES ASSUME x = d, ~Overtaken(KeyOfDay(d)) PROVE FALSE
            BY <1>5
        <3>1. /\ journal[KeyOfDay(d)].busy /\ KeyOfDay(d) \in Watched(selectedDay)
              /\ journal[KeyOfDay(d)].data # NoData
            BY <1>4, <2>1 DEF Overtaken, WorklogTypeOK
        <3>2. Restarted(journal[KeyOfDay(d)]).seen = NoData
            BY <1>4, <3>1 DEF Restarted, Started, WorklogTypeOK, Query
        <3> QED BY <1>2, <1>4, <3>1, <3>2
    <2> QED BY <2>1, <2>2, <2>3
<1>7. CachesFollow'
    BY <1>1, <1>3, <1>4, <1>5, <1>6 DEF CachesFollow, NoWorklogSave
<1>8. WorklogTypeOK'
    <2>1. /\ loadedFormDay' \in Days \cup {NoDay}
          /\ draft' \in [day : Days \cup {NoDay}, holds : Nat, dirty : BOOLEAN, sent : BOOLEAN,
                         careful : BOOLEAN]
        BY <1>1, <1>3, ReloadsType DEF WorklogTypeOK
    <2>2. journal' \in [JournalKeys -> UNION {Query(NatOf(k)) : k \in JournalKeys}]
        BY <1>2, <1>3
    <2> QED BY <1>1, <1>3, <1>5, <2>1, <2>2 DEF WorklogTypeOK
<1>9. FormFollows'
    <2>1. IsReady(journal, selectedDay) => IsReady(journal', selectedDay)
        <3>1. CASE selectedDay \in Days
            BY <1>3, <1>4, <3>1 DEF IsReady, Cached
        <3>2. CASE selectedDay = NoDay
            BY <1>3, <3>2, WorklogAssumption DEF IsReady, Cached, KeyOfDay, JournalKeys
        <3> QED BY <3>1, <3>2 DEF WorklogTypeOK
    <2>2. ASSUME Dirty PROVE draft.holds >= answered'[selectedDay]
        <3>1. draft.day = selectedDay /\ draft.sent /\ draft.holds >= worklogSave.as
              /\ draft.holds >= answered[selectedDay] /\ worklogSave.day = draft.day
            BY <1>1, <2>2 DEF FormFollows, Dirty, OnWorklog, NoDraft
        <3> QED BY <1>5, <3>1 DEF d
    <2> QED BY <1>1, <1>8, <2>1, <2>2, EffectReloads
<1> QED BY <1>7, <1>8, <1>9

\* A form that was typed into in a quiet moment never saves less than what the
\* tab was told of, whatever the other days, fetches, errors and saves.
THEOREM FormsKeepOwnEntries == WorklogSpec => []NoEntryIsTakenBack
<1>1. WorklogInit => WorklogInv
    <2> SUFFICES ASSUME WorklogInit PROVE WorklogInv
        OBVIOUS
    <2>1. \A k \in JournalKeys : Blank \in Query(NatOf(k))
        BY DEF Blank, Query
    <2>2. WorklogTypeOK
        <3>1. journal \in [JournalKeys -> UNION {Query(NatOf(k)) : k \in JournalKeys}]
            BY <2>1 DEF WorklogInit
        <3> QED BY <2>1, <3>1 DEF WorklogInit, WorklogTypeOK, NoDraft, Blank
    <2>3. CachesFollow
        BY WorklogKeys DEF WorklogInit, CachesFollow, Blank, NoWorklogSave
    <2>4. FormFollows
        BY DEF WorklogInit, FormFollows, OnWorklog, Dirty, NoDraft, NoWorklogSave
    <2> QED BY <2>2, <2>3, <2>4 DEF WorklogInv
<1>2. WorklogInv /\ [WorklogNext]_worklogVars => WorklogInv'
    <2> SUFFICES ASSUME WorklogInv, [WorklogNext]_worklogVars PROVE WorklogInv'
        OBVIOUS
    <2>1. ASSUME NEW k \in JournalKeys, AgeDay(k) PROVE WorklogInv'
        <3>1. WorklogTypeOK'
            BY <2>1 DEF AgeDay, WorklogInv, WorklogTypeOK
        <3>2. CachesFollow'
            BY <2>1 DEF AgeDay, WorklogInv, CachesFollow
        <3>3. FormFollows'
            BY <2>1 DEF AgeDay, WorklogInv, FormFollows, OnWorklog, Dirty
        <3> QED BY <3>1, <3>2, <3>3 DEF WorklogInv
    <2>2. CASE UNCHANGED worklogVars
        <3>1. WorklogTypeOK'
            BY <2>2 DEF worklogVars, WorklogInv, WorklogTypeOK
        <3>2. CachesFollow'
            BY <2>2 DEF worklogVars, WorklogInv, CachesFollow
        <3>3. FormFollows'
            BY <2>2 DEF worklogVars, WorklogInv, FormFollows, OnWorklog, Dirty
        <3> QED BY <3>1, <3>2, <3>3 DEF WorklogInv
    <2> QED BY <2>1, <2>2, WorklogOpens, WorklogFetches, WorklogTyping, WorklogServes,
               WorklogAnswered DEF WorklogNext
<1>3. WorklogInv => NoEntryIsTakenBack
    BY DEF WorklogInv, FormFollows, Dirty, NoEntryIsTakenBack
<1> QED BY <1>1, <1>2, <1>3, PTL DEF WorklogSpec

-----------------------------------------------------------------------------
(* DreamEditor                                                             *)

DreamTypeOK ==
    /\ dreamSheet \in {"none", "detail", "create", "edit"}
    /\ dreamListed.files \subseteq Pictures
    /\ sheetDream \subseteq Pictures
    /\ dreamSave \in [phase : {"idle", "sent", "saved", "refused"}, files : SUBSET Pictures]
    /\ uploadList \in [busy : SUBSET Pictures, failed : SUBSET Pictures]
    /\ dreamFiles \subseteq Pictures /\ linked \subseteq Pictures
    /\ dreamDisturbed \in BOOLEAN

\* What is to be deleted is of no dream, and nothing that is stored is uploaded.
FilesApart ==
    /\ uploading = uploadList.busy /\ uploading \cap uploadList.failed = {}
    /\ (uploading \cup uploadList.failed) \cap (pictures \cup deleting \cup dreamFiles) = {}
    /\ deleting \cap (linked \cup orphans \cup temporary \cup removedFiles) = {}
    /\ orphans \cap (linked \cup temporary \cup removedFiles) = {}

\* What is stored is of a dream, or the sheet or a request knows of it.
FilesKnown ==
    /\ linked \cup orphans \cup temporary \cup removedFiles \subseteq pictures
    /\ pictures \subseteq linked \cup orphans \cup temporary \cup removedFiles \cup deleting
    /\ ~dreamExists => linked = {}

\* The sheet holds the dream's pictures and its own changes of them.
SheetAgrees ==
    /\ dreamSheet = "none" => sheetDream = {}
    /\ DreamEditing => dreamFiles \ temporary \subseteq sheetDream
    /\ DreamEditing => /\ dreamFiles \cap (deleting \cup removedFiles \cup orphans) = {}
                       /\ temporary \subseteq dreamFiles
    /\ ~DreamEditing => /\ temporary = {} /\ removedFiles = {} /\ uploadList = NoUploads
                        /\ ~DreamSaving
    /\ DreamSaving => uploading = {} /\ dreamSave.files = dreamFiles
    /\ DreamEditing /\ dreamSave.phase # "saved" =>
        linked = (dreamFiles \ temporary) \cup removedFiles
    /\ dreamSave.phase = "saved" => linked = dreamFiles

DreamSound == FilesApart /\ FilesKnown /\ SheetAgrees

DreamInv == DreamTypeOK /\ (~dreamDisturbed => DreamSound)

\* The actions that open, close and delete, whose effect is of the sheet.
LEMMA DreamSheetSteps ==
    ASSUME DreamInv, ~dreamDisturbed,
           \/ OpenCreate \/ OpenEdit \/ OpenDetail \/ CloseDream \/ LeaveDreams
           \/ RefetchDreams \/ DreamsAnswered
           \/ AskDreamRemove \/ DreamDeleted \/ DreamRemoveFails
    PROVE  DreamInv'
<1> USE DEF DreamInv, DreamTypeOK, DreamSound, FilesApart, FilesKnown, SheetAgrees, DreamEditing,
            DreamSaving, NoUploads, dreamServer, dreamForm, dreamList
<1>1. CASE OpenCreate
    BY <1>1 DEF OpenCreate, DreamOpens, DreamUntouched
<1>2. CASE OpenEdit
    BY <1>2 DEF OpenEdit, DreamOpens, DreamAsStored
<1>3. CASE OpenDetail \/ AskDreamRemove \/ DreamRemoveFails \/ RefetchDreams \/ DreamsAnswered
    <2>1. CASE OpenDetail
        BY <2>1 DEF OpenDetail
    <2>2. CASE AskDreamRemove \/ DreamRemoveFails
        BY <2>2 DEF AskDreamRemove, DreamRemoveFails
    <2>3. CASE RefetchDreams
        BY <2>3 DEF RefetchDreams
    <2>4. CASE DreamsAnswered
        <3>1. dreamListed'.files \subseteq Pictures
            BY <2>4 DEF DreamsAnswered, DreamAsStored
        <3> QED BY <2>4, <3>1 DEF DreamsAnswered
    <2> QED BY <1>3, <2>1, <2>2, <2>3, <2>4
<1>4. CASE CloseDream
    BY <1>4 DEF CloseDream, DreamCloses, CleansUpFiles
<1>5. CASE LeaveDreams
    BY <1>5 DEF LeaveDreams
<1>6. CASE DreamDeleted
    <2>1. DreamTypeOK'
        BY <1>6 DEF DreamDeleted, DreamCloses, CleansUpFiles
    <2>2. ~dreamDisturbed' => FilesApart'
        BY <1>6 DEF DreamDeleted, DreamCloses, CleansUpFiles
    <2>3. ~dreamDisturbed' => FilesKnown'
        <3>1. /\ temporary' = {} /\ deleting' = deleting \cup temporary /\ removedFiles' = {}
              /\ pictures' = pictures
            BY <1>6 DEF DreamDeleted, DreamCloses, CleansUpFiles
        <3>2. ~dreamDisturbed' => removedFiles \subseteq linked
            BY <1>6 DEF DreamDeleted, DreamCloses
        <3>3. CASE dreamRemove = "dream"
            <4>1. dreamExists' = FALSE /\ linked' = {} /\ orphans' = orphans \cup linked
                BY <1>6, <3>3 DEF DreamDeleted
            <4> QED BY <3>1, <3>2, <4>1
        <3>4. CASE dreamRemove # "dream"
            <4>1. dreamExists' = dreamExists /\ linked' = linked /\ orphans' = orphans
                BY <1>6, <3>4 DEF DreamDeleted
            <4> QED BY <3>1, <3>2, <4>1
        <3> QED BY <3>3, <3>4
    <2>4. ~dreamDisturbed' => SheetAgrees'
        BY <1>6 DEF DreamDeleted, DreamCloses, CleansUpFiles
    <2> QED BY <2>1, <2>2, <2>3, <2>4 DEF DreamInv, DreamSound
<1> QED BY <1>1, <1>2, <1>3, <1>4, <1>5, <1>6

\* The actions on a picture
LEMMA DreamPictureSteps ==
    ASSUME DreamInv, ~dreamDisturbed,
           SelectFiles \/ (\E p \in Pictures : RetryUpload(p) \/ Uploaded(p) \/ UploadFails(p)
                                               \/ RemoveFile(p) \/ PictureDeleted(p))
    PROVE  DreamInv'
<1> USE DEF DreamInv, DreamTypeOK, DreamSound, FilesApart, FilesKnown, SheetAgrees, DreamEditing,
            DreamSaving, NoUploads, dreamServer, dreamForm, dreamList
<1>1. CASE SelectFiles
    <2>1. DreamTypeOK'
        BY <1>1 DEF SelectFiles, KnownPictures, DreamUntouched
    <2>2. ~dreamDisturbed' => FilesApart'
        BY <1>1 DEF SelectFiles, KnownPictures, DreamUntouched
    <2>3. ~dreamDisturbed' => FilesKnown'
        BY <1>1 DEF SelectFiles, KnownPictures, DreamUntouched
    <2>4. ~dreamDisturbed' => SheetAgrees'
        BY <1>1 DEF SelectFiles, KnownPictures, DreamUntouched
    <2> QED BY <2>1, <2>2, <2>3, <2>4 DEF DreamInv, DreamSound
<1>2. ASSUME NEW p \in Pictures, RetryUpload(p) PROVE DreamInv'
    <2>1. DreamTypeOK'
        BY <1>2 DEF RetryUpload, DreamUntouched
    <2>2. ~dreamDisturbed' => FilesApart'
        BY <1>2 DEF RetryUpload, DreamUntouched
    <2>3. ~dreamDisturbed' => FilesKnown'
        BY <1>2 DEF RetryUpload, DreamUntouched
    <2>4. ~dreamDisturbed' => SheetAgrees'
        BY <1>2 DEF RetryUpload, DreamUntouched
    <2> QED BY <2>1, <2>2, <2>3, <2>4 DEF DreamInv, DreamSound
<1>3. ASSUME NEW p \in Pictures, Uploaded(p) PROVE DreamInv'
    <2>1. DreamTypeOK'
        BY <1>3 DEF Uploaded
    <2>2. ~dreamDisturbed' => FilesApart'
        <3> SUFFICES ASSUME ~dreamDisturbed' PROVE FilesApart'
            OBVIOUS
        <3>1. /\ p \in uploadList.busy /\ p \notin pictures \cup deleting
              /\ p \notin linked \cup orphans \cup temporary \cup removedFiles
            BY <1>3 DEF Uploaded
        <3>2. /\ uploadList'.busy = uploadList.busy \ {p} /\ uploadList'.failed = uploadList.failed
              /\ p \notin uploadList.failed
            BY <1>3 DEF Uploaded
        <3> QED BY <1>3, <3>1, <3>2 DEF Uploaded
    <2>3. ~dreamDisturbed' => FilesKnown'
        BY <1>3 DEF Uploaded
    <2>4. ~dreamDisturbed' => SheetAgrees'
        BY <1>3 DEF Uploaded
    <2> QED BY <2>1, <2>2, <2>3, <2>4 DEF DreamInv, DreamSound
<1>4. ASSUME NEW p \in Pictures, UploadFails(p) PROVE DreamInv'
    BY <1>4 DEF UploadFails
<1>5. ASSUME NEW p \in Pictures, RemoveFile(p) PROVE DreamInv'
    <2>1. /\ DreamEditing /\ DreamEditing' /\ p \in dreamFiles /\ dreamFiles' = dreamFiles \ {p}
          /\ UNCHANGED <<dreamSheet, dreamList, sheetDream, uploadList, uploading, dreamSave, dreamServer>>
          /\ dreamDisturbed' = (dreamDisturbed \/ DreamSaving)
        BY <1>5 DEF RemoveFile, DreamUntouched
    <2>2. \/ /\ p \in temporary /\ temporary' = temporary \ {p} /\ deleting' = deleting \cup {p}
             /\ removedFiles' = removedFiles
          \/ /\ p \notin temporary /\ removedFiles' = removedFiles \cup ({p} \cap sheetDream)
             /\ UNCHANGED <<temporary, deleting>>
        BY <1>5 DEF RemoveFile, CleansUpFiles
    <2>3. DreamTypeOK'
        BY <2>1
    <2>4. CASE DreamSaving
        BY <2>1, <2>3, <2>4
    <2>5. CASE ~DreamSaving /\ p \in temporary
        <3>1. p \notin linked \cup orphans \cup removedFiles
            BY <2>1, <2>5
        <3>2. p \notin uploading \cup uploadList.failed
            BY <2>1
        <3>3. FilesApart'
            BY <2>1, <2>2, <2>5, <3>1, <3>2
        <3>4. FilesKnown' /\ SheetAgrees'
            BY <2>1, <2>2, <2>5, <3>1
        <3> QED BY <2>3, <3>3, <3>4
    <2>6. CASE ~DreamSaving /\ p \notin temporary
        <3>1. p \in linked /\ p \in sheetDream /\ p \notin deleting \cup orphans
            BY <2>1, <2>6
        <3>2. FilesApart'
            BY <2>1, <2>2, <2>6, <3>1
        <3>3. FilesKnown' /\ SheetAgrees'
            BY <2>1, <2>2, <2>6, <3>1
        <3> QED BY <2>3, <3>2, <3>3
    <2> QED BY <2>4, <2>5, <2>6
<1>6. ASSUME NEW p \in Pictures, PictureDeleted(p) PROVE DreamInv'
    <2>1. DreamTypeOK'
        BY <1>6 DEF PictureDeleted
    <2>2. ~dreamDisturbed' => FilesApart'
        BY <1>6 DEF PictureDeleted
    <2>3. ~dreamDisturbed' => FilesKnown'
        BY <1>6 DEF PictureDeleted
    <2>4. ~dreamDisturbed' => SheetAgrees'
        <3>1. /\ deleting' \subseteq deleting
              /\ UNCHANGED <<dreamSheet, sheetDream, dreamFiles, temporary, removedFiles, uploadList,
                             uploading, dreamSave, orphans>>
            BY <1>6 DEF PictureDeleted
        <3>2. ~dreamDisturbed' => linked' = linked
            BY <1>6 DEF PictureDeleted
        <3> QED BY <3>1, <3>2
    <2> QED BY <2>1, <2>2, <2>3, <2>4 DEF DreamInv, DreamSound
<1> QED BY <1>1, <1>2, <1>3, <1>4, <1>5, <1>6

\* The actions of a save
LEMMA DreamSaveSteps ==
    ASSUME DreamInv, ~dreamDisturbed, SaveDream \/ ServeDream \/ DreamSaved \/ DreamFails
    PROVE  DreamInv'
<1> USE DEF DreamInv, DreamTypeOK, DreamSound, FilesApart, FilesKnown, SheetAgrees, DreamEditing,
            DreamSaving, NoUploads, NoDreamSave, dreamServer, dreamForm, dreamList
<1>1. CASE SaveDream
    BY <1>1 DEF SaveDream
<1>2. CASE ServeDream
    BY <1>2 DEF ServeDream
<1>3. CASE DreamSaved
    BY <1>3 DEF DreamSaved
<1>4. CASE DreamFails
    BY <1>4 DEF DreamFails
<1> QED BY <1>1, <1>2, <1>3, <1>4

\* Between two sheets every stored picture is of the dream, or of one that was
\* deleted, for any number of pictures, uploads, saves and deletions.
THEOREM NoPictureIsForgotten == DreamSpec => []PicturesAreAccounted
<1>1. DreamInit => DreamInv
    <2> SUFFICES ASSUME DreamInit PROVE DreamInv
        OBVIOUS
    <2>1. DreamTypeOK
        BY DreamAssumption DEF DreamInit, DreamTypeOK, NoUploads, NoDreamSave
    <2>2. DreamSound
        BY DEF DreamInit, DreamSound, FilesApart, FilesKnown, SheetAgrees, DreamEditing, DreamSaving,
           NoUploads, NoDreamSave
    <2> QED BY <2>1, <2>2 DEF DreamInv
<1>2. DreamInv /\ [DreamNext]_dreamVars => DreamInv'
    <2> SUFFICES ASSUME DreamInv, [DreamNext]_dreamVars PROVE DreamInv'
        OBVIOUS
    <2>1. CASE ~dreamDisturbed /\ DreamMoves
        BY <2>1, DreamSheetSteps, DreamPictureSteps, DreamSaveSteps DEF DreamMoves
    <2>2. CASE UNCHANGED dreamVars
        BY <2>2 DEF dreamVars, DreamInv, DreamTypeOK, DreamSound, FilesApart, FilesKnown,
           SheetAgrees, DreamEditing, DreamSaving
    <2> QED BY <2>1, <2>2 DEF DreamNext
<1>3. DreamInv => PicturesAreAccounted
    BY DEF DreamInv, DreamSound, FilesKnown, SheetAgrees, DreamAtEase, DreamEditing,
       PicturesAreAccounted
<1> QED BY <1>1, <1>2, <1>3, PTL DEF DreamSpec

-----------------------------------------------------------------------------
(* CommunicationTools: the scripts                                         *)

ShownLists(S) == [page : Nat \ {0}, found : SUBSET S]

LibraryTyped ==
    /\ types \subseteq TypeNames
    /\ filters \in [q : BOOLEAN, type : TypeNames \cup {AnyType}, favorite : BOOLEAN, page : Nat \ {0}]
    /\ scriptList \in Query(ShownLists(Scripts)) /\ (~scriptList.busy => scriptList.seen = NoData)
    /\ asked \in [LibraryChanges ->
                    [phase : {"idle", "sent", "done", "failed"}, on : Scripts \cup {NoScript},
                     from : TypeNames \cup {AnyType}, to : TypeNames \cup {AnyType}]]
    /\ \A k, l \in LibraryChanges : asked[k].phase # "idle" /\ asked[l].phase # "idle" => k = l
    /\ \A k \in {"create", "save"} : asked[k].phase = "sent" => asked[k].to \in TypeNames

NothingServed == \A k \in LibraryChanges : asked[k].phase # "done"
CountOf(f) == Cardinality(Found(f))

\* What was read, and what is shown at rest, counts what the filters select,
\* until the server has changed it and the tab has not yet been told.
ScriptsFollow ==
    /\ scriptList.data # NoData => scriptList.data.page = filters.page
    /\ scriptList.seen # NoData => scriptList.seen.page = filters.page
    /\ ~apart /\ NothingServed =>
        /\ scriptList.seen # NoData => scriptList.seen.found = Found(filters)
        /\ AtRest(scriptList) /\ IsShown(scriptList) => scriptList.data.found = Found(filters)

\* A page after the first is there.
PageIsThere ==
    ~apart /\ ~strayed /\ filters.page > 1 => (filters.page - 1) * LibraryPageSize < CountOf(filters)

LibraryInv == LibraryTyped /\ ScriptsFollow /\ PageIsThere

LEMMA CountsAreNumbers ==
    /\ \A f : CountOf(f) \in Nat /\ Found(f) \in SUBSET Scripts
    /\ \A list \in ShownLists(Scripts) : TotalFound(list) \in Nat
<1>1. \A f : Found(f) \in SUBSET Scripts
    BY DEF Found
<1>2. \A S \in SUBSET Scripts : Cardinality(S) \in Nat
    BY FS_Subset, FS_CardinalityType, LibraryAssumption
<1> QED BY <1>1, <1>2 DEF CountOf, TotalFound, ShownLists

\* What the filters select does not depend on the page.
LEMMA CountsOfPages ==
    ASSUME LibraryTyped, NEW p
    PROVE  /\ Found([filters EXCEPT !.page = p]) = Found(filters)
           /\ CountOf([filters EXCEPT !.page = p]) = CountOf(filters)
<1>1. Found([filters EXCEPT !.page = p]) = Found(filters)
    BY DEF Found, LibraryTyped
<1> QED BY <1>1 DEF CountOf

\* A page that is turned on a full list is there.
LEMMA TurnedPages ==
    ASSUME NEW size \in Nat \ {0}, NEW p \in Nat \ {0}, NEW n \in Nat, NEW total \in Nat,
           p > 1,
           \/ p = n + 1 /\ n * size < total
           \/ p = n - 1 /\ (n - 1) * size < total
    PROVE  (p - 1) * size < total
<1>1. CASE p = n + 1 /\ n * size < total
    BY <1>1
<1>2. CASE p = n - 1 /\ (n - 1) * size < total
    <2>1. p \in Nat /\ (p - 1) * size = p * size - size
        OBVIOUS
    <2>2. p * size < total
        BY <1>2
    <2>3. p * size \in Nat
        OBVIOUS
    <2> QED BY <2>1, <2>2, <2>3
<1> QED BY <1>1, <1>2

\* The list is read, answered and asked for again.
LEMMA ListSteps ==
    ASSUME LibraryInv, ~apart, ReadScripts \/ AnswerScripts \/ RetryScripts
    PROVE  LibraryInv'
<1> USE DEF LibraryInv
<1>1. UNCHANGED <<shelf, types, filters, scriptDialog, asked, served, strayed, apart>>
    BY DEF ReadScripts, AnswerScripts, RetryScripts
<1>2. /\ Found(filters)' = Found(filters) /\ CountOf(filters)' = CountOf(filters)
      /\ Found(filters) \in SUBSET Scripts /\ NothingServed' = NothingServed
    BY <1>1, CountsAreNumbers DEF CountOf, Found, Kept, NothingServed
<1>3. PageIsThere'
    BY <1>1, <1>2 DEF PageIsThere
<1>4. \/ /\ scriptList.busy /\ scriptList'.busy
         /\ scriptList'.seen = [page |-> filters.page, found |-> Found(filters)]
         /\ scriptList'.data = scriptList.data
      \/ /\ scriptList.seen # NoData /\ scriptList'.data = scriptList.seen
         /\ scriptList'.seen = NoData
      \/ /\ scriptList'.data = scriptList.data /\ scriptList'.failed /\ scriptList'.seen = NoData
      \/ /\ scriptList'.data = scriptList.data /\ scriptList'.busy
         /\ scriptList'.seen \in {NoData, scriptList.seen}
    <2>1. CASE ReadScripts
        BY <2>1 DEF ReadScripts, MayRead, ReadAs, LibraryTyped, Query
    <2>2. CASE AnswerScripts
        <3>1. \/ scriptList.seen # NoData /\ scriptList' = Answered(scriptList)
              \/ scriptList' = Failed(scriptList)
            BY <2>2 DEF AnswerScripts, MayAnswer
        <3> QED BY <3>1, AnsweredQuery, EndedQuery, FailedQuery DEF LibraryTyped
    <2>3. CASE RetryScripts
        BY <2>3, StartedQuery DEF RetryScripts, LibraryTyped
    <2> QED BY <2>1, <2>2, <2>3
<1>5. scriptList' \in Query(ShownLists(Scripts)) /\ (~scriptList'.busy => scriptList'.seen = NoData)
    <2>1. [page |-> filters.page, found |-> Found(filters)] \in ShownLists(Scripts)
        BY <1>2 DEF ShownLists, LibraryTyped
    <2> QED BY <2>1, StartedQuery, ReadQuery, AnsweredQuery, EndedQuery
            DEF ReadScripts, AnswerScripts, RetryScripts, MayRead, LibraryTyped
<1>6. LibraryTyped'
    BY <1>1, <1>5 DEF LibraryTyped
<1>7. ScriptsFollow'
    <2> HIDE DEF CountOf, NothingServed
    <2> QED BY <1>1, <1>2, <1>4 DEF ScriptsFollow, AtRest, IsShown
<1> QED BY <1>3, <1>6, <1>7

\* Another key is fetched, from which nothing has been read yet.
LEMMA SelectingSteps ==
    ASSUME LibraryInv, ~apart, NEW f, Selects(f),
           f \in [q : BOOLEAN, type : TypeNames \cup {AnyType}, favorite : BOOLEAN, page : Nat \ {0}],
           ~strayed' /\ f.page > 1 => (f.page - 1) * LibraryPageSize < CountOf(f)
    PROVE  LibraryInv'
<1> USE DEF LibraryInv
<1>1. PICK old \in {NoData} \cup {list \in ScriptLists : list.page = f.page} :
        scriptList' = Started([Blank EXCEPT !.data = old])
    BY DEF Selects
<1>2. filters' = f /\ UNCHANGED <<shelf, types, scriptDialog, asked, served, apart>>
    BY DEF Selects
<1>3. old # NoData => old \in ShownLists(Scripts) /\ old.page = f.page
    BY <1>1 DEF ScriptLists, ShownLists, LibraryPages
<1>4. /\ scriptList' \in Query(ShownLists(Scripts)) /\ scriptList'.data = old
      /\ scriptList'.busy /\ scriptList'.seen = NoData
    <2> DEFINE q == [Blank EXCEPT !.data = old]
    <2>1. q \in Query(ShownLists(Scripts)) /\ q.data = old /\ q.seen = NoData
        BY <1>1, <1>3 DEF Blank, Query
    <2>2. scriptList' = Started(q)
        BY <1>1
    <2> HIDE DEF q
    <2> QED BY <2>1, <2>2, StartedQuery
<1>5. LibraryTyped'
    BY <1>2, <1>4 DEF LibraryTyped
<1>6. ScriptsFollow'
    BY <1>2, <1>3, <1>4 DEF ScriptsFollow, AtRest
<1>7. CountOf(filters)' = CountOf(f)
    BY <1>2 DEF CountOf, Found, Kept
<1>8. PageIsThere'
    BY <1>2, <1>7 DEF PageIsThere
<1> QED BY <1>5, <1>6, <1>8

\* The filters return to the first page; a page is turned on a list that is
\* read and current, or is taken to have strayed.
LEMMA FilterSteps ==
    ASSUME LibraryInv, ~apart,
           SetQ \/ SetScriptType \/ SetFavoritesOnly \/ ClearFilters \/ SetScriptPage \/ FromAddress
    PROVE  LibraryInv'
<1> USE DEF LibraryInv
<1> DEFINE Fs == [q : BOOLEAN, type : TypeNames \cup {AnyType}, favorite : BOOLEAN, page : Nat \ {0}]
<1>1. filters \in Fs
    BY DEF LibraryTyped
<1>2. ASSUME NEW f \in Fs, f.page = 1, ChosenAnew(f) PROVE LibraryInv'
    BY <1>2, SelectingSteps DEF ChosenAnew
<1>3. CASE SetQ
    <2>1. PICK q \in BOOLEAN : ChosenAnew([filters EXCEPT !.q = q, !.page = 1])
        BY <1>3 DEF SetQ
    <2> DEFINE f == [filters EXCEPT !.q = q]
    <2>2. f \in Fs
        BY <1>1
    <2>3. ChosenAnew([f EXCEPT !.page = 1])
        BY <2>1
    <2> HIDE DEF f
    <2>4. [f EXCEPT !.page = 1] \in Fs /\ [f EXCEPT !.page = 1].page = 1
        BY <2>2
    <2> QED BY <1>2, <2>3, <2>4
<1>4. CASE SetScriptType
    <2>1. PICK t \in types \cup {AnyType} : ChosenAnew([filters EXCEPT !.type = t, !.page = 1])
        BY <1>4 DEF SetScriptType
    <2> DEFINE f == [filters EXCEPT !.type = t]
    <2>2. f \in Fs
        BY <1>1, <2>1 DEF LibraryTyped
    <2>3. ChosenAnew([f EXCEPT !.page = 1])
        BY <2>1
    <2> HIDE DEF f
    <2>4. [f EXCEPT !.page = 1] \in Fs /\ [f EXCEPT !.page = 1].page = 1
        BY <2>2
    <2> QED BY <1>2, <2>3, <2>4
<1>5. CASE SetFavoritesOnly
    <2>1. PICK o \in BOOLEAN : ChosenAnew([filters EXCEPT !.favorite = o, !.page = 1])
        BY <1>5 DEF SetFavoritesOnly
    <2> DEFINE f == [filters EXCEPT !.favorite = o]
    <2>2. f \in Fs
        BY <1>1
    <2>3. ChosenAnew([f EXCEPT !.page = 1])
        BY <2>1
    <2> HIDE DEF f
    <2>4. [f EXCEPT !.page = 1] \in Fs /\ [f EXCEPT !.page = 1].page = 1
        BY <2>2
    <2> QED BY <1>2, <2>3, <2>4
<1>6. CASE ClearFilters
    <2>1. NoFilter \in Fs /\ NoFilter.page = 1
        BY DEF NoFilter
    <2> QED BY <1>2, <1>6, <2>1 DEF ClearFilters
<1>7. ASSUME NEW p \in LibraryPages
      PROVE  /\ [filters EXCEPT !.page = p] \in Fs /\ [filters EXCEPT !.page = p].page = p
             /\ p \in Nat \ {0}
    BY <1>1 DEF LibraryPages
<1>8. CASE SetScriptPage
    <2>1. PICK p \in LibraryPages :
            /\ \/ p = scriptList.data.page + 1 /\ HasNext(scriptList.data)
               \/ p = scriptList.data.page - 1
            /\ Selects([filters EXCEPT !.page = p])
            /\ strayed' = (p > 1 /\ (strayed \/ scriptList.busy \/ UnderChange))
        BY <1>8 DEF SetScriptPage
    <2>2. IsShown(scriptList) /\ ~IsEmpty(scriptList.data) /\ scriptList.data \in ShownLists(Scripts)
        BY <1>8 DEF SetScriptPage, IsShown, LibraryTyped, Query
    <2>3. ASSUME ~strayed', p > 1 PROVE (p - 1) * LibraryPageSize < CountOf(filters)
        <3>1. ~scriptList.busy /\ ~UnderChange
            BY <2>1, <2>3
        <3>2. TotalFound(scriptList.data) = CountOf(filters)
            BY <2>2, <3>1 DEF ScriptsFollow, UnderChange, NothingServed, AtRest, TotalFound, CountOf
        <3>3. \/ p = scriptList.data.page + 1 /\ scriptList.data.page * LibraryPageSize < CountOf(filters)
              \/ p = scriptList.data.page - 1 /\ (scriptList.data.page - 1) * LibraryPageSize < CountOf(filters)
            <4>1. /\ scriptList.data.page \in Nat /\ scriptList.data.page >= 1
                  /\ CountOf(filters) \in Nat /\ LibraryPageSize \in Nat
                BY <2>2, CountsAreNumbers, LibraryAssumption DEF ShownLists
            <4>2. (scriptList.data.page - 1) * LibraryPageSize \in Nat
                BY <4>1
            <4> QED BY <2>1, <2>2, <3>2, <4>1, <4>2 DEF HasNext, IsEmpty
        <3> QED BY <1>7, <2>2, <2>3, <3>3, TurnedPages, CountsAreNumbers, LibraryAssumption DEF ShownLists
    <2> QED BY <1>7, <2>1, <2>3, SelectingSteps, CountsOfPages
<1>9. CASE FromAddress
    BY <1>7, <1>9, SelectingSteps DEF FromAddress
<1> QED BY <1>3, <1>4, <1>5, <1>6, <1>8, <1>9

\* The dialogs, and what is asked
LEMMA AskingSteps ==
    ASSUME LibraryInv, ~apart,
           \/ OpenScriptDialog \/ CloseScriptDialog \/ SaveScript
           \/ DeleteScript \/ ToggleFavorite \/ SaveScriptType \/ DeleteScriptType
    PROVE  LibraryInv'
<1> USE DEF LibraryInv
<1>1. UNCHANGED <<shelf, types, filters, scriptList, strayed, apart>>
    BY DEF OpenScriptDialog, CloseScriptDialog, SaveScript, DeleteScript, ToggleFavorite, AskOfListed,
           SaveScriptType, DeleteScriptType, LibraryAsk
<1>2. ASSUME NEW k \in LibraryChanges, NEW on \in Scripts \cup {NoScript},
             NEW a \in TypeNames \cup {AnyType}, NEW b \in TypeNames \cup {AnyType},
             k \in {"create", "save"} => b \in TypeNames, LibraryAsk(k, on, a, b)
      PROVE  /\ LibraryTyped' /\ NothingServed'
             /\ NothingServed
    BY <1>1, <1>2 DEF LibraryAsk, LibraryTyped, NothingServed, UnderChange
<1>3. (asked' = asked \/ (LibraryTyped' /\ NothingServed' /\ NothingServed))
    <2>1. /\ types \subseteq TypeNames
          /\ IsShown(scriptList) => ScriptsOnPage(scriptList.data) \subseteq Scripts
        BY DEF LibraryTyped, IsShown, Query, ShownLists, ScriptsOnPage
    <2> QED BY <1>2, <2>1 DEF OpenScriptDialog, CloseScriptDialog, SaveScript, DeleteScript, ToggleFavorite,
                   AskOfListed, SaveScriptType, DeleteScriptType, LibraryChanges
<1>4. LibraryTyped' /\ NothingServed' = NothingServed
    BY <1>1, <1>3 DEF LibraryTyped, NothingServed
<1>5. Found(filters)' = Found(filters) /\ CountOf(filters)' = CountOf(filters)
    BY <1>1 DEF CountOf, Found, Kept
<1>6. ScriptsFollow' /\ PageIsThere'
    <2> HIDE DEF CountOf, NothingServed
    <2> QED BY <1>1, <1>4, <1>5 DEF ScriptsFollow, PageIsThere, AtRest, IsShown
<1> QED BY <1>4, <1>6

\* The server's answer to a change, and its loss: the list is behind its
\* records until the tab is told, when it asks for them again.
LEMMA ChangeSteps ==
    ASSUME LibraryInv, ~apart, NEW k \in LibraryChanges,
           ServeLibrary(k) \/ LoseLibrary(k) \/ LibraryAnswer(k) \/ LibraryRefused(k)
    PROVE  LibraryInv'
<1> USE DEF LibraryInv
<1> DEFINE A == [phase : {"idle", "sent", "done", "failed"}, on : Scripts \cup {NoScript},
                 from : TypeNames \cup {AnyType}, to : TypeNames \cup {AnyType}]
<1>1. asked \in [LibraryChanges -> A]
    BY DEF LibraryTyped
<1>2. ASSUME NEW a \in A, a.phase # "sent",
             asked' = [asked EXCEPT ![k] = a], asked[k].phase # "idle",
             types' \subseteq TypeNames, UNCHANGED filters, scriptList' = scriptList
      PROVE  LibraryTyped'
    BY <1>1, <1>2 DEF LibraryTyped
<1>3. CASE ServeLibrary(k) /\ asked'[k].phase = "done"
    <2> DEFINE a == [asked[k] EXCEPT !.phase = "done"]
    <2>1. /\ a \in A /\ a.phase = "done"
        BY <1>1
    <2>2. /\ asked' = [asked EXCEPT ![k] = a] /\ asked[k].phase = "sent"
          /\ types' = (types \ {asked[k].from}) \cup ({asked[k].to} \ {AnyType})
          /\ strayed' = (strayed \/ filters.page > 1)
          /\ UNCHANGED <<filters, scriptList, scriptDialog, apart>>
        BY <1>3, <1>1 DEF ServeLibrary
    <2> HIDE DEF a
    <2>3. LibraryTyped'
        BY <1>1, <1>2, <2>1, <2>2 DEF LibraryTyped
    <2>4. ~NothingServed'
        BY <1>1, <2>1, <2>2 DEF NothingServed
    <2>5. ScriptsFollow' /\ PageIsThere'
        BY <2>2, <2>4 DEF ScriptsFollow, PageIsThere
    <2> QED BY <2>3, <2>5
<1>4. CASE ServeLibrary(k) /\ asked'[k].phase # "done"
    <2> DEFINE a == [asked[k] EXCEPT !.phase = "failed"]
    <2>1. /\ a \in A /\ a.phase = "failed"
        BY <1>1
    <2>2. /\ asked' = [asked EXCEPT ![k] = a] /\ asked[k].phase = "sent"
          /\ types' = TypesEnsured(k, asked[k])
          /\ UNCHANGED <<shelf, strayed, filters, scriptList, apart>>
        BY <1>4, <1>1 DEF ServeLibrary
    <2> HIDE DEF a
    <2>3. LibraryTyped'
        <3>1. k \in {"create", "save"} => asked[k].to \in TypeNames
            BY <2>2 DEF LibraryTyped
        <3>2. types' \subseteq TypeNames
            BY <2>2, <3>1 DEF TypesEnsured, LibraryTyped
        <3> QED BY <1>1, <1>2, <2>1, <2>2, <3>2 DEF LibraryTyped
    <2>4. /\ NothingServed' = NothingServed
          /\ Found(filters)' = Found(filters) /\ CountOf(filters)' = CountOf(filters)
        BY <1>1, <2>1, <2>2 DEF NothingServed, CountOf, Found, Kept
    <2>5. ScriptsFollow' /\ PageIsThere'
        <3> HIDE DEF CountOf, NothingServed
        <3> QED BY <2>2, <2>4 DEF ScriptsFollow, PageIsThere, AtRest, IsShown
    <2> QED BY <2>3, <2>5
<1>5. CASE LoseLibrary(k) \/ LibraryRefused(k)
    <2> DEFINE a == IF LoseLibrary(k) THEN [asked[k] EXCEPT !.phase = "failed"] ELSE LibraryQuiet
    <2>1. a \in A /\ a.phase \notin {"done", "sent"}
        BY <1>1 DEF LibraryQuiet
    <2>2. /\ asked' = [asked EXCEPT ![k] = a] /\ asked[k].phase # "idle"
          /\ UNCHANGED <<shelf, types, strayed, filters, scriptList>>
          /\ ~apart' => asked[k].phase # "done"
        BY <1>5, <1>1 DEF LoseLibrary, LibraryRefused
    <2> HIDE DEF a
    <2>3. LibraryTyped'
        BY <1>1, <1>2, <2>1, <2>2 DEF LibraryTyped
    <2>4. ~apart' => (NothingServed' <=> NothingServed)
        BY <1>1, <2>1, <2>2 DEF NothingServed
    <2>5. Found(filters)' = Found(filters) /\ CountOf(filters)' = CountOf(filters)
        BY <2>2 DEF CountOf, Found, Kept
    <2>6. ScriptsFollow' /\ PageIsThere'
        <3> HIDE DEF CountOf, NothingServed
        <3> QED BY <2>2, <2>4, <2>5 DEF ScriptsFollow, PageIsThere, AtRest, IsShown
    <2> QED BY <2>3, <2>6
<1>6. CASE LibraryAnswer(k)
    <2>1. /\ asked' = [asked EXCEPT ![k] = LibraryQuiet] /\ asked[k].phase = "done"
          /\ scriptList' = Restarted(scriptList)
          /\ apart' = (apart \/ (scriptList.data = NoData /\ scriptList.seen # NoData))
          /\ UNCHANGED <<shelf, types, filters, strayed>>
        BY <1>6 DEF LibraryAnswer
    <2>2. /\ scriptList' \in Query(ShownLists(Scripts)) /\ scriptList'.data = scriptList.data
          /\ scriptList'.busy /\ scriptList'.seen \in {NoData, scriptList.seen}
        BY <2>1, StartedQuery DEF LibraryTyped
    <2>3. LibraryQuiet \in A
        BY DEF LibraryQuiet
    <2>4. LibraryTyped'
        BY <1>1, <2>1, <2>2, <2>3 DEF LibraryTyped, LibraryQuiet
    <2>5. ~apart' => scriptList'.seen = NoData
        BY <2>1, <2>2 DEF Restarted, Started, LibraryTyped, Query
    <2>6. Found(filters)' = Found(filters) /\ CountOf(filters)' = CountOf(filters)
        BY <2>1 DEF CountOf, Found, Kept
    <2>7. ScriptsFollow' /\ PageIsThere'
        <3> HIDE DEF CountOf, NothingServed
        <3> QED BY <2>1, <2>2, <2>5, <2>6 DEF ScriptsFollow, PageIsThere, AtRest
    <2> QED BY <2>4, <2>7
<1> QED BY <1>3, <1>4, <1>5, <1>6

LEMMA LibraryStarts == LibraryInit => LibraryInv
<1> SUFFICES ASSUME LibraryInit PROVE LibraryInv
    OBVIOUS
<1>1. /\ scriptList \in Query(ShownLists(Scripts)) /\ scriptList.data = NoData
      /\ scriptList.busy /\ scriptList.seen = NoData
    <2>1. Blank \in Query(ShownLists(Scripts)) /\ Blank.data = NoData /\ Blank.seen = NoData
        BY DEF Blank, Query
    <2> QED BY <2>1, StartedQuery DEF LibraryInit
<1>2. types \subseteq TypeNames
    BY LibraryAssumption DEF LibraryInit
<1>3. filters \in [q : BOOLEAN, type : TypeNames \cup {AnyType}, favorite : BOOLEAN, page : Nat \ {0}]
      /\ filters.page = 1
    BY DEF LibraryInit, NoFilter
<1>4. \A k \in LibraryChanges :
        /\ asked[k].phase = "idle"
        /\ asked[k] \in [phase : {"idle", "sent", "done", "failed"}, on : Scripts \cup {NoScript},
                         from : TypeNames \cup {AnyType}, to : TypeNames \cup {AnyType}]
    BY DEF LibraryInit, LibraryQuiet
<1>5. LibraryTyped
    BY <1>1, <1>2, <1>3, <1>4 DEF LibraryInit, LibraryTyped, LibraryChanges
<1> QED BY <1>1, <1>3, <1>5 DEF LibraryInv, ScriptsFollow, PageIsThere, AtRest

LEMMA LibraryStays ==
    ASSUME LibraryInv, UNCHANGED libraryVars
    PROVE  LibraryInv'
<1>1. UNCHANGED <<shelf, types, filters, scriptList, scriptDialog, asked, served, strayed, apart>>
    BY DEF libraryVars
<1>2. /\ Found(filters)' = Found(filters) /\ CountOf(filters)' = CountOf(filters)
      /\ NothingServed' = NothingServed
    BY <1>1 DEF CountOf, Found, Kept, NothingServed
<1>3. LibraryTyped'
    BY <1>1 DEF LibraryInv, LibraryTyped
<1>4. ScriptsFollow' /\ PageIsThere'
    BY <1>1, <1>2 DEF LibraryInv, ScriptsFollow, PageIsThere, AtRest, IsShown
<1> QED BY <1>3, <1>4 DEF LibraryInv

LEMMA LibrarySteps ==
    ASSUME LibraryInv, LibraryNext
    PROVE  LibraryInv'
BY ListSteps, FilterSteps, AskingSteps, ChangeSteps, LibraryStays DEF LibraryNext, LibraryMoves

\* An empty page that is there is the first one, and counts nothing.
LEMMA EmptyPages ==
    ASSUME NEW size \in Nat \ {0}, NEW p \in Nat \ {0}, NEW total \in Nat, (p - 1) * size >= total,
           p > 1 => (p - 1) * size < total
    PROVE  total = 0
<1>1. p = 1
    <2>1. (p - 1) * size \in Nat
        OBVIOUS
    <2> QED BY <2>1
<1> QED BY <1>1

LEMMA LibraryFinds == LibraryInv => ScriptsAreFound
<1> SUFFICES ASSUME LibraryInv, ~apart, AtRest(scriptList), IsShown(scriptList), ~UnderChange
             PROVE  /\ scriptList.data.found = Found(filters)
                    /\ ~strayed /\ IsEmpty(scriptList.data) => Found(filters) = {}
    BY DEF ScriptsAreFound
<1>1. scriptList.data \in ShownLists(Scripts) /\ scriptList.data.page = filters.page
    BY DEF LibraryInv, LibraryTyped, ScriptsFollow, IsShown, Query
<1>2. NothingServed
    BY DEF UnderChange, NothingServed
<1>3. scriptList.data.found = Found(filters)
    BY <1>2 DEF LibraryInv, ScriptsFollow
<1>4. ASSUME ~strayed, IsEmpty(scriptList.data) PROVE Found(filters) = {}
    <2>1. filters.page \in Nat \ {0} /\ CountOf(filters) \in Nat
        BY <1>1, CountsAreNumbers DEF ShownLists
    <2>2. filters.page > 1 => (filters.page - 1) * LibraryPageSize < CountOf(filters)
        BY <1>4 DEF LibraryInv, PageIsThere
    <2>3. (filters.page - 1) * LibraryPageSize >= CountOf(filters)
        BY <1>1, <1>3, <1>4 DEF IsEmpty, TotalFound, CountOf
    <2>4. CountOf(filters) = 0
        BY <2>1, <2>2, <2>3, EmptyPages, LibraryAssumption
    <2>5. IsFiniteSet(Found(filters))
        BY CountsAreNumbers, FS_Subset, LibraryAssumption
    <2> QED BY <2>4, <2>5, FS_EmptySet DEF CountOf
<1> QED BY <1>3, <1>4

-----------------------------------------------------------------------------
(* CommunicationTools: the friend records                                  *)

FriendsTyped ==
    /\ wants \in [q : BOOLEAN, archived : BOOLEAN, page : Nat \ {0}]
    /\ friendList \in Query(ShownLists(Friends)) /\ (~friendList.busy => friendList.seen = NoData)
    /\ friendDialog \in [on : Friends \cup {NoFriend}, shown : BOOLEAN, archived : BOOLEAN,
                         filled : BOOLEAN]
    /\ progressDialog \in Friends \cup {NoFriend}
    /\ writing \in [kind : {"none", "create", "save", "progress", "delete"},
                    phase : {"idle", "sent", "done", "failed"}, on : Friends \cup {NoFriend},
                    archived : BOOLEAN, filled : BOOLEAN]

NothingDeleted == ~(writing.phase = "done" /\ writing.kind = "delete")
CountOfFriends(w) == Cardinality(ListedFriends(w))

\* What was read counts what the filters select, until a save is served, or a
\* deletion of which the tab has not yet been told.
FriendsFollow ==
    /\ friendList.data # NoData => friendList.data.page = wants.page
    /\ friendList.seen # NoData => friendList.seen.page = wants.page
    /\ ~lost /\ ~behind /\ NothingDeleted =>
        /\ friendList.seen # NoData => friendList.seen.found = ListedFriends(wants)
        /\ AtRest(friendList) /\ IsShown(friendList) => friendList.data.found = ListedFriends(wants)

FriendPageIsThere ==
    ~lost /\ ~off /\ wants.page > 1 => (wants.page - 1) * FriendPageSize < CountOfFriends(wants)

FriendInv == FriendsTyped /\ FriendsFollow /\ FriendPageIsThere

LEMMA FriendCountsAreNumbers ==
    /\ \A w : CountOfFriends(w) \in Nat /\ ListedFriends(w) \in SUBSET Friends
    /\ \A list \in ShownLists(Friends) : TotalListed(list) \in Nat
<1>1. \A w : ListedFriends(w) \in SUBSET Friends
    BY DEF ListedFriends
<1>2. \A S \in SUBSET Friends : Cardinality(S) \in Nat
    BY FS_Subset, FS_CardinalityType, FriendAssumption
<1> QED BY <1>1, <1>2 DEF CountOfFriends, TotalListed, ShownLists

LEMMA CountsOfFriendPages ==
    ASSUME FriendsTyped, NEW p
    PROVE  /\ ListedFriends([wants EXCEPT !.page = p]) = ListedFriends(wants)
           /\ CountOfFriends([wants EXCEPT !.page = p]) = CountOfFriends(wants)
<1>1. ListedFriends([wants EXCEPT !.page = p]) = ListedFriends(wants)
    BY DEF ListedFriends, FriendsTyped
<1> QED BY <1>1 DEF CountOfFriends

LEMMA FriendListSteps ==
    ASSUME FriendInv, ~lost, ReadFriends \/ AnswerFriends
    PROVE  FriendInv'
<1> USE DEF FriendInv
<1>1. UNCHANGED <<friendRows, wants, friendDialog, progressDialog, writing, off, lost>>
    BY DEF ReadFriends, AnswerFriends, dialogVars
<1>2. /\ ListedFriends(wants)' = ListedFriends(wants) /\ CountOfFriends(wants)' = CountOfFriends(wants)
      /\ ListedFriends(wants) \in SUBSET Friends /\ NothingDeleted' = NothingDeleted
    BY <1>1, FriendCountsAreNumbers DEF CountOfFriends, ListedFriends, NothingDeleted
<1>3. FriendPageIsThere'
    BY <1>1, <1>2 DEF FriendPageIsThere
<1>4. \/ /\ friendList.busy /\ friendList'.busy
         /\ friendList'.seen = [page |-> wants.page, found |-> ListedFriends(wants)]
         /\ friendList'.data = friendList.data
      \/ /\ friendList.seen # NoData /\ friendList'.data = friendList.seen
         /\ friendList'.seen = NoData /\ behind' = behind
      \/ /\ friendList'.data = friendList.data /\ friendList'.failed /\ friendList'.seen = NoData
         /\ behind' = behind
      \/ /\ friendList'.data = friendList.data /\ friendList'.busy /\ behind' = behind
         /\ friendList'.seen \in {NoData, friendList.seen}
    <2>1. CASE ReadFriends
        BY <2>1 DEF ReadFriends, MayRead, ReadAs, FriendsTyped, Query
    <2>2. CASE AnswerFriends
        <3>1. /\ \/ friendList.seen # NoData /\ friendList' = Answered(friendList)
                 \/ friendList' = Failed(friendList)
                 \/ friendList' = Started(friendList)
              /\ behind' = behind
            BY <2>2 DEF AnswerFriends, MayAnswer
        <3> QED BY <3>1, StartedQuery, AnsweredQuery, EndedQuery, FailedQuery DEF FriendsTyped
    <2> QED BY <2>1, <2>2
<1>5. friendList' \in Query(ShownLists(Friends)) /\ (~friendList'.busy => friendList'.seen = NoData)
    <2>1. [page |-> wants.page, found |-> ListedFriends(wants)] \in ShownLists(Friends)
        BY <1>2 DEF ShownLists, FriendsTyped
    <2> QED BY <2>1, StartedQuery, ReadQuery, AnsweredQuery, EndedQuery
            DEF ReadFriends, AnswerFriends, MayRead, FriendsTyped
<1>6. FriendsTyped'
    BY <1>1, <1>5 DEF FriendsTyped
<1>7. FriendsFollow'
    <2> HIDE DEF CountOfFriends, NothingDeleted
    <2> QED BY <1>1, <1>2, <1>4 DEF FriendsFollow, AtRest, IsShown
<1> QED BY <1>3, <1>6, <1>7

LEMMA WantingSteps ==
    ASSUME FriendInv, ~lost, NEW w \in [q : BOOLEAN, archived : BOOLEAN, page : Nat \ {0}], WantsOthers(w),
           ~off' /\ w.page > 1 => (w.page - 1) * FriendPageSize < CountOfFriends(w)
    PROVE  FriendInv'
<1> USE DEF FriendInv
<1>1. PICK old \in {NoData} \cup {list \in FriendLists : list.page = w.page} :
        friendList' = Started([Blank EXCEPT !.data = old])
    BY DEF WantsOthers
<1>2. wants' = w /\ UNCHANGED <<friendRows, friendDialog, progressDialog, writing, behind, lost>>
    BY DEF WantsOthers, dialogVars
<1>3. old # NoData => old \in ShownLists(Friends) /\ old.page = w.page
    BY <1>1 DEF FriendLists, ShownLists, FriendPages
<1>4. /\ friendList' \in Query(ShownLists(Friends)) /\ friendList'.data = old
      /\ friendList'.busy /\ friendList'.seen = NoData
    <2> DEFINE q == [Blank EXCEPT !.data = old]
    <2>1. q \in Query(ShownLists(Friends)) /\ q.data = old /\ q.seen = NoData
        BY <1>1, <1>3 DEF Blank, Query
    <2>2. friendList' = Started(q)
        BY <1>1
    <2> HIDE DEF q
    <2> QED BY <2>1, <2>2, StartedQuery
<1>5. FriendsTyped'
    BY <1>2, <1>4 DEF FriendsTyped
<1>6. FriendsFollow'
    BY <1>2, <1>3, <1>4 DEF FriendsFollow, AtRest
<1>7. CountOfFriends(wants)' = CountOfFriends(w)
    BY <1>2 DEF CountOfFriends, ListedFriends
<1>8. FriendPageIsThere'
    BY <1>2, <1>7 DEF FriendPageIsThere
<1> QED BY <1>5, <1>6, <1>8

\* The filters keep the page, which may then be behind the end of the list.
LEMMA FriendFilterSteps ==
    ASSUME FriendInv, ~lost, FilterFriends \/ SetFriendPage
    PROVE  FriendInv'
<1> USE DEF FriendInv
<1> DEFINE Ws == [q : BOOLEAN, archived : BOOLEAN, page : Nat \ {0}]
<1>1. wants \in Ws
    BY DEF FriendsTyped
<1>2. CASE FilterFriends
    <2>1. PICK q \in BOOLEAN, archived \in BOOLEAN :
            WantsOthers([wants EXCEPT !.q = q, !.archived = archived])
        BY <1>2 DEF FilterFriends
    <2> DEFINE w == [wants EXCEPT !.q = q]
    <2>2. w \in Ws /\ w.page = wants.page
        BY <1>1
    <2>3. WantsOthers([w EXCEPT !.archived = archived]) /\ off' = (wants.page > 1)
        BY <1>2, <2>1 DEF FilterFriends
    <2> HIDE DEF w
    <2>4. [w EXCEPT !.archived = archived] \in Ws /\ [w EXCEPT !.archived = archived].page = wants.page
        BY <2>2
    <2> QED BY <2>3, <2>4, WantingSteps
<1>3. CASE SetFriendPage
    <2>1. PICK p \in FriendPages :
            /\ \/ p = friendList.data.page + 1
                  /\ friendList.data.page * FriendPageSize < TotalListed(friendList.data)
               \/ p = friendList.data.page - 1
            /\ WantsOthers([wants EXCEPT !.page = p])
            /\ off' = (p > 1 /\ (off \/ friendList.busy \/ behind \/ writing # Asleep))
        BY <1>3 DEF SetFriendPage
    <2>2. IsShown(friendList) /\ ~NothingListed(friendList.data) /\ friendList.data \in ShownLists(Friends)
        BY <1>3 DEF SetFriendPage, IsShown, FriendsTyped, Query
    <2>3. /\ [wants EXCEPT !.page = p] \in Ws /\ [wants EXCEPT !.page = p].page = p
          /\ p \in Nat \ {0}
        BY <1>1 DEF FriendPages
    <2>4. ASSUME ~off', p > 1 PROVE (p - 1) * FriendPageSize < CountOfFriends(wants)
        <3>1. ~friendList.busy /\ ~behind /\ writing = Asleep
            BY <2>1, <2>4
        <3>2. TotalListed(friendList.data) = CountOfFriends(wants)
            BY <2>2, <3>1 DEF FriendsFollow, NothingDeleted, AtRest, Asleep, TotalListed, CountOfFriends
        <3>3. \/ p = friendList.data.page + 1 /\ friendList.data.page * FriendPageSize < CountOfFriends(wants)
              \/ p = friendList.data.page - 1
                 /\ (friendList.data.page - 1) * FriendPageSize < CountOfFriends(wants)
            <4>1. /\ friendList.data.page \in Nat /\ friendList.data.page >= 1
                  /\ CountOfFriends(wants) \in Nat /\ FriendPageSize \in Nat
                BY <2>2, FriendCountsAreNumbers, FriendAssumption DEF ShownLists
            <4>2. (friendList.data.page - 1) * FriendPageSize \in Nat
                BY <4>1
            <4> QED BY <2>1, <2>2, <3>2, <4>1, <4>2 DEF NothingListed
        <3> QED BY <2>2, <2>3, <2>4, <3>3, TurnedPages, FriendCountsAreNumbers, FriendAssumption
                DEF ShownLists
    <2> QED BY <2>1, <2>3, <2>4, WantingSteps, CountsOfFriendPages
<1> QED BY <1>2, <1>3

\* A step that leaves the list, its filters and the records as they are
LEMMA FriendsRest ==
    ASSUME FriendInv, FriendsTyped', UNCHANGED <<friendRows, wants, friendList, off, behind>>,
           lost' \/ (~lost /\ (NothingDeleted' => NothingDeleted))
    PROVE  FriendInv'
<1>1. ListedFriends(wants)' = ListedFriends(wants) /\ CountOfFriends(wants)' = CountOfFriends(wants)
    BY DEF CountOfFriends, ListedFriends
<1>2. FriendsFollow' /\ FriendPageIsThere'
    <2> HIDE DEF CountOfFriends, NothingDeleted
    <2> QED BY <1>1 DEF FriendInv, FriendsFollow, FriendPageIsThere, AtRest, IsShown
<1> QED BY <1>2 DEF FriendInv

LEMMA ClosedDialogs ==
    ClosedDialog \in [on : Friends \cup {NoFriend}, shown : BOOLEAN, archived : BOOLEAN, filled : BOOLEAN]
BY DEF ClosedDialog

LEMMA FriendDialogSteps ==
    ASSUME FriendInv, ~lost,
           \/ OpenFriendDialog \/ FillFriend \/ OpenProgressDialog \/ CloseFriendDialogs
           \/ SaveFriend \/ SaveProgress \/ DeleteFriend
    PROVE  FriendInv'
<1> USE DEF FriendInv
<1>1. IsShown(friendList) => FriendsOnPage(friendList.data) \subseteq Friends
    BY DEF FriendsTyped, IsShown, Query, ShownLists, FriendsOnPage
<1>2. CASE OpenFriendDialog \/ OpenProgressDialog \/ CloseFriendDialogs \/ FillFriend
    <2>1. UNCHANGED <<friendRows, wants, friendList, writing, off, behind, lost>>
        BY <1>2 DEF OpenFriendDialog, OpenProgressDialog, CloseFriendDialogs, FillFriend
    <2>2. friendDialog' \in [on : Friends \cup {NoFriend}, shown : BOOLEAN, archived : BOOLEAN,
                             filled : BOOLEAN]
        <3>1. CASE OpenFriendDialog
            <4>1. CASE friendDialog' = [ClosedDialog EXCEPT !.shown = TRUE]
                BY <4>1, ClosedDialogs
            <4>2. ASSUME IsShown(friendList), NEW f \in FriendsOnPage(friendList.data),
                         NEW archived \in BOOLEAN,
                         friendDialog' = [on |-> f, shown |-> TRUE, archived |-> archived, filled |-> TRUE]
                  PROVE  friendDialog' \in [on : Friends \cup {NoFriend}, shown : BOOLEAN,
                                            archived : BOOLEAN, filled : BOOLEAN]
                BY <1>1, <4>2
            <4> QED BY <3>1, <4>1, <4>2 DEF OpenFriendDialog
        <3>2. CASE FillFriend
            <4>1. PICK archived \in BOOLEAN :
                    friendDialog' = [friendDialog EXCEPT !.filled = TRUE, !.archived = archived]
                BY <3>2 DEF FillFriend
            <4> DEFINE d == [friendDialog EXCEPT !.filled = TRUE]
            <4>2. d \in [on : Friends \cup {NoFriend}, shown : BOOLEAN, archived : BOOLEAN, filled : BOOLEAN]
                BY DEF FriendsTyped
            <4>3. friendDialog' = [d EXCEPT !.archived = archived]
                BY <4>1
            <4> HIDE DEF d
            <4> QED BY <4>2, <4>3
        <3>3. CASE OpenProgressDialog \/ CloseFriendDialogs
            BY <3>3, ClosedDialogs DEF OpenProgressDialog, CloseFriendDialogs, FriendsTyped
        <3> QED BY <1>2, <3>1, <3>2, <3>3
    <2>3. progressDialog' \in Friends \cup {NoFriend}
        BY <1>1, <1>2 DEF OpenFriendDialog, OpenProgressDialog, CloseFriendDialogs, FillFriend, FriendsTyped
    <2>4. FriendsTyped' /\ NothingDeleted' = NothingDeleted
        BY <2>1, <2>2, <2>3 DEF FriendsTyped, NothingDeleted
    <2> QED BY <2>1, <2>4, FriendsRest
<1>3. ASSUME NEW kind \in {"create", "save", "progress", "delete"}, NEW f \in Friends \cup {NoFriend},
             NEW archived \in BOOLEAN, NEW filled \in BOOLEAN, Writes(kind, f, archived, filled)
      PROVE  FriendInv'
    <2>1. UNCHANGED <<friendRows, wants, friendList, friendDialog, progressDialog, off, behind, lost>>
        BY <1>3 DEF Writes, dialogVars
    <2>2. FriendsTyped' /\ NothingDeleted' /\ NothingDeleted
        BY <1>3, <2>1 DEF Writes, FriendsTyped, NothingDeleted, Asleep
    <2> QED BY <2>1, <2>2, FriendsRest
<1>4. friendDialog.on \in Friends \cup {NoFriend} /\ friendDialog.archived \in BOOLEAN
      /\ friendDialog.filled \in BOOLEAN
    BY DEF FriendsTyped
<1>5. CASE SaveFriend
    BY <1>3, <1>4, <1>5 DEF SaveFriend
<1>6. CASE SaveProgress \/ DeleteFriend
    BY <1>1, <1>3, <1>6 DEF SaveProgress, DeleteFriend, FriendsTyped
<1> QED BY <1>2, <1>5, <1>6

LEMMA FriendChangeSteps ==
    ASSUME FriendInv, ~lost, ServeFriend \/ LoseFriend \/ FriendSaved \/ FriendDeleted \/ FriendRefused
    PROVE  FriendInv'
<1> USE DEF FriendInv
<1> DEFINE A == [kind : {"none", "create", "save", "progress", "delete"},
                 phase : {"idle", "sent", "done", "failed"}, on : Friends \cup {NoFriend},
                 archived : BOOLEAN, filled : BOOLEAN]
<1>1. writing \in A
    BY DEF FriendsTyped
<1>2. CASE ServeFriend /\ Taken(writing.on)
    <2>1. /\ writing' = [writing EXCEPT !.phase = "done"] /\ writing.phase = "sent"
          /\ behind' = (behind \/ writing.kind # "delete") /\ off' = (off \/ wants.page > 1)
          /\ UNCHANGED <<wants, friendList, friendDialog, progressDialog, lost>>
        BY <1>2 DEF ServeFriend, dialogVars
    <2>2. writing' \in A /\ writing'.phase = "done" /\ writing'.kind = writing.kind
        BY <1>1, <2>1
    <2>3. FriendsTyped'
        BY <2>1, <2>2 DEF FriendsTyped
    <2>4. behind' \/ ~NothingDeleted'
        BY <2>1, <2>2 DEF NothingDeleted
    <2> QED BY <2>1, <2>3, <2>4 DEF FriendsFollow, FriendPageIsThere
<1>3. CASE ServeFriend /\ ~Taken(writing.on)
    <2>1. /\ writing' = [writing EXCEPT !.phase = "failed"] /\ writing.phase = "sent"
          /\ UNCHANGED <<friendRows, wants, friendList, friendDialog, progressDialog, off, behind, lost>>
        BY <1>3 DEF ServeFriend, dialogVars
    <2>2. writing' \in A
        BY <1>1, <2>1
    <2>3. FriendsTyped' /\ NothingDeleted
        BY <2>1, <2>2 DEF FriendsTyped, NothingDeleted
    <2> QED BY <2>1, <2>3, FriendsRest
<1>4. CASE LoseFriend
    <2>1. /\ writing' = [writing EXCEPT !.phase = "failed"]
          /\ lost' = (lost \/ writing.phase = "done")
          /\ UNCHANGED <<friendRows, wants, friendList, friendDialog, progressDialog, off, behind>>
        BY <1>4 DEF LoseFriend, dialogVars
    <2>2. writing' \in A
        BY <1>1, <2>1
    <2>3. FriendsTyped' /\ (lost' \/ NothingDeleted)
        BY <2>1, <2>2 DEF FriendsTyped, NothingDeleted
    <2> QED BY <2>1, <2>3, FriendsRest
<1>5. CASE FriendSaved \/ FriendRefused
    <2>1. /\ writing' = Asleep
          /\ UNCHANGED <<friendRows, wants, friendList, off, behind, lost>>
          /\ ~(writing.phase = "done" /\ writing.kind = "delete")
          /\ friendDialog' \in {friendDialog, ClosedDialog}
          /\ progressDialog' \in {progressDialog, NoFriend}
        BY <1>5 DEF FriendSaved, FriendRefused, dialogVars
    <2>2. writing' \in A
        BY <2>1 DEF Asleep
    <2>3. FriendsTyped' /\ NothingDeleted
        BY <2>1, <2>2, ClosedDialogs DEF FriendsTyped, NothingDeleted
    <2> QED BY <2>1, <2>3, FriendsRest
<1>6. CASE FriendDeleted
    <2>1. /\ writing' = Asleep /\ friendList' = Restarted(friendList)
          /\ lost' = (lost \/ (friendList.data = NoData /\ friendList.seen # NoData))
          /\ UNCHANGED <<friendRows, wants, friendDialog, progressDialog, off, behind>>
        BY <1>6 DEF FriendDeleted, dialogVars
    <2>2. /\ friendList' \in Query(ShownLists(Friends)) /\ friendList'.data = friendList.data
          /\ friendList'.busy /\ friendList'.seen \in {NoData, friendList.seen}
        BY <2>1, StartedQuery DEF FriendsTyped
    <2>3. FriendsTyped'
        BY <2>1, <2>2 DEF FriendsTyped, Asleep
    <2>4. ~lost' => friendList'.seen = NoData
        BY <2>1, <2>2 DEF Restarted, Started, FriendsTyped, Query
    <2>5. ListedFriends(wants)' = ListedFriends(wants) /\ CountOfFriends(wants)' = CountOfFriends(wants)
        BY <2>1 DEF CountOfFriends, ListedFriends
    <2>6. FriendsFollow' /\ FriendPageIsThere'
        <3> HIDE DEF CountOfFriends, NothingDeleted
        <3> QED BY <2>1, <2>2, <2>4, <2>5 DEF FriendsFollow, FriendPageIsThere, AtRest
    <2> QED BY <2>3, <2>6
<1> QED BY <1>2, <1>3, <1>4, <1>5, <1>6

LEMMA FriendsStart == FriendInit => FriendInv
<1> SUFFICES ASSUME FriendInit PROVE FriendInv
    OBVIOUS
<1>1. /\ friendList \in Query(ShownLists(Friends)) /\ friendList.data = NoData
      /\ friendList.busy /\ friendList.seen = NoData
    <2>1. Blank \in Query(ShownLists(Friends)) /\ Blank.data = NoData /\ Blank.seen = NoData
        BY DEF Blank, Query
    <2> QED BY <2>1, StartedQuery DEF FriendInit
<1>2. FriendsTyped
    BY <1>1 DEF FriendInit, FriendsTyped, ClosedDialog, Asleep
<1>3. wants.page = 1
    BY DEF FriendInit
<1> QED BY <1>1, <1>2, <1>3 DEF FriendInv, FriendsFollow, FriendPageIsThere, AtRest

LEMMA FriendsStay ==
    ASSUME FriendInv, UNCHANGED friendVars
    PROVE  FriendInv'
<1>1. UNCHANGED <<friendRows, wants, friendList, friendDialog, progressDialog, writing, written, off,
                  behind, lost>>
    BY DEF friendVars
<1>2. /\ ListedFriends(wants)' = ListedFriends(wants) /\ CountOfFriends(wants)' = CountOfFriends(wants)
      /\ NothingDeleted' = NothingDeleted
    BY <1>1 DEF CountOfFriends, ListedFriends, NothingDeleted
<1>3. FriendsTyped'
    BY <1>1 DEF FriendInv, FriendsTyped
<1>4. FriendsFollow' /\ FriendPageIsThere'
    BY <1>1, <1>2 DEF FriendInv, FriendsFollow, FriendPageIsThere, AtRest, IsShown
<1> QED BY <1>3, <1>4 DEF FriendInv

LEMMA FriendSteps ==
    ASSUME FriendInv, FriendNext
    PROVE  FriendInv'
BY FriendListSteps, FriendFilterSteps, FriendDialogSteps, FriendChangeSteps, FriendsStay
   DEF FriendNext, FriendMoves

LEMMA FriendsFind == FriendInv => FriendsAreFound
<1> SUFFICES ASSUME FriendInv, ~lost, ~behind, AtRest(friendList), IsShown(friendList), writing = Asleep
             PROVE  /\ friendList.data.found = ListedFriends(wants)
                    /\ ~off /\ NothingListed(friendList.data) => ListedFriends(wants) = {}
    BY DEF FriendsAreFound
<1>1. friendList.data \in ShownLists(Friends) /\ friendList.data.page = wants.page
    BY DEF FriendInv, FriendsTyped, FriendsFollow, IsShown, Query
<1>2. friendList.data.found = ListedFriends(wants)
    BY DEF FriendInv, FriendsFollow, NothingDeleted, Asleep
<1>3. ASSUME ~off, NothingListed(friendList.data) PROVE ListedFriends(wants) = {}
    <2>1. wants.page \in Nat \ {0} /\ CountOfFriends(wants) \in Nat
        BY <1>1, FriendCountsAreNumbers DEF ShownLists
    <2>2. wants.page > 1 => (wants.page - 1) * FriendPageSize < CountOfFriends(wants)
        BY <1>3 DEF FriendInv, FriendPageIsThere
    <2>3. (wants.page - 1) * FriendPageSize >= CountOfFriends(wants)
        BY <1>1, <1>2, <1>3 DEF NothingListed, TotalListed, CountOfFriends
    <2>4. CountOfFriends(wants) = 0
        BY <2>1, <2>2, <2>3, EmptyPages, FriendAssumption
    <2>5. IsFiniteSet(ListedFriends(wants))
        BY FriendCountsAreNumbers, FS_Subset, FriendAssumption
    <2> QED BY <2>4, <2>5, FS_EmptySet DEF CountOfFriends
<1> QED BY <1>2, <1>3

\* Neither list of the communication tools says that there is nothing, or
\* leaves out what there is, once it has nothing left to wait for: for any
\* library, any number of records, filters, pages and changes.
THEOREM ListsCountEverything == CommunicationSpec => []ListsAreHonest
<1> DEFINE Inv == LibraryInv /\ FriendInv
<1>1. CommunicationInit => Inv
    BY LibraryStarts, FriendsStart DEF CommunicationInit
<1>2. Inv /\ [CommunicationNext]_communicationVars => Inv'
    BY LibrarySteps, LibraryStays, FriendSteps, FriendsStay DEF CommunicationNext, communicationVars
<1>3. Inv => ListsAreHonest
    BY LibraryFinds, FriendsFind DEF ListsAreHonest
<1> QED BY <1>1, <1>2, <1>3, PTL DEF CommunicationSpec

-----------------------------------------------------------------------------
(* CalendarPage                                                            *)

Dialogs == {"day", "detail", "editor", "delete", "scope"}
Editions == [Events -> Nat]
Helds == [event : Events \cup {NoEvent}, holds : Nat, careful : BOOLEAN, sent : BOOLEAN]
CallKinds == {"save", "move", "delete"}
CallPhases == {"contact", "base", "sent", "served", "refused"}
EventWrites == [kind : CallKinds, event : Events \cup {NoEvent}, holds : Nat, careful : BOOLEAN,
           phase : CallPhases, as : Nat]

CalendarTypeOK ==
    /\ agenda \in Query(Editions)
    /\ linkedEvent \in [event : Events \cup {NoEvent}, seen : Nat \cup {NoData}]
    /\ linkedEvent.event = NoEvent => linkedEvent.seen = NoData
    /\ stack \in Seq(Dialogs)
    /\ detail \in Helds /\ editorForm \in Helds /\ drag \in Helds
    /\ editing \in Events \cup {NoEvent} /\ deleteTarget \in Events \cup {NoEvent}
    /\ calls \subseteq EventWrites
    /\ schedule \in Editions /\ told \in Editions

\* What the server has, what is read of it, and what a page at rest shows is not
\* older than an own write that the page was told of.
AgendaFollows ==
    /\ \A e \in Events : told[e] <= schedule[e]
    /\ \A c \in calls : c.phase = "served" => c.event \in Events /\ c.as <= schedule[c.event]
    /\ agenda.seen # NoData => \A e \in Events : told[e] <= agenda.seen[e]
    /\ AtRest(agenda) /\ IsShown(agenda) => \A e \in Events : told[e] <= agenda.data[e]

\* Nothing is written before a link is shown.
LinkComesFirst == linkedEvent # NoLink => calls = {} /\ \A e \in Events : told[e] = 0

Holds(h) == h.event \in Events /\ h.holds >= told[h.event]

\* A day and a scope open over nothing.
OpenFirst(s) == \A i \in DOMAIN s : s[i] \in {"day", "scope"} => i = 1

\* A scope is of a drag, and so is what a confirmed scope reads.
ScopeHasDrag ==
    /\ IsOpen("scope") => drag.event \in Events
    /\ \A c \in calls : c.phase = "base" => c.event \in Events

\* What the page took over with care is not older than an own write, and only
\* its own write can have been sent since.
DetailIsCurrent ==
    detail.careful =>
        Holds(detail) /\ calls = {} /\ (stack = <<"detail">> \/ stack = <<"day", "detail">>)
FormIsCurrent ==
    editorForm.careful =>
        /\ Holds(editorForm) /\ stack = <<"editor">>
        /\ \A c \in calls : c.kind = "save" /\ c.event = editing
DragIsCurrent ==
    drag.careful => Holds(drag) /\ stack = <<"scope">> /\ \A c \in calls : c.kind = "move"
CallsAreCurrent ==
    \A c \in calls : c.careful =>
        calls = {c} /\ c.event \in Events /\ (c.phase \in {"contact", "sent"} => Holds(c))

HeldIsCurrent ==
    /\ editorForm.event = editing /\ OpenFirst(stack) /\ ScopeHasDrag
    /\ DetailIsCurrent /\ FormIsCurrent /\ DragIsCurrent /\ CallsAreCurrent

CalendarInv == CalendarTypeOK /\ AgendaFollows /\ LinkComesFirst /\ HeldIsCurrent

LEMMA CalendarData ==
    /\ NoEvent \notin Events /\ Links \subseteq Events
    /\ NoHeld \in Helds /\ ~NoHeld.careful /\ NoHeld.event = NoEvent
    /\ Gone \in Nat /\ MaxSequence \in Nat
    /\ NoLink.event = NoEvent /\ NoLink.seen = NoData
BY CalendarAssumption DEF Events, Helds, NoHeld, Held, Gone, NoLink

-----------------------------------------------------------------------------
(* Dialogs in front of each other                                          *)

LEMMA LessKeeps ==
    ASSUME NEW s \in Seq(Dialogs), OpenFirst(s), NEW d \in Dialogs
    PROVE  /\ Less(s, d) \in Seq(Dialogs) /\ OpenFirst(Less(s, d))
           /\ \A i \in DOMAIN Less(s, d) : Less(s, d)[i] \in {s[j] : j \in DOMAIN s}
           /\ d = "scope" => \A i \in DOMAIN Less(s, d) : Less(s, d)[i] # d
<1>1. CASE d \notin {s[i] : i \in DOMAIN s}
    BY <1>1 DEF Less
<1>2. CASE d \in {s[i] : i \in DOMAIN s}
    <2> DEFINE n == CHOOSE i \in DOMAIN s : s[i] = d
               rest == [i \in 1..(Len(s) - 1) |-> IF i < n THEN s[i] ELSE s[i + 1]]
    <2>1. n \in DOMAIN s /\ s[n] = d /\ Less(s, d) = rest
        BY <1>2 DEF Less
    <2> HIDE DEF n
    <2>2. Len(s) \in Nat /\ DOMAIN s = 1..Len(s) /\ n \in 1..Len(s)
        BY <2>1
    <2>3. \A i \in 1..(Len(s) - 1) : i \in DOMAIN s /\ i + 1 \in DOMAIN s
        BY <2>2
    <2>4. Len(s) - 1 \in Nat
        BY <2>2
    <2>5. rest \in Seq(Dialogs)
        BY <2>3, <2>4
    <2>6. ASSUME NEW i \in DOMAIN rest, rest[i] \in {"day", "scope"}
          PROVE  i = 1 /\ i < n
        <3>1. i \in 1..(Len(s) - 1)
            BY <2>6
        <3>2. CASE i < n
            BY <2>3, <2>6, <3>1, <3>2 DEF OpenFirst
        <3>3. CASE ~(i < n)
            <4>1. s[i + 1] \in {"day", "scope"} /\ i + 1 \in DOMAIN s
                BY <2>3, <2>6, <3>1, <3>3
            <4> QED BY <2>2, <3>1, <4>1 DEF OpenFirst
        <3> QED BY <3>2, <3>3
    <2>7. \A i \in DOMAIN rest : rest[i] \in {s[j] : j \in DOMAIN s}
        BY <2>3
    <2>8. ASSUME d = "scope", NEW i \in DOMAIN rest, rest[i] = d PROVE FALSE
        <3>1. i = 1 /\ i < n
            BY <2>6, <2>8
        <3>2. n = 1
            BY <2>1, <2>8 DEF OpenFirst
        <3> QED BY <3>1, <3>2
    <2>9. OpenFirst(rest)
        BY <2>6 DEF OpenFirst
    <2> HIDE DEF rest
    <2> QED BY <2>1, <2>5, <2>7, <2>8, <2>9
<1> QED BY <1>1, <1>2

LEMMA OpenKeeps ==
    ASSUME NEW s \in Seq(Dialogs), OpenFirst(s), NEW d \in Dialogs, 
           d \notin {"day", "scope"} \/ s = <<>>
    PROVE  /\ Append(Less(s, d), d) \in Seq(Dialogs)
           /\ OpenFirst(Append(Less(s, d), d))
           /\ d # "scope" => \A i \in DOMAIN Append(Less(s, d), d) :
                Append(Less(s, d), d)[i] = "scope" => "scope" \in {s[j] : j \in DOMAIN s}
<1> DEFINE w == Less(s, d)
<1>1. /\ w \in Seq(Dialogs) /\ OpenFirst(w)
      /\ \A i \in DOMAIN w : w[i] \in {s[j] : j \in DOMAIN s}
    BY LessKeeps
<1>2. s = <<>> => w = <<>>
    BY DEF Less
<1> HIDE DEF w
<1>3. Append(w, d) \in Seq(Dialogs) /\ Len(Append(w, d)) = Len(w) + 1
    BY <1>1
<1>4. OpenFirst(Append(w, d))
    BY <1>1, <1>2 DEF OpenFirst
<1>5. ASSUME d # "scope", NEW i \in DOMAIN Append(w, d), Append(w, d)[i] = "scope"
      PROVE  "scope" \in {s[j] : j \in DOMAIN s}
    <2>1. i \in DOMAIN w /\ w[i] = "scope"
        BY <1>1, <1>3, <1>5
    <2> QED BY <1>1, <2>1
<1> QED BY <1>3, <1>4, <1>5 DEF w

\* What is left of a few dialogs when others close
LEMMA FewDialogs ==
    /\ \A d \in Dialogs : Less(<<>>, d) = <<>>
    /\ Less(<<"day">>, "day") = <<>> /\ Less(<<"day", "detail">>, "day") = <<"detail">>
    /\ Less(<<"detail">>, "day") = <<"detail">> /\ Less(<<"detail">>, "detail") = <<>>
    /\ Less(<<"day">>, "detail") = <<"day">>
<1>1. \A d \in Dialogs : Less(<<>>, d) = <<>>
    BY DEF Less
<1>2. Less(<<"detail">>, "day") = <<"detail">> /\ Less(<<"day">>, "detail") = <<"day">>
    BY DEF Less
<1>3. Less(<<"day">>, "day") = <<>> /\ Less(<<"detail">>, "detail") = <<>>
    <2>1. ASSUME NEW s, NEW d, DOMAIN s = 1..1, Len(s) = 1, s[1] = d
          PROVE  Less(s, d) = [i \in 1..0 |-> 0]
        <3>1. d \in {s[i] : i \in DOMAIN s}
            BY <2>1
        <3> DEFINE n == CHOOSE i \in DOMAIN s : s[i] = d
        <3>2. Less(s, d) = [i \in 1..(Len(s) - 1) |-> IF i < n THEN s[i] ELSE s[i + 1]]
            BY <3>1 DEF Less
        <3> HIDE DEF n
        <3> QED BY <2>1, <3>2
    <2>2. [i \in 1..0 |-> 0] = <<>>
        OBVIOUS
    <2>3. /\ DOMAIN <<"day">> = 1..1 /\ Len(<<"day">>) = 1 /\ <<"day">>[1] = "day"
          /\ DOMAIN <<"detail">> = 1..1 /\ Len(<<"detail">>) = 1 /\ <<"detail">>[1] = "detail"
        OBVIOUS
    <2> QED BY <2>1, <2>2, <2>3
<1>4. Less(<<"day", "detail">>, "day") = <<"detail">>
    <2> DEFINE s == <<"day", "detail">>
               n == CHOOSE i \in DOMAIN s : s[i] = "day"
    <2>1. DOMAIN s = 1..2 /\ Len(s) = 2 /\ s[1] = "day" /\ s[2] = "detail"
        OBVIOUS
    <2>2. n = 1
        BY <2>1
    <2>3. "day" \in {s[i] : i \in DOMAIN s}
        BY <2>1
    <2>4. Less(s, "day") = [i \in 1..(Len(s) - 1) |-> IF i < n THEN s[i] ELSE s[i + 1]]
        BY <2>3 DEF Less
    <2> HIDE DEF s, n
    <2>5. Less(s, "day") = [i \in 1..1 |-> "detail"]
        BY <2>1, <2>2, <2>4
    <2> QED BY <2>5 DEF s
<1> QED BY <1>1, <1>2, <1>3, <1>4

LEMMA AppendedTo ==
    ASSUME NEW S, NEW s \in Seq(S), NEW t \in Seq(S), NEW d \in S, Len(t) = Len(s) + 1,
           \A i \in 1..Len(s) : t[i] = s[i], t[Len(s) + 1] = d
    PROVE  Append(s, d) = t
<1>1. Append(s, d) \in Seq(S) /\ Len(Append(s, d)) = Len(s) + 1
    BY AppendProperties
<1>2. \A i \in 1..Len(s) : Append(s, d)[i] = s[i]
    BY AppendProperties
<1>3. Append(s, d)[Len(s) + 1] = d
    BY AppendProperties
<1>4. ASSUME NEW i \in 1..Len(Append(s, d)) PROVE Append(s, d)[i] = t[i]
    <2>1. CASE i = Len(s) + 1
        BY <1>3, <2>1
    <2>2. CASE i # Len(s) + 1
        BY <1>1, <1>2, <2>2
    <2> QED BY <2>1, <2>2
<1> QED BY <1>1, <1>4, SeqEqual

LEMMA SecondInFront == Append(<<"day">>, "detail") = <<"day", "detail">>
<1> DEFINE s == <<"day">>
           t == <<"day", "detail">>
<1>1. s \in Seq(Dialogs)
    BY DEF Dialogs
<1>2. t \in Seq(Dialogs)
    BY DEF Dialogs
<1>3. Len(s) = 1 /\ Len(t) = 2 /\ s[1] = "day" /\ t[1] = "day" /\ t[2] = "detail"
    OBVIOUS
<1>4. "detail" \in Dialogs
    BY DEF Dialogs
<1> HIDE DEF s, t
<1>5. /\ Len(t) = Len(s) + 1 /\ \A i \in 1..Len(s) : t[i] = s[i]
      /\ t[Len(s) + 1] = "detail"
    BY <1>3
<1>6. Append(s, "detail") = t
    BY <1>1, <1>2, <1>4, <1>5, AppendedTo
<1> QED BY <1>6 DEF s, t

LEMMA OpenedAlone ==
    /\ \A s \in {<<>>, <<"day">>} :
        /\ Append(Less(Less(s, "day"), "detail"), "detail") = <<"detail">>
        /\ Append(Less(s, "detail"), "detail") \in {<<"detail">>, <<"day", "detail">>}
    /\ \A s \in {<<"day">>, <<"detail">>, <<"day", "detail">>} :
        Append(Less(Less(Less(s, "day"), "detail"), "editor"), "editor") = <<"editor">>
    /\ Append(Less(<<>>, "scope"), "scope") = <<"scope">>
<1>1. Append(<<>>, "detail") = <<"detail">>
    OBVIOUS
<1>2. Append(<<>>, "editor") = <<"editor">>
    OBVIOUS
<1>3. Append(<<>>, "scope") = <<"scope">>
    OBVIOUS
<1> DEFINE none == <<>>
           day == <<"day">>
           alone == <<"detail">>
           both == <<"day", "detail">>
<1>4. \A d \in Dialogs : Less(none, d) = none
    BY FewDialogs
<1>5. /\ Less(day, "day") = none /\ Less(both, "day") = alone
      /\ Less(alone, "day") = alone /\ Less(alone, "detail") = none
      /\ Less(day, "detail") = day
    BY FewDialogs
<1>6. /\ Append(none, "detail") = alone /\ Append(none, "editor") = <<"editor">>
      /\ Append(none, "scope") = <<"scope">> /\ Append(day, "detail") = both
    BY <1>1, <1>2, <1>3, SecondInFront
<1>7. {"day", "detail", "editor", "scope"} \subseteq Dialogs
    BY DEF Dialogs
<1> HIDE DEF none, day, alone, both
<1>8. /\ \A s \in {none, day} :
        /\ Append(Less(Less(s, "day"), "detail"), "detail") = alone
        /\ Append(Less(s, "detail"), "detail") \in {alone, both}
      /\ \A s \in {day, alone, both} :
        Append(Less(Less(Less(s, "day"), "detail"), "editor"), "editor") = <<"editor">>
      /\ Append(Less(none, "scope"), "scope") = <<"scope">>
    BY <1>4, <1>5, <1>6, <1>7
<1> QED BY <1>8 DEF none, day, alone, both

LEMMA FrontOfFew ==
    /\ \A d \in Dialogs : \A x \in Dialogs : stack = <<x>> /\ InFront(d) => d = x
    /\ \A d \in Dialogs : stack = <<"day", "detail">> /\ InFront(d) => d = "detail"
    /\ \A d : InFront(d) => stack # <<>>
    /\ \A d \in {"day", "scope"} :
        stack \in Seq(Dialogs) /\ OpenFirst(stack) /\ InFront(d) => stack = <<d>>
<1>1. \A d \in Dialogs : \A x \in Dialogs : stack = <<x>> /\ InFront(d) => d = x
    BY DEF InFront
<1>2. \A d \in Dialogs : stack = <<"day", "detail">> /\ InFront(d) => d = "detail"
    BY DEF InFront
<1>3. \A d : InFront(d) => stack # <<>>
    BY DEF InFront
<1>4. ASSUME NEW d \in {"day", "scope"}, stack \in Seq(Dialogs), OpenFirst(stack), InFront(d)
      PROVE  stack = <<d>>
    <2>1. Len(stack) \in Nat /\ Len(stack) # 0 /\ stack[Len(stack)] = d
        BY <1>4 DEF InFront
    <2>2. Len(stack) \in DOMAIN stack
        BY <1>4, <2>1
    <2>3. Len(stack) = 1
        BY <1>4, <2>1, <2>2 DEF OpenFirst
    <2> QED BY <1>4, <2>1, <2>3
<1> QED BY <1>1, <1>2, <1>3, <1>4

-----------------------------------------------------------------------------
(* The queries of the calendar                                             *)

\* What does not change the dialogs, the calls, and what the page was told of
LEMMA DialogsRest ==
    ASSUME HeldIsCurrent, UNCHANGED <<dialogs, calls, told>>
    PROVE  HeldIsCurrent'
BY DEF HeldIsCurrent, OpenFirst, ScopeHasDrag, DetailIsCurrent, FormIsCurrent, DragIsCurrent,
       CallsAreCurrent, Holds, IsOpen, dialogs

LEMMA AgendaSteps ==
    ASSUME CalendarInv, RefetchAgenda \/ ReadAgenda \/ AnswerAgenda \/ AgendaFails
    PROVE  CalendarInv'
<1>1. CalendarTypeOK /\ AgendaFollows /\ LinkComesFirst /\ HeldIsCurrent
    BY DEF CalendarInv
<1>2. UNCHANGED <<linkedEvent, dialogs, calls, schedule, told>>
    BY DEF RefetchAgenda, ReadAgenda, AnswerAgenda, AgendaFails, AgendaIs, outside
<1>3. /\ agenda' \in Query(Editions)
      /\ agenda'.seen # NoData => agenda'.seen = agenda.seen \/ agenda'.seen = schedule
      /\ AtRest(agenda') /\ IsShown(agenda') => agenda.seen # NoData /\ agenda'.data = agenda.seen
    <2>1. CASE RefetchAgenda
        <3>1. agenda' = Started(agenda)
            BY <2>1 DEF RefetchAgenda, AgendaIs
        <3> QED BY <1>1, <3>1, StartedQuery DEF CalendarTypeOK, AtRest
    <2>2. CASE ReadAgenda
        <3>1. agenda' = ReadAs(agenda, schedule) /\ agenda.busy /\ schedule \in Editions
            BY <1>1, <2>2 DEF ReadAgenda, AgendaIs, MayRead, CalendarTypeOK
        <3> QED BY <1>1, <3>1, ReadQuery DEF CalendarTypeOK, AtRest
    <2>3. CASE AnswerAgenda
        <3>1. agenda' = Answered(agenda) /\ agenda.seen # NoData
            BY <2>3 DEF AnswerAgenda, AgendaIs, MayAnswer
        <3> QED BY <1>1, <3>1, AnsweredQuery DEF CalendarTypeOK
    <2>4. CASE AgendaFails
        <3>1. agenda' = Failed(agenda)
            BY <2>4 DEF AgendaFails, AgendaIs
        <3> QED BY <1>1, <3>1, EndedQuery, FailedQuery DEF CalendarTypeOK, IsShown
    <2> QED BY <2>1, <2>2, <2>3, <2>4
<1>4. CalendarTypeOK' /\ LinkComesFirst'
    BY <1>1, <1>2, <1>3 DEF CalendarTypeOK, LinkComesFirst, dialogs
<1>5. AgendaFollows'
    BY <1>1, <1>2, <1>3 DEF AgendaFollows
<1> QED BY <1>1, <1>2, <1>4, <1>5, DialogsRest DEF CalendarInv

LEMMA LinkReads ==
    ASSUME CalendarInv, ReadLink \/ LinkFails
    PROVE  CalendarInv'
<1>1. CalendarTypeOK /\ AgendaFollows /\ LinkComesFirst /\ HeldIsCurrent
    BY DEF CalendarInv
<1>2. UNCHANGED <<agenda, dialogs, calls, schedule, told>> /\ linkedEvent # NoLink
    BY CalendarData DEF ReadLink, LinkFails, LinkIs, outside
<1>3. /\ linkedEvent' \in [event : Events \cup {NoEvent}, seen : Nat \cup {NoData}]
      /\ linkedEvent'.event = NoEvent => linkedEvent'.seen = NoData
    <2>1. PICK seen \in Nat \cup {NoData} :
            /\ linkedEvent' = [linkedEvent EXCEPT !.seen = seen]
            /\ seen = NoData \/ linkedEvent.event # NoEvent
        BY <1>1 DEF ReadLink, LinkFails, LinkIs, CalendarTypeOK, Editions
    <2> QED BY <1>1, <2>1 DEF CalendarTypeOK
<1>4. CalendarTypeOK' /\ LinkComesFirst' /\ AgendaFollows'
    BY <1>1, <1>2, <1>3 DEF CalendarTypeOK, LinkComesFirst, AgendaFollows, dialogs
<1> QED BY <1>1, <1>2, <1>4, DialogsRest DEF CalendarInv

-----------------------------------------------------------------------------
(* The dialogs of the calendar                                             *)

CarefulParts == DetailIsCurrent /\ FormIsCurrent /\ DragIsCurrent

\* A dialog that opens, others perhaps closing
LEMMA Reopened ==
    ASSUME stack \in Seq(Dialogs), OpenFirst(stack), NEW d \in {"detail", "editor", "delete"},
           \/ OpenDialog(d, stack) \/ OpenDialog(d, Less(stack, "day"))
           \/ OpenDialog(d, Less(Less(stack, "day"), "detail"))
    PROVE  /\ stack' \in Seq(Dialogs) /\ OpenFirst(stack')
           /\ IsOpen("scope")' => IsOpen("scope")
<1> DEFINE w == Less(stack, "day")
           v == Less(w, "detail")
<1>1. d \in Dialogs /\ d \notin {"day", "scope"} /\ "day" \in Dialogs /\ "detail" \in Dialogs
    BY DEF Dialogs
<1>2. /\ w \in Seq(Dialogs) /\ OpenFirst(w)
      /\ \A i \in DOMAIN w : w[i] \in {stack[j] : j \in DOMAIN stack}
    BY <1>1, LessKeeps
<1> HIDE DEF w
<1>3. /\ v \in Seq(Dialogs) /\ OpenFirst(v)
      /\ \A i \in DOMAIN v : v[i] \in {w[j] : j \in DOMAIN w}
    BY <1>1, <1>2, LessKeeps
<1> HIDE DEF v
<1>4. ASSUME NEW s \in Seq(Dialogs), OpenFirst(s), stack' = Append(Less(s, d), d)
      PROVE  /\ stack' \in Seq(Dialogs) /\ OpenFirst(stack')
             /\ IsOpen("scope")' => "scope" \in {s[j] : j \in DOMAIN s}
    BY <1>1, <1>4, OpenKeeps DEF IsOpen
<1>5. CASE OpenDialog(d, stack)
    BY <1>4, <1>5 DEF OpenDialog, IsOpen
<1>6. CASE OpenDialog(d, w)
    BY <1>2, <1>4, <1>6 DEF OpenDialog, IsOpen
<1>7. CASE OpenDialog(d, v)
    BY <1>2, <1>3, <1>4, <1>7 DEF OpenDialog, IsOpen
<1> QED BY <1>5, <1>6, <1>7 DEF w, v

\* With no dialog but a day open, nothing is held with care.
LEMMA NothingHeld ==
    ASSUME CarefulParts, Bare
    PROVE  ~detail.careful /\ ~editorForm.careful /\ ~drag.careful
<1>1. \A x \in {"detail", "editor", "scope"} : stack # <<x>>
    BY DEF Bare
<1>2. stack # <<"day", "detail">>
    BY DEF Bare
<1> QED BY <1>1, <1>2 DEF CarefulParts, DetailIsCurrent, FormIsCurrent, DragIsCurrent

\* Only what is in front is held with care.
LEMMA HeldInFront ==
    ASSUME CarefulParts, NEW d \in Dialogs, InFront(d)
    PROVE  /\ d # "detail" => ~detail.careful
           /\ d # "editor" => ~editorForm.careful
           /\ d # "scope" => ~drag.careful
<1>1. {"detail", "editor", "scope"} \subseteq Dialogs
    BY DEF Dialogs
<1> QED BY <1>1, FrontOfFew DEF CarefulParts, DetailIsCurrent, FormIsCurrent, DragIsCurrent

\* What is taken over from the list
LEMMA ListIsHeld ==
    ASSUME CalendarInv, NEW e \in Events, Listed(e), NEW h, h = FromList(e)
    PROVE  h \in Helds /\ h.event = e /\ (h.careful => Holds(h) /\ calls = {})
<1> DEFINE quiet == CalendarCalm
<1>1. quiet \in BOOLEAN
    BY DEF CalendarCalm
<1>2. quiet => calls = {} /\ AtRest(agenda) /\ IsShown(agenda)
    BY DEF CalendarCalm
<1>3. h = Held(e, agenda.data[e], quiet)
    BY DEF FromList
<1> HIDE DEF quiet
<1>4. agenda.data \in Editions /\ agenda.data[e] \in Nat
    BY DEF Listed, CalendarInv, CalendarTypeOK, Query, Editions
<1>5. /\ h \in Helds /\ h.event = e /\ h.holds = agenda.data[e] /\ (h.careful = quiet)
    BY <1>1, <1>3, <1>4 DEF Held, Helds
<1>6. quiet => agenda.data[e] >= told[e]
    BY <1>2, <1>4 DEF CalendarInv, AgendaFollows, CalendarTypeOK, Editions
<1> QED BY <1>2, <1>5, <1>6 DEF Holds

\* A step that only moves dialogs
LEMMA DialogsChange ==
    ASSUME CalendarInv, UNCHANGED <<agenda, linkedEvent, calls, schedule, told>>,
           stack' \in Seq(Dialogs), OpenFirst(stack'),
           detail' \in Helds, editorForm' \in Helds, drag' \in Helds,
           editing' \in Events \cup {NoEvent}, deleteTarget' \in Events \cup {NoEvent},
           editorForm'.event = editing', IsOpen("scope")' => drag'.event \in Events,
           CarefulParts'
    PROVE  CalendarInv'
<1>1. CalendarTypeOK' /\ AgendaFollows' /\ LinkComesFirst'
    BY DEF CalendarInv, CalendarTypeOK, AgendaFollows, LinkComesFirst
<1>2. CallsAreCurrent'
    BY DEF CalendarInv, HeldIsCurrent, CallsAreCurrent, Holds
<1>3. ScopeHasDrag'
    BY DEF CalendarInv, HeldIsCurrent, ScopeHasDrag
<1>4. OpenFirst(stack)'
    BY DEF OpenFirst
<1> QED BY <1>1, <1>2, <1>3, <1>4 DEF CalendarInv, HeldIsCurrent, CarefulParts

\* What an invariant says of the dialogs
LEMMA DialogsKnown ==
    ASSUME CalendarInv
    PROVE  /\ stack \in Seq(Dialogs) /\ OpenFirst(stack) /\ CarefulParts
           /\ detail \in Helds /\ editorForm \in Helds /\ drag \in Helds
           /\ editing \in Events \cup {NoEvent} /\ deleteTarget \in Events \cup {NoEvent}
           /\ editorForm.event = editing /\ (IsOpen("scope") => drag.event \in Events)
BY DEF CalendarInv, CalendarTypeOK, HeldIsCurrent, ScopeHasDrag, CarefulParts

\* The detail of a link
LEMMA LinkShows == ASSUME CalendarInv, ShowLink PROVE CalendarInv'
<1>1. CalendarTypeOK /\ AgendaFollows /\ LinkComesFirst /\ HeldIsCurrent
    BY DEF CalendarInv
<1> DEFINE quiet == Bare /\ CalendarCalm
<1>2. quiet \in BOOLEAN
    BY DEF CalendarCalm
<1>3. /\ linkedEvent.seen # NoData /\ linkedEvent' = NoLink
      /\ detail' = Held(linkedEvent.event, linkedEvent.seen, quiet)
      /\ OpenDialog("detail", stack)
      /\ editorForm' = [editorForm EXCEPT !.careful = FALSE]
      /\ drag' = [drag EXCEPT !.careful = FALSE]
      /\ UNCHANGED <<agenda, editing, deleteTarget, calls, schedule, told>>
    BY DEF ShowLink, outside
<1>4. quiet => Bare /\ calls = {}
    BY DEF CalendarCalm
<1> HIDE DEF quiet
<1>5. /\ linkedEvent.event \in Events /\ linkedEvent.seen \in Nat /\ linkedEvent # NoLink
    BY <1>1, <1>3, CalendarData DEF CalendarTypeOK
<1>6. detail' \in Helds /\ detail'.event = linkedEvent.event /\ detail'.holds = linkedEvent.seen
      /\ (detail'.careful = quiet)
    BY <1>2, <1>3, <1>5 DEF Helds, Held
<1>7. /\ editorForm' \in Helds /\ editorForm'.event = editorForm.event /\ ~editorForm'.careful
      /\ drag' \in Helds /\ ~drag'.careful /\ drag'.event = drag.event
    BY <1>1, <1>3 DEF CalendarTypeOK, Helds
<1>8. stack' \in Seq(Dialogs) /\ OpenFirst(stack') /\ (IsOpen("scope")' => IsOpen("scope"))
    BY <1>1, <1>3, Reopened DEF CalendarTypeOK, HeldIsCurrent
<1>9. quiet => stack' = <<"detail">> \/ stack' = <<"day", "detail">>
    BY <1>3, <1>4, OpenedAlone DEF Bare, OpenDialog
<1>10. linkedEvent' \in [event : Events \cup {NoEvent}, seen : Nat \cup {NoData}]
       /\ (linkedEvent'.event = NoEvent => linkedEvent'.seen = NoData)
    BY <1>3 DEF NoLink
<1>11. CalendarTypeOK'
    BY <1>1, <1>3, <1>6, <1>7, <1>8, <1>10 DEF CalendarTypeOK
<1>12. LinkComesFirst' /\ AgendaFollows'
    BY <1>1, <1>3 DEF LinkComesFirst, AgendaFollows
<1>13. detail'.event \in Events /\ detail'.holds >= told'[detail'.event]
    BY <1>1, <1>3, <1>5, <1>6 DEF LinkComesFirst
<1>14. CarefulParts'
    BY <1>3, <1>4, <1>6, <1>7, <1>9, <1>13
    DEF CarefulParts, DetailIsCurrent, FormIsCurrent, DragIsCurrent, Holds
<1>15. ScopeHasDrag' /\ CallsAreCurrent'
    BY <1>1, <1>3, <1>7, <1>8 DEF HeldIsCurrent, ScopeHasDrag, CallsAreCurrent, Holds
<1>16. editorForm'.event = editing' /\ OpenFirst(stack)'
    BY <1>1, <1>3, <1>7, <1>8 DEF HeldIsCurrent, OpenFirst
<1> QED BY <1>11, <1>12, <1>14, <1>15, <1>16 DEF CalendarInv, HeldIsCurrent, CarefulParts

\* From the grid
LEMMA DialogsOpen ==
    ASSUME CalendarInv, OpenDay \/ OpenNew \/ \E e \in Events : OpenEventDetail(e)
    PROVE  CalendarInv'
<1>1. /\ stack \in Seq(Dialogs) /\ OpenFirst(stack) /\ CarefulParts
      /\ detail \in Helds /\ editorForm \in Helds /\ drag \in Helds
      /\ editing \in Events \cup {NoEvent} /\ deleteTarget \in Events \cup {NoEvent}
      /\ editorForm.event = editing /\ (IsOpen("scope") => drag.event \in Events)
    BY DialogsKnown
<1>2. Bare /\ UNCHANGED <<agenda, linkedEvent, calls, schedule, told, drag, deleteTarget>>
    BY DEF OpenDay, OpenNew, OpenEventDetail, CalendarRest, outside, Bare
<1>3. ~detail.careful /\ ~editorForm.careful /\ ~drag.careful
    BY <1>1, <1>2, NothingHeld
<1>4. CASE OpenDay
    <2>1. stack = <<>> /\ stack' = Append(Less(stack, "day"), "day")
          /\ UNCHANGED <<detail, editing, editorForm>>
        BY <1>4 DEF OpenDay, OpenDialog
    <2>2. "day" \in Dialogs /\ "day" # "scope"
        BY DEF Dialogs
    <2>3. stack' \in Seq(Dialogs) /\ OpenFirst(stack')
          /\ (IsOpen("scope")' => "scope" \in {stack[j] : j \in DOMAIN stack})
        BY <1>1, <2>1, <2>2, OpenKeeps DEF IsOpen
    <2>4. CarefulParts'
        BY <1>2, <1>3, <2>1 DEF CarefulParts, DetailIsCurrent, FormIsCurrent, DragIsCurrent
    <2>5. IsOpen("scope")' => drag'.event \in Events
        BY <1>1, <1>2, <2>3 DEF IsOpen
    <2> QED BY <1>1, <1>2, <2>1, <2>3, <2>4, <2>5, DialogsChange
<1>5. CASE OpenNew
    <2>1. /\ OpenDialog("editor", Less(stack, "day")) /\ editing' = NoEvent
          /\ editorForm' = NoHeld /\ UNCHANGED detail
        BY <1>5 DEF OpenNew
    <2>2. stack' \in Seq(Dialogs) /\ OpenFirst(stack') /\ (IsOpen("scope")' => IsOpen("scope"))
        BY <1>1, <2>1, Reopened
    <2>3. CarefulParts'
        BY <1>2, <1>3, <2>1, CalendarData
        DEF CarefulParts, DetailIsCurrent, FormIsCurrent, DragIsCurrent
    <2> QED BY <1>1, <1>2, <2>1, <2>2, <2>3, CalendarData, DialogsChange
<1>6. CASE \E e \in Events : OpenEventDetail(e)
    <2>1. PICK e \in Events : OpenEventDetail(e)
        BY <1>6
    <2>2. /\ Listed(e) /\ detail' = FromList(e)
          /\ OpenDialog("detail", Less(stack, "day")) /\ UNCHANGED <<editing, editorForm>>
        BY <2>1 DEF OpenEventDetail
    <2>3. /\ detail' \in Helds
          /\ detail'.careful =>
                calls = {} /\ detail'.event \in Events /\ detail'.holds >= told[detail'.event]
        BY <2>2, ListIsHeld DEF Holds
    <2>4. stack' \in Seq(Dialogs) /\ OpenFirst(stack') /\ (IsOpen("scope")' => IsOpen("scope"))
        BY <1>1, <2>2, Reopened
    <2>5. stack' = <<"detail">>
        BY <1>2, <2>2, OpenedAlone DEF Bare, OpenDialog
    <2>6. CarefulParts'
        BY <1>2, <1>3, <2>2, <2>3, <2>5
        DEF CarefulParts, DetailIsCurrent, FormIsCurrent, DragIsCurrent, Holds
    <2> QED BY <1>1, <1>2, <2>2, <2>3, <2>4, <2>6, DialogsChange
<1> QED BY <1>4, <1>5, <1>6

\* From a day or a detail to the editor
LEMMA EditorOpens == ASSUME CalendarInv, OpenEventEdit PROVE CalendarInv'
<1>1. /\ stack \in Seq(Dialogs) /\ OpenFirst(stack) /\ CarefulParts
      /\ detail \in Helds /\ editorForm \in Helds /\ drag \in Helds
      /\ editing \in Events \cup {NoEvent} /\ deleteTarget \in Events \cup {NoEvent}
      /\ editorForm.event = editing /\ (IsOpen("scope") => drag.event \in Events)
    BY DialogsKnown
<1>2. "day" \in Dialogs /\ "detail" \in Dialogs
    BY DEF Dialogs
<1>3. PICK h \in Helds :
        /\ Edits(h) /\ ~drag.careful
        /\ h.careful => /\ Holds(h) /\ calls = {}
                        /\ stack \in {<<"day">>, <<"detail">>, <<"day", "detail">>}
    <2>1. CASE InFront("day") /\ \E e \in Events : Listed(e) /\ Edits(FromList(e))
        <3>1. PICK e \in Events : Listed(e) /\ Edits(FromList(e))
            BY <2>1
        <3>2. stack = <<"day">> /\ ~drag.careful
            BY <1>1, <1>2, <2>1, FrontOfFew, HeldInFront
        <3> QED BY <3>1, <3>2, ListIsHeld
    <2>2. CASE InFront("detail") /\ Edits(detail)
        <3>1. ~drag.careful
            BY <1>1, <1>2, <2>2, HeldInFront
        <3> QED BY <1>1, <2>2, <3>1 DEF CarefulParts, DetailIsCurrent
    <2> QED BY <2>1, <2>2 DEF OpenEventEdit
<1>4. /\ OpenDialog("editor", Less(Less(stack, "day"), "detail"))
      /\ editing' = h.event /\ editorForm' = h /\ detail' = NoHeld
      /\ UNCHANGED <<agenda, linkedEvent, calls, schedule, told, drag, deleteTarget>>
    BY <1>3 DEF Edits, CalendarRest, outside
<1>5. stack' \in Seq(Dialogs) /\ OpenFirst(stack') /\ (IsOpen("scope")' => IsOpen("scope"))
    BY <1>1, <1>4, Reopened
<1>6. h.careful => stack' = <<"editor">>
    BY <1>3, <1>4, OpenedAlone DEF OpenDialog
<1>7. CarefulParts'
    BY <1>3, <1>4, <1>6, CalendarData
    DEF CarefulParts, DetailIsCurrent, FormIsCurrent, DragIsCurrent, Holds
<1>8. h.event \in Events \cup {NoEvent}
    BY DEF Helds
<1> QED BY <1>1, <1>4, <1>5, <1>7, <1>8, CalendarData, DialogsChange

\* From a day or a detail to the question before a deletion
LEMMA DeleteOpens == ASSUME CalendarInv, OpenEventDelete PROVE CalendarInv'
<1>1. /\ stack \in Seq(Dialogs) /\ OpenFirst(stack) /\ CarefulParts
      /\ detail \in Helds /\ editorForm \in Helds /\ drag \in Helds
      /\ editing \in Events \cup {NoEvent} /\ deleteTarget \in Events \cup {NoEvent}
      /\ editorForm.event = editing /\ (IsOpen("scope") => drag.event \in Events)
    BY DialogsKnown
<1>2. "day" \in Dialogs /\ "detail" \in Dialogs
    BY DEF Dialogs
<1>3. /\ deleteTarget' \in Events \cup {NoEvent} /\ detail' = NoHeld
      /\ OpenDialog("delete", Less(Less(stack, "day"), "detail"))
      /\ UNCHANGED <<agenda, linkedEvent, calls, schedule, told, editing, editorForm, drag>>
    BY <1>1 DEF OpenEventDelete, CalendarRest, outside, Helds
<1>4. InFront("day") \/ InFront("detail")
    BY DEF OpenEventDelete
<1>5. ~editorForm.careful /\ ~drag.careful
    BY <1>1, <1>2, <1>4, HeldInFront
<1>6. stack' \in Seq(Dialogs) /\ OpenFirst(stack') /\ (IsOpen("scope")' => IsOpen("scope"))
    BY <1>1, <1>3, Reopened
<1>7. CarefulParts'
    BY <1>3, <1>5, CalendarData DEF CarefulParts, DetailIsCurrent, FormIsCurrent, DragIsCurrent
<1> QED BY <1>1, <1>3, <1>6, <1>7, CalendarData, DialogsChange

\* A dialog that closes, also one that is not open
LEMMA Closed ==
    ASSUME stack \in Seq(Dialogs), OpenFirst(stack), NEW d \in Dialogs, CloseDialog(d)
    PROVE  /\ stack' \in Seq(Dialogs) /\ OpenFirst(stack')
           /\ IsOpen("scope")' => IsOpen("scope") /\ d # "scope"
<1>1. /\ stack' \in Seq(Dialogs) /\ OpenFirst(stack')
      /\ \A i \in DOMAIN stack' : stack'[i] \in {stack[j] : j \in DOMAIN stack}
      /\ d = "scope" => \A i \in DOMAIN stack' : stack'[i] # d
    BY LessKeeps DEF CloseDialog
<1> QED BY <1>1 DEF IsOpen

LEMMA FrontCloses == ASSUME CalendarInv, CloseFront PROVE CalendarInv'
<1>1. /\ stack \in Seq(Dialogs) /\ OpenFirst(stack) /\ CarefulParts
      /\ detail \in Helds /\ editorForm \in Helds /\ drag \in Helds
      /\ editing \in Events \cup {NoEvent} /\ deleteTarget \in Events \cup {NoEvent}
      /\ editorForm.event = editing /\ (IsOpen("scope") => drag.event \in Events)
    BY DialogsKnown
<1>2. PICK d \in Dialogs : InFront(d) /\ d = stack[Len(stack)]
    BY <1>1 DEF CloseFront, InFront
<1>3. /\ CloseDialog(d)
      /\ detail' = IF d = "detail" THEN NoHeld ELSE detail
      /\ drag' = IF d = "scope" THEN NoHeld ELSE drag
      /\ deleteTarget' = IF d = "delete" THEN NoEvent ELSE deleteTarget
      /\ IF d = "editor" THEN editing' = NoEvent /\ editorForm' = NoHeld
         ELSE UNCHANGED <<editing, editorForm>>
      /\ UNCHANGED <<agenda, linkedEvent, calls, schedule, told>>
    BY <1>2 DEF CloseFront, CalendarRest, outside, InFront
<1>4. stack' \in Seq(Dialogs) /\ OpenFirst(stack')
      /\ (IsOpen("scope")' => IsOpen("scope") /\ d # "scope")
    BY <1>1, <1>3, Closed
<1>5. ~detail'.careful /\ ~editorForm'.careful /\ ~drag'.careful
    BY <1>1, <1>2, <1>3, HeldInFront, CalendarData
<1>6. CarefulParts'
    BY <1>5 DEF CarefulParts, DetailIsCurrent, FormIsCurrent, DragIsCurrent
<1>7. /\ detail' \in Helds /\ editorForm' \in Helds /\ drag' \in Helds
      /\ editing' \in Events \cup {NoEvent} /\ deleteTarget' \in Events \cup {NoEvent}
      /\ editorForm'.event = editing'
    BY <1>1, <1>3, CalendarData
<1>8. IsOpen("scope")' => drag'.event \in Events
    BY <1>1, <1>3, <1>4
<1> QED BY <1>3, <1>4, <1>6, <1>7, <1>8, DialogsChange

-----------------------------------------------------------------------------
(* The writes of the calendar                                              *)

\* A step that leaves the queries, and does not change what was told
LEMMA CallsChange ==
    ASSUME CalendarInv, UNCHANGED <<agenda, linkedEvent, detail, editing, deleteTarget,
                                    schedule, told>>,
           calls # {} \/ linkedEvent = NoLink,
           stack' \in Seq(Dialogs), OpenFirst(stack'), editorForm' \in Helds, drag' \in Helds,
           editorForm'.event = editorForm.event, calls' \subseteq EventWrites,
           \A c \in calls' : c.phase = "served" =>
               \E d \in calls : d.phase = "served" /\ d.event = c.event /\ d.as = c.as,
           ScopeHasDrag', CarefulParts', CallsAreCurrent'
    PROVE  CalendarInv'
<1>1. CalendarTypeOK'
    BY DEF CalendarInv, CalendarTypeOK
<1>2. AgendaFollows'
    BY DEF CalendarInv, AgendaFollows
<1>3. LinkComesFirst'
    BY DEF CalendarInv, LinkComesFirst
<1>4. editorForm'.event = editing' /\ OpenFirst(stack)'
    BY DEF CalendarInv, HeldIsCurrent, OpenFirst
<1> QED BY <1>1, <1>2, <1>3, <1>4 DEF CalendarInv, HeldIsCurrent, CarefulParts

\* A write that is sent, beside those under way
LEMMA CallMade ==
    ASSUME CalendarInv, NEW c \in EventWrites, c.phase \in {"contact", "base", "sent"},
           c.phase = "base" => c.event \in Events, c.careful => Holds(c), Calls(c),
           UNCHANGED told
    PROVE  /\ calls' \subseteq EventWrites /\ linkedEvent = NoLink
           /\ \A d \in calls' :
                /\ \E x \in calls \cup {c} : d.kind = x.kind /\ d.event = x.event
                /\ d.phase = "served" =>
                     \E x \in calls : x.phase = "served" /\ x.event = d.event /\ x.as = d.as
                /\ d.phase = "base" => d.event \in Events
           /\ CallsAreCurrent'
<1>1. calls \subseteq EventWrites /\ \A x \in calls : x.phase = "base" => x.event \in Events
    BY DEF CalendarInv, CalendarTypeOK, HeldIsCurrent, ScopeHasDrag
<1>2. /\ linkedEvent = NoLink
      /\ calls' = IF calls = {} THEN {c}
                  ELSE {[x EXCEPT !.careful = FALSE] : x \in calls \cup {c}}
    BY DEF Calls
<1>3. CASE calls = {}
    <2>1. calls' = {c}
        BY <1>2, <1>3
    <2>2. CallsAreCurrent'
        BY <2>1 DEF CallsAreCurrent, Holds
    <2> QED BY <1>2, <2>1, <2>2
<1>4. CASE calls # {}
    <2>1. calls' = {[x EXCEPT !.careful = FALSE] : x \in calls \cup {c}}
        BY <1>2, <1>4
    <2>2. ASSUME NEW x \in EventWrites, NEW d, d = [x EXCEPT !.careful = FALSE]
          PROVE  /\ d \in EventWrites /\ ~d.careful /\ d.kind = x.kind /\ d.event = x.event
                 /\ d.phase = x.phase /\ d.as = x.as
        BY <2>2 DEF EventWrites
    <2>3. ASSUME NEW d \in calls'
          PROVE  /\ d \in EventWrites /\ ~d.careful
                 /\ \E x \in calls \cup {c} : d.kind = x.kind /\ d.event = x.event
                                              /\ d.phase = x.phase /\ d.as = x.as
        <3>1. PICK x \in calls \cup {c} : d = [x EXCEPT !.careful = FALSE]
            BY <2>1
        <3>2. x \in EventWrites
            BY <1>1
        <3> QED BY <2>2, <3>1, <3>2
    <2>4. CallsAreCurrent'
        BY <2>3 DEF CallsAreCurrent
    <2> QED BY <1>1, <1>2, <2>3, <2>4
<1> QED BY <1>3, <1>4

\* A write of what the page held
LEMMA CallOf ==
    ASSUME NEW h \in Helds, NEW kind \in CallKinds, NEW phase \in {"contact", "base", "sent"},
           NEW c, c = Call(kind, h, phase)
    PROVE  /\ c \in EventWrites /\ c.kind = kind /\ c.event = h.event /\ c.holds = h.holds
           /\ (c.careful = h.careful) /\ c.phase = phase
BY DEF Call, Helds, EventWrites, CallPhases

LEMMA EditorSaves == ASSUME CalendarInv, SaveEvent PROVE CalendarInv'
<1>1. /\ stack \in Seq(Dialogs) /\ OpenFirst(stack) /\ CarefulParts
      /\ detail \in Helds /\ editorForm \in Helds /\ drag \in Helds
      /\ editing \in Events \cup {NoEvent} /\ deleteTarget \in Events \cup {NoEvent}
      /\ editorForm.event = editing /\ (IsOpen("scope") => drag.event \in Events)
    BY DialogsKnown
<1>2. /\ InFront("editor") /\ editorForm' = [editorForm EXCEPT !.sent = TRUE]
      /\ UNCHANGED <<agenda, linkedEvent, stack, detail, editing, drag, deleteTarget, schedule,
                     told>>
    BY DEF SaveEvent, outside
<1>3. "editor" \in Dialogs
    BY DEF Dialogs
<1>4. ~detail.careful /\ ~drag.careful
    BY <1>1, <1>2, <1>3, HeldInFront
<1>5. PICK first \in {"contact", "sent"} :
        Calls([Call("save", editorForm, first) EXCEPT !.event = editing])
    BY DEF SaveEvent
<1> DEFINE b == Call("save", editorForm, first)
           c == [b EXCEPT !.event = editing]
<1>6. /\ b \in EventWrites /\ b.kind = "save" /\ b.event = editing /\ b.holds = editorForm.holds
      /\ (b.careful = editorForm.careful) /\ b.phase = first
    BY <1>1, CallOf DEF CallKinds
<1>7. Calls(c)
    BY <1>5
<1> HIDE DEF b
<1>8. c = b
    BY <1>6 DEF EventWrites
<1> HIDE DEF c
<1>9. c.careful => Holds(c) /\ stack = <<"editor">>
    BY <1>1, <1>6, <1>8 DEF CarefulParts, FormIsCurrent, Holds
<1>10. /\ calls' \subseteq EventWrites /\ linkedEvent = NoLink
       /\ \A d \in calls' :
             /\ \E x \in calls \cup {c} : d.kind = x.kind /\ d.event = x.event
             /\ d.phase = "served" =>
                  \E x \in calls : x.phase = "served" /\ x.event = d.event /\ x.as = d.as
             /\ d.phase = "base" => d.event \in Events
       /\ CallsAreCurrent'
    BY <1>2, <1>6, <1>7, <1>8, <1>9, CallMade
<1>11. /\ editorForm' \in Helds /\ editorForm'.event = editorForm.event
       /\ editorForm'.holds = editorForm.holds /\ (editorForm'.careful = editorForm.careful)
    BY <1>1, <1>2 DEF Helds
<1>12. FormIsCurrent'
    <2>1. ASSUME editorForm'.careful
          PROVE  /\ editorForm'.event \in Events /\ editorForm'.holds >= told'[editorForm'.event]
                 /\ stack' = <<"editor">>
                 /\ \A d \in calls' : d.kind = "save" /\ d.event = editing'
        BY <1>1, <1>2, <1>6, <1>8, <1>10, <1>11, <2>1 DEF CarefulParts, FormIsCurrent, Holds
    <2> QED BY <2>1 DEF FormIsCurrent, Holds
<1>13. CarefulParts'
    BY <1>2, <1>4, <1>12 DEF CarefulParts, DetailIsCurrent, DragIsCurrent
<1>14. ScopeHasDrag'
    BY <1>1, <1>2, <1>10 DEF ScopeHasDrag, IsOpen
<1> QED BY <1>1, <1>2, <1>10, <1>11, <1>13, <1>14, CallsChange

LEMMA DragSends == ASSUME CalendarInv, NEW e \in Events, DropEvent(e) PROVE CalendarInv'
<1>1. /\ stack \in Seq(Dialogs) /\ OpenFirst(stack) /\ CarefulParts
      /\ detail \in Helds /\ editorForm \in Helds /\ drag \in Helds
      /\ editing \in Events \cup {NoEvent} /\ deleteTarget \in Events \cup {NoEvent}
      /\ editorForm.event = editing /\ (IsOpen("scope") => drag.event \in Events)
    BY DialogsKnown
<1>2. /\ stack = <<>> /\ Listed(e) /\ Bare
      /\ UNCHANGED <<agenda, linkedEvent, detail, editing, editorForm, deleteTarget, schedule,
                     told>>
    BY DEF DropEvent, Bare, outside
<1>3. ~detail.careful /\ ~editorForm.careful /\ ~drag.careful
    BY <1>1, <1>2, NothingHeld
<1> DEFINE h == FromList(e)
<1>4. h \in Helds /\ h.event = e /\ (h.careful => Holds(h) /\ calls = {})
    BY <1>2, ListIsHeld
<1>5. CASE e \in Singles
    <2> DEFINE c == Call("move", h, "sent")
    <2>1. Calls(c) /\ UNCHANGED <<stack, drag>>
        BY <1>5 DEF DropEvent
    <2> HIDE DEF h
    <2>2. /\ c \in EventWrites /\ c.kind = "move" /\ c.event = h.event /\ c.holds = h.holds
          /\ (c.careful = h.careful) /\ c.phase = "sent"
        BY <1>4, CallOf DEF CallKinds
    <2> HIDE DEF c
    <2>3. c.careful => Holds(c)
        BY <1>4, <2>2 DEF Holds
    <2>4. /\ calls' \subseteq EventWrites /\ linkedEvent = NoLink
          /\ \A d \in calls' :
                /\ d.phase = "served" =>
                     \E x \in calls : x.phase = "served" /\ x.event = d.event /\ x.as = d.as
                /\ d.phase = "base" => d.event \in Events
          /\ CallsAreCurrent'
        BY <1>2, <2>1, <2>2, <2>3, CallMade
    <2>5. CarefulParts'
        BY <1>2, <1>3, <2>1 DEF CarefulParts, DetailIsCurrent, FormIsCurrent, DragIsCurrent
    <2>6. ScopeHasDrag'
        BY <1>1, <2>1, <2>4 DEF ScopeHasDrag, IsOpen
    <2> QED BY <1>1, <1>2, <2>1, <2>4, <2>5, <2>6, CallsChange
<1>6. CASE e \notin Singles
    <2>1. OpenDialog("scope", stack) /\ drag' = h /\ UNCHANGED calls
        BY <1>6 DEF DropEvent
    <2> HIDE DEF h
    <2>2. stack' = <<"scope">>
        BY <1>2, <2>1, OpenedAlone DEF OpenDialog
    <2>3. stack' \in Seq(Dialogs) /\ OpenFirst(stack')
        BY <2>2 DEF Dialogs, OpenFirst
    <2>4. CarefulParts'
        BY <1>2, <1>3, <1>4, <2>1, <2>2
        DEF CarefulParts, DetailIsCurrent, FormIsCurrent, DragIsCurrent, Holds
    <2> QED BY <1>1, <1>2, <1>4, <2>1, <2>3, <2>4, DialogsChange
<1> QED BY <1>5, <1>6

LEMMA ScopeSends == ASSUME CalendarInv, ConfirmScope PROVE CalendarInv'
<1>1. /\ stack \in Seq(Dialogs) /\ OpenFirst(stack) /\ CarefulParts
      /\ detail \in Helds /\ editorForm \in Helds /\ drag \in Helds
      /\ editing \in Events \cup {NoEvent} /\ deleteTarget \in Events \cup {NoEvent}
      /\ editorForm.event = editing /\ (IsOpen("scope") => drag.event \in Events)
    BY DialogsKnown
<1>2. /\ InFront("scope")
      /\ UNCHANGED <<agenda, linkedEvent, stack, detail, editing, editorForm, drag,
                     deleteTarget, schedule, told>>
    BY DEF ConfirmScope, outside, dialogs
<1>3. "scope" \in Dialogs
    BY DEF Dialogs
<1>4. ~detail.careful /\ ~editorForm.careful
    BY <1>1, <1>2, <1>3, HeldInFront
<1>5. drag.event \in Events
    <2>1. stack = <<"scope">>
        BY <1>1, <1>2, FrontOfFew
    <2>2. IsOpen("scope")
        BY <2>1 DEF IsOpen
    <2> QED BY <1>1, <2>2
<1>6. PICK first \in {"base", "sent"} : Calls(Call("move", drag, first))
    BY DEF ConfirmScope
<1> DEFINE c == Call("move", drag, first)
<1>7. /\ c \in EventWrites /\ c.kind = "move" /\ c.event = drag.event /\ c.holds = drag.holds
      /\ (c.careful = drag.careful) /\ c.phase = first
    BY <1>1, CallOf DEF CallKinds
<1>8. Calls(c)
    BY <1>6
<1> HIDE DEF c
<1>9. c.careful => Holds(c)
    BY <1>1, <1>7 DEF CarefulParts, DragIsCurrent, Holds
<1>10. /\ calls' \subseteq EventWrites /\ linkedEvent = NoLink
       /\ \A d \in calls' :
             /\ \E x \in calls \cup {c} : d.kind = x.kind /\ d.event = x.event
             /\ d.phase = "served" =>
                  \E x \in calls : x.phase = "served" /\ x.event = d.event /\ x.as = d.as
             /\ d.phase = "base" => d.event \in Events
       /\ CallsAreCurrent'
    BY <1>2, <1>5, <1>7, <1>8, <1>9, CallMade
<1>11. CarefulParts'
    BY <1>1, <1>2, <1>4, <1>7, <1>10
    DEF CarefulParts, DetailIsCurrent, FormIsCurrent, DragIsCurrent, Holds
<1>12. ScopeHasDrag'
    BY <1>2, <1>5, <1>10 DEF ScopeHasDrag
<1> QED BY <1>1, <1>2, <1>10, <1>11, <1>12, CallsChange

LEMMA DeletionSends == ASSUME CalendarInv, DeleteEvent PROVE CalendarInv'
<1>1. /\ stack \in Seq(Dialogs) /\ OpenFirst(stack) /\ CarefulParts
      /\ detail \in Helds /\ editorForm \in Helds /\ drag \in Helds
      /\ editing \in Events \cup {NoEvent} /\ deleteTarget \in Events \cup {NoEvent}
      /\ editorForm.event = editing /\ (IsOpen("scope") => drag.event \in Events)
    BY DialogsKnown
<1>2. /\ InFront("delete")
      /\ UNCHANGED <<agenda, linkedEvent, stack, detail, editing, editorForm, drag,
                     deleteTarget, schedule, told>>
    BY DEF DeleteEvent, outside, dialogs
<1>3. "delete" \in Dialogs
    BY DEF Dialogs
<1>4. ~detail.careful /\ ~editorForm.careful /\ ~drag.careful
    BY <1>1, <1>2, <1>3, HeldInFront
<1> DEFINE h == Held(deleteTarget, 0, FALSE)
           c == Call("delete", h, "sent")
<1>5. h \in Helds /\ h.event = deleteTarget /\ ~h.careful
    BY <1>1 DEF Held, Helds
<1>6. Calls(c)
    BY DEF DeleteEvent
<1> HIDE DEF h
<1>7. c \in EventWrites /\ ~c.careful /\ c.phase = "sent"
    BY <1>5, CallOf DEF CallKinds
<1> HIDE DEF c
<1>8. /\ calls' \subseteq EventWrites /\ linkedEvent = NoLink
      /\ \A d \in calls' :
            /\ d.phase = "served" =>
                 \E x \in calls : x.phase = "served" /\ x.event = d.event /\ x.as = d.as
            /\ d.phase = "base" => d.event \in Events
      /\ CallsAreCurrent'
    BY <1>2, <1>6, <1>7, CallMade
<1>9. CarefulParts'
    BY <1>2, <1>4 DEF CarefulParts, DetailIsCurrent, FormIsCurrent, DragIsCurrent
<1>10. ScopeHasDrag'
    BY <1>1, <1>2, <1>8 DEF ScopeHasDrag, IsOpen
<1> QED BY <1>1, <1>2, <1>8, <1>9, <1>10, CallsChange

\* A write that goes on
LEMMA CallReplaced ==
    ASSUME CalendarInv, NEW c \in calls, NEW d \in EventWrites, d.kind = c.kind,
           d.careful = c.careful, c.event \in Events => d.event = c.event, d.phase # "base",
           c.careful => (d.phase \in {"contact", "sent"} => Holds(d)),
           Replace(c, d), UNCHANGED told
    PROVE  /\ calls' \subseteq EventWrites /\ CallsAreCurrent' /\ ~detail.careful
           /\ \A x \in calls' : x = d \/ x \in calls
           /\ \A x \in calls' : x.phase = "base" => x.event \in Events
           /\ editorForm.careful => \A x \in calls' : x.kind = "save" /\ x.event = editing
           /\ drag.careful => \A x \in calls' : x.kind = "move"
<1>1. CalendarTypeOK /\ HeldIsCurrent
    BY DEF CalendarInv
<1>2. calls' = (calls \ {c}) \cup {d} /\ calls \subseteq EventWrites
    BY <1>1 DEF Replace, CalendarTypeOK
<1>3. ~detail.careful
    BY <1>1 DEF HeldIsCurrent, DetailIsCurrent
<1>4. CallsAreCurrent'
    <2>1. ASSUME NEW x \in calls', x.careful
          PROVE  /\ calls' = {x} /\ x.event \in Events
                 /\ x.phase \in {"contact", "sent"} => Holds(x)
        <3>1. CASE x = d
            <4>1. calls = {c} /\ c.event \in Events
                BY <1>1, <2>1, <3>1 DEF HeldIsCurrent, CallsAreCurrent
            <4> QED BY <1>2, <2>1, <3>1, <4>1
        <3>2. CASE x # d
            <4>1. x \in calls /\ x # c
                BY <1>2, <2>1, <3>2
            <4> QED BY <1>1, <2>1, <4>1 DEF HeldIsCurrent, CallsAreCurrent
        <3> QED BY <3>1, <3>2
    <2> QED BY <2>1 DEF CallsAreCurrent, Holds
<1>5. \A x \in calls' : x.phase = "base" => x.event \in Events
    BY <1>1, <1>2 DEF HeldIsCurrent, ScopeHasDrag
<1>6. editorForm.careful => \A x \in calls' : x.kind = "save" /\ x.event = editing
    BY <1>1, <1>2 DEF HeldIsCurrent, FormIsCurrent, Holds
<1>7. drag.careful => \A x \in calls' : x.kind = "move"
    BY <1>1, <1>2 DEF HeldIsCurrent, DragIsCurrent
<1> QED BY <1>2, <1>3, <1>4, <1>5, <1>6, <1>7

\* A write that goes on without changing what the server has
LEMMA CallGoesOn ==
    ASSUME CalendarInv, NEW c \in calls, NEW d \in EventWrites, d.kind = c.kind,
           d.careful = c.careful, c.event \in Events => d.event = c.event,
           d.phase \in {"sent", "refused"}, c.careful => (d.phase = "sent" => Holds(d)),
           Replace(c, d), UNCHANGED <<agenda, linkedEvent, dialogs, schedule, told>>
    PROVE  CalendarInv'
<1>1. /\ calls' \subseteq EventWrites /\ CallsAreCurrent' /\ ~detail.careful
      /\ \A x \in calls' : x = d \/ x \in calls
      /\ \A x \in calls' : x.phase = "base" => x.event \in Events
      /\ editorForm.careful => \A x \in calls' : x.kind = "save" /\ x.event = editing
      /\ drag.careful => \A x \in calls' : x.kind = "move"
    BY CallReplaced
<1>2. UNCHANGED <<stack, detail, editing, editorForm, drag, deleteTarget>>
    BY DEF dialogs
<1>3. CarefulParts'
    BY <1>1, <1>2 DEF CalendarInv, HeldIsCurrent, CarefulParts, DetailIsCurrent, FormIsCurrent,
                      DragIsCurrent, Holds
<1>4. ScopeHasDrag'
    BY <1>1, <1>2 DEF CalendarInv, HeldIsCurrent, ScopeHasDrag, IsOpen
<1>5. \A x \in calls' : x.phase = "served" =>
          \E y \in calls : y.phase = "served" /\ y.event = x.event /\ y.as = x.as
    BY <1>1
<1>6. /\ stack \in Seq(Dialogs) /\ OpenFirst(stack) /\ editorForm \in Helds /\ drag \in Helds
    BY DialogsKnown
<1> QED BY <1>1, <1>2, <1>3, <1>4, <1>5, <1>6, CallsChange

LEMMA ContactServed ==
    ASSUME CalendarInv, NEW c \in calls, ServeContact(c) PROVE CalendarInv'
<1>1. PICK phase \in {"sent", "refused"} : Replace(c, [c EXCEPT !.phase = phase])
    BY DEF ServeContact
<1>2. /\ c \in EventWrites /\ c.phase = "contact"
      /\ UNCHANGED <<agenda, linkedEvent, dialogs, schedule, told>>
    BY DEF ServeContact, outside, CalendarInv, CalendarTypeOK
<1>3. ASSUME NEW d, d = [c EXCEPT !.phase = phase]
      PROVE  /\ d \in EventWrites /\ d.kind = c.kind /\ (d.careful = c.careful)
             /\ d.event = c.event /\ d.holds = c.holds /\ d.phase = phase
    BY <1>2, <1>3 DEF EventWrites, CallPhases
<1>4. c.careful => Holds(c)
    BY <1>2 DEF CalendarInv, HeldIsCurrent, CallsAreCurrent
<1> QED BY <1>1, <1>2, <1>3, <1>4, CallGoesOn DEF Holds

LEMMA BaseRead ==
    ASSUME CalendarInv, NEW c \in calls, ReadBase(c) PROVE CalendarInv'
<1> DEFINE d == IF schedule[c.event] = Gone THEN [c EXCEPT !.phase = "refused"]
                ELSE [c EXCEPT !.phase = "sent", !.holds = schedule[c.event]]
<1>1. /\ c \in EventWrites /\ c.phase = "base" /\ Replace(c, d)
      /\ UNCHANGED <<agenda, linkedEvent, dialogs, schedule, told>>
    BY DEF ReadBase, outside, CalendarInv, CalendarTypeOK
<1>2. c.event \in Events /\ schedule[c.event] \in Nat /\ told[c.event] <= schedule[c.event]
      /\ told[c.event] \in Nat
    BY <1>1 DEF CalendarInv, CalendarTypeOK, AgendaFollows, HeldIsCurrent, ScopeHasDrag,
                Editions
<1>3. /\ d \in EventWrites /\ d.kind = c.kind /\ (d.careful = c.careful) /\ d.event = c.event
      /\ d.phase \in {"sent", "refused"} /\ (d.phase = "sent" => d.holds = schedule[c.event])
    <2> DEFINE a == [c EXCEPT !.phase = "sent"]
    <2>1. a \in EventWrites /\ a.kind = c.kind /\ (a.careful = c.careful) /\ a.event = c.event
          /\ a.phase = "sent"
        BY <1>1 DEF EventWrites, CallPhases
    <2>2. [c EXCEPT !.phase = "sent", !.holds = schedule[c.event]]
          = [a EXCEPT !.holds = schedule[c.event]]
        OBVIOUS
    <2> HIDE DEF a
    <2>3. CASE schedule[c.event] = Gone
        BY <1>1, <2>3 DEF EventWrites, CallPhases
    <2>4. CASE schedule[c.event] # Gone
        BY <1>2, <2>1, <2>2, <2>4 DEF EventWrites
    <2> QED BY <2>3, <2>4
<1> HIDE DEF d
<1>4. d.phase = "sent" => Holds(d)
    BY <1>2, <1>3 DEF Holds
<1> QED BY <1>1, <1>3, <1>4, CallGoesOn

LEMMA CallServed ==
    ASSUME CalendarInv, NEW c \in calls, ServeCall(c) PROVE CalendarInv'
<1> DEFINE free == \E x \in Events : schedule[x] = 0
           e == IF c.event # NoEvent THEN c.event
                ELSE IF free THEN CHOOSE x \in Events : schedule[x] = 0 ELSE NoEvent
<1>1. CalendarTypeOK /\ AgendaFollows /\ LinkComesFirst /\ HeldIsCurrent
    BY DEF CalendarInv
<1>2. /\ c \in EventWrites /\ c.phase = "sent"
      /\ UNCHANGED <<agenda, linkedEvent, stack, detail, editing, drag, deleteTarget, told>>
    BY <1>1 DEF ServeCall, CalendarTypeOK
<1>3. e \in Events \cup {NoEvent} /\ (c.event \in Events => e = c.event)
    BY <1>2, CalendarData DEF EventWrites
<1>4. IF e # NoEvent /\ schedule[e] < MaxSequence
      THEN /\ schedule' = [schedule EXCEPT ![e] = IF c.kind = "delete" THEN Gone ELSE @ + 1]
           /\ Replace(c, [c EXCEPT !.phase = "served", !.event = e, !.as = schedule'[e]])
           /\ editorForm' = IF c.kind = "save" /\ editorForm.sent
                            THEN [editorForm EXCEPT !.holds = schedule'[e]] ELSE editorForm
      ELSE Replace(c, [c EXCEPT !.phase = "refused"]) /\ UNCHANGED <<schedule, editorForm>>
    BY DEF ServeCall
<1> HIDE DEF e
<1>5. CASE ~(e # NoEvent /\ schedule[e] < MaxSequence)
    <2> DEFINE d == [c EXCEPT !.phase = "refused"]
    <2>1. d \in EventWrites /\ d.kind = c.kind /\ (d.careful = c.careful) /\ d.event = c.event
          /\ d.phase = "refused"
        BY <1>2 DEF EventWrites, CallPhases
    <2>2. Replace(c, d) /\ UNCHANGED <<agenda, linkedEvent, dialogs, schedule, told>>
        BY <1>2, <1>4, <1>5 DEF dialogs
    <2> HIDE DEF d
    <2> QED BY <2>1, <2>2, CallGoesOn
<1>6. CASE e # NoEvent /\ schedule[e] < MaxSequence
    <2>1. e \in Events /\ schedule[e] \in Nat /\ schedule[e] < MaxSequence
          /\ \A x \in Events : schedule[x] \in Nat /\ told[x] \in Nat
        BY <1>1, <1>3, <1>6 DEF CalendarTypeOK, Editions
    <2> DEFINE n == IF c.kind = "delete" THEN Gone ELSE schedule[e] + 1
    <2>2. n \in Nat /\ schedule[e] <= n
        BY <2>1, CalendarData DEF Gone
    <2>3. schedule' = [schedule EXCEPT ![e] = n]
        BY <1>4, <1>6
    <2> HIDE DEF n
    <2>4. schedule' \in Editions /\ schedule'[e] = n
          /\ \A x \in Events : schedule[x] <= schedule'[x]
        BY <1>1, <2>1, <2>2, <2>3 DEF CalendarTypeOK, Editions
    <2> DEFINE a == [c EXCEPT !.phase = "served"]
               b == [a EXCEPT !.event = e]
               d == [b EXCEPT !.as = n]
    <2>5. Replace(c, d)
        BY <1>4, <1>6, <2>4
    <2>6. a \in EventWrites /\ a.kind = c.kind /\ (a.careful = c.careful) /\ a.phase = "served"
        BY <1>2 DEF EventWrites, CallPhases
    <2> HIDE DEF a
    <2>7. b \in EventWrites /\ b.kind = c.kind /\ (b.careful = c.careful) /\ b.phase = "served"
          /\ b.event = e
        BY <2>1, <2>6 DEF EventWrites
    <2> HIDE DEF b
    <2>8. d \in EventWrites /\ d.kind = c.kind /\ (d.careful = c.careful) /\ d.phase = "served"
          /\ d.event = e /\ d.as = n
        BY <2>2, <2>7 DEF EventWrites
    <2> HIDE DEF d
    <2>9. /\ calls' \subseteq EventWrites /\ CallsAreCurrent' /\ ~detail.careful
          /\ \A x \in calls' : x = d \/ x \in calls
          /\ \A x \in calls' : x.phase = "base" => x.event \in Events
          /\ editorForm.careful => \A x \in calls' : x.kind = "save" /\ x.event = editing
          /\ drag.careful => \A x \in calls' : x.kind = "move"
        BY <1>2, <1>3, <2>5, <2>8, CallReplaced
    <2>10. /\ editorForm' \in Helds /\ editorForm'.event = editorForm.event
           /\ (editorForm'.careful = editorForm.careful)
           /\ editorForm'.holds = editorForm.holds \/ editorForm'.holds = n
        <3>1. editorForm' = editorForm \/ editorForm' = [editorForm EXCEPT !.holds = n]
            BY <1>4, <1>6, <2>4
        <3> QED BY <1>1, <2>2, <3>1 DEF CalendarTypeOK, Helds
    <2>11. CalendarTypeOK'
        BY <1>1, <1>2, <2>4, <2>9, <2>10 DEF CalendarTypeOK
    <2>12. AgendaFollows'
        <3>1. ASSUME NEW x \in calls', x.phase = "served"
              PROVE  x.event \in Events /\ x.as <= schedule'[x.event]
            <4>1. CASE x = d
                BY <2>1, <2>2, <2>4, <2>8, <4>1
            <4>2. CASE x \in calls
                <5>1. x \in EventWrites /\ x.event \in Events /\ x.as <= schedule[x.event]
                    BY <1>1, <3>1, <4>2 DEF CalendarTypeOK, AgendaFollows
                <5>2. x.as \in Nat /\ schedule[x.event] \in Nat /\ schedule'[x.event] \in Nat
                    BY <2>1, <2>4, <5>1 DEF EventWrites, Editions
                <5> QED BY <2>4, <5>1, <5>2
            <4> QED BY <2>9, <4>1, <4>2
        <3>2. \A x \in Events : told'[x] <= schedule'[x]
            BY <1>1, <1>2, <2>1, <2>4 DEF AgendaFollows, Editions
        <3> QED BY <1>1, <1>2, <3>1, <3>2 DEF AgendaFollows
    <2>13. LinkComesFirst'
        BY <1>1, <1>2 DEF LinkComesFirst
    <2>14. ASSUME editorForm'.careful
           PROVE  /\ editorForm'.event \in Events /\ editorForm'.holds >= told'[editorForm'.event]
                  /\ stack' = <<"editor">>
                  /\ \A x \in calls' : x.kind = "save" /\ x.event = editing'
        <3>1. editorForm.careful
            BY <2>10, <2>14
        <3>2. /\ editorForm.event \in Events /\ editorForm.holds >= told[editorForm.event]
              /\ stack = <<"editor">> /\ c.event = editing /\ editorForm.event = editing
            BY <1>1, <3>1 DEF HeldIsCurrent, FormIsCurrent, Holds
        <3>3. e = editorForm.event
            BY <1>3, <3>2
        <3>4. n >= told[e]
            BY <1>1, <2>1, <2>2 DEF AgendaFollows
        <3> QED BY <1>2, <2>9, <2>10, <3>1, <3>2, <3>3, <3>4
    <2>15. FormIsCurrent' /\ DetailIsCurrent' /\ DragIsCurrent'
        <3>1. DetailIsCurrent'
            BY <1>2, <2>9 DEF DetailIsCurrent
        <3>2. DragIsCurrent'
            BY <1>1, <1>2, <2>9 DEF DragIsCurrent, HeldIsCurrent, Holds
        <3> QED BY <2>14, <3>1, <3>2 DEF FormIsCurrent, Holds
    <2>16. ScopeHasDrag'
        BY <1>1, <1>2, <2>9 DEF HeldIsCurrent, ScopeHasDrag, IsOpen
    <2>17. editorForm'.event = editing' /\ OpenFirst(stack)'
        BY <1>1, <1>2, <2>10 DEF HeldIsCurrent, OpenFirst
    <2> QED BY <2>9, <2>11, <2>12, <2>13, <2>15, <2>16, <2>17 DEF CalendarInv, HeldIsCurrent
<1> QED BY <1>5, <1>6

\* An answer: what was told, and a calendar that is fetched again
LEMMA CallAnswered ==
    ASSUME CalendarInv, NEW c \in calls, c.phase = "served", calls' = calls \ {c},
           NEW q \in Query(Editions), q.busy = agenda.busy, q.seen = agenda.seen,
           q.data = NoData <=> agenda.data = NoData, InvalidateCalendar(q), Tells(c),
           UNCHANGED <<detail, schedule>>
    PROVE  /\ AgendaFollows' /\ LinkComesFirst' /\ CallsAreCurrent' /\ DetailIsCurrent'
           /\ agenda' \in Query(Editions) /\ told' \in Editions /\ calls' \subseteq EventWrites
           /\ linkedEvent' = linkedEvent /\ \A x \in calls' : x.phase = "base" => x.event \in Events
           /\ editorForm.careful => c.kind = "save"
           /\ drag.careful => c.kind = "move"
<1>1. CalendarTypeOK /\ AgendaFollows /\ LinkComesFirst /\ HeldIsCurrent
    BY DEF CalendarInv
<1>2. agenda' = Restarted(q) /\ linkedEvent' = linkedEvent
    BY DEF InvalidateCalendar
<1>3. /\ agenda' \in Query(Editions) /\ agenda'.busy /\ agenda'.seen \in {agenda.seen, NoData}
      /\ ~(agenda.busy /\ agenda.data = NoData) => agenda'.seen = NoData
    <2>1. agenda' \in Query(Editions) /\ agenda'.busy /\ agenda'.seen \in {q.seen, NoData}
        BY <1>2, StartedQuery
    <2>2. ~(q.busy /\ q.data = NoData) => agenda'.seen = NoData
        BY <1>2 DEF Restarted, Started, Query
    <2> QED BY <2>1, <2>2
<1>4. /\ c.event \in Events /\ c.as \in Nat /\ c.as <= schedule[c.event]
      /\ \A e \in Events : schedule[e] \in Nat /\ told[e] \in Nat /\ told[e] <= schedule[e]
    BY <1>1 DEF CalendarTypeOK, AgendaFollows, EventWrites, Editions
<1>5. told' \in Editions /\ \A e \in Events : told'[e] <= schedule[e]
    <2>1. told' = told \/ told' = [told EXCEPT ![c.event] = c.as]
        <3>1. CASE c.as > told[c.event]
            BY <3>1 DEF Tells
        <3>2. CASE ~(c.as > told[c.event])
            BY <1>1, <1>4, <3>2 DEF Tells, CalendarTypeOK, Editions
        <3> QED BY <3>1, <3>2
    <2> QED BY <1>1, <1>4, <2>1 DEF CalendarTypeOK, Editions
<1>6. AgendaFollows'
    <2>1. \A x \in calls' : x.phase = "served" =>
            x.event \in Events /\ x.as <= schedule'[x.event]
        BY <1>1 DEF AgendaFollows
    <2>2. agenda'.seen # NoData => \A e \in Events : told'[e] <= agenda'.seen[e]
        <3>1. ASSUME agenda'.seen # NoData
              PROVE  agenda'.seen = agenda.seen /\ told' = told
            BY <1>3, <3>1 DEF Tells
        <3> QED BY <1>1, <3>1 DEF AgendaFollows
    <2>3. ~AtRest(agenda')
        BY <1>3 DEF AtRest
    <2> QED BY <1>5, <2>1, <2>2, <2>3 DEF AgendaFollows
<1>7. LinkComesFirst'
    BY <1>1, <1>2 DEF LinkComesFirst
<1>8. CallsAreCurrent'
    <2>1. ASSUME NEW x \in calls', x.careful PROVE FALSE
        <3>1. calls = {x}
            BY <1>1, <2>1 DEF HeldIsCurrent, CallsAreCurrent
        <3> QED BY <3>1
    <2> QED BY <2>1 DEF CallsAreCurrent
<1>9. ~detail.careful /\ (editorForm.careful => c.kind = "save")
      /\ (drag.careful => c.kind = "move")
    BY <1>1 DEF HeldIsCurrent, DetailIsCurrent, FormIsCurrent, DragIsCurrent
<1>10. DetailIsCurrent'
    BY <1>9 DEF DetailIsCurrent
<1>11. calls' \subseteq EventWrites /\ \A x \in calls' : x.phase = "base" => x.event \in Events
    BY <1>1 DEF CalendarTypeOK, HeldIsCurrent, ScopeHasDrag
<1> QED BY <1>2, <1>3, <1>5, <1>6, <1>7, <1>8, <1>9, <1>10, <1>11

\* The invariant after an answer, from what the answer does to the dialogs
LEMMA AnswerTaken ==
    ASSUME CalendarInv, AgendaFollows', LinkComesFirst', CallsAreCurrent', CarefulParts',
           agenda' \in Query(Editions), told' \in Editions, calls' \subseteq EventWrites,
           UNCHANGED <<linkedEvent, detail, schedule>>,
           \A x \in calls' : x.phase = "base" => x.event \in Events,
           stack' \in Seq(Dialogs), OpenFirst(stack'), editorForm' \in Helds, drag' \in Helds,
           editing' \in Events \cup {NoEvent}, deleteTarget' \in Events \cup {NoEvent},
           editorForm'.event = editing', IsOpen("scope")' => drag'.event \in Events
    PROVE  CalendarInv'
<1>1. CalendarTypeOK'
    BY DEF CalendarInv, CalendarTypeOK
<1>2. ScopeHasDrag' /\ OpenFirst(stack)'
    BY DEF ScopeHasDrag, OpenFirst
<1> QED BY <1>1, <1>2 DEF CalendarInv, HeldIsCurrent, CarefulParts

LEMMA SaveAnswered ==
    ASSUME CalendarInv, NEW c \in calls, EventSaved(c) PROVE CalendarInv'
<1>1. /\ stack \in Seq(Dialogs) /\ OpenFirst(stack) /\ drag \in Helds /\ CarefulParts
      /\ deleteTarget \in Events \cup {NoEvent} /\ (IsOpen("scope") => drag.event \in Events)
    BY DialogsKnown
<1>2. /\ c.kind = "save" /\ c.phase = "served" /\ calls' = calls \ {c} /\ CloseDialog("editor")
      /\ editing' = NoEvent /\ editorForm' = NoHeld /\ InvalidateCalendar(agenda) /\ Tells(c)
      /\ UNCHANGED <<detail, drag, deleteTarget, schedule>>
    BY DEF EventSaved
<1>3. agenda \in Query(Editions)
    BY DEF CalendarInv, CalendarTypeOK
<1>4. /\ AgendaFollows' /\ LinkComesFirst' /\ CallsAreCurrent' /\ DetailIsCurrent'
      /\ agenda' \in Query(Editions) /\ told' \in Editions /\ calls' \subseteq EventWrites
      /\ linkedEvent' = linkedEvent /\ \A x \in calls' : x.phase = "base" => x.event \in Events
      /\ drag.careful => c.kind = "move"
    BY <1>2, <1>3, CallAnswered
<1>5. stack' \in Seq(Dialogs) /\ OpenFirst(stack') /\ (IsOpen("scope")' => IsOpen("scope"))
    <2>1. "editor" \in Dialogs
        BY DEF Dialogs
    <2> QED BY <1>1, <1>2, <2>1, Closed
<1>6. CarefulParts'
    BY <1>2, <1>4, CalendarData DEF CarefulParts, FormIsCurrent, DragIsCurrent
<1> QED BY <1>1, <1>2, <1>4, <1>5, <1>6, CalendarData, AnswerTaken

LEMMA MoveAnswered ==
    ASSUME CalendarInv, NEW c \in calls, EventMoved(c) PROVE CalendarInv'
<1>1. /\ stack \in Seq(Dialogs) /\ OpenFirst(stack) /\ editorForm \in Helds /\ CarefulParts
      /\ editing \in Events \cup {NoEvent} /\ deleteTarget \in Events \cup {NoEvent}
      /\ editorForm.event = editing
    BY DialogsKnown
<1> DEFINE moved == [agenda EXCEPT !.data[c.event] = IF @ = c.holds THEN c.as ELSE @]
           q == IF c.event \in Singles /\ agenda.data # NoData THEN moved ELSE agenda
<1>2. /\ c.kind = "move" /\ c.phase = "served" /\ calls' = calls \ {c} /\ CloseDialog("scope")
      /\ drag' = NoHeld /\ InvalidateCalendar(q) /\ Tells(c)
      /\ UNCHANGED <<detail, editing, editorForm, deleteTarget, schedule>>
    BY DEF EventMoved
<1>3. /\ agenda \in Query(Editions) /\ c \in EventWrites /\ c.event \in Events
    BY <1>2 DEF CalendarInv, CalendarTypeOK, AgendaFollows
<1>4. /\ q \in Query(Editions) /\ q.busy = agenda.busy /\ q.seen = agenda.seen
      /\ q.data = NoData <=> agenda.data = NoData
    <2>1. CASE agenda.data # NoData
        <3> DEFINE was == agenda.data[c.event]
                   now == IF was = c.holds THEN c.as ELSE was
                   data == [agenda.data EXCEPT ![c.event] = now]
        <3>1. agenda.data \in Editions /\ now \in Nat
            BY <1>3, <2>1 DEF Query, Editions, EventWrites
        <3>2. moved = [agenda EXCEPT !.data = data]
            BY <1>3 DEF Query
        <3> HIDE DEF now
        <3>3. data \in Editions
            BY <3>1 DEF Editions
        <3> HIDE DEF data
        <3>4. [agenda EXCEPT !.data = data] \in Query(Editions)
            BY <1>3, <3>3 DEF Query
        <3>5. /\ [agenda EXCEPT !.data = data].busy = agenda.busy
              /\ [agenda EXCEPT !.data = data].seen = agenda.seen
              /\ [agenda EXCEPT !.data = data].data = data
            BY <1>3 DEF Query
        <3>6. data # NoData
            BY <3>3, CalendarAssumption DEF Editions
        <3> QED BY <1>3, <2>1, <3>2, <3>4, <3>5, <3>6
    <2>2. CASE agenda.data = NoData
        BY <1>3, <2>2
    <2> QED BY <2>1, <2>2
<1> HIDE DEF q
<1>5. /\ AgendaFollows' /\ LinkComesFirst' /\ CallsAreCurrent' /\ DetailIsCurrent'
      /\ agenda' \in Query(Editions) /\ told' \in Editions /\ calls' \subseteq EventWrites
      /\ linkedEvent' = linkedEvent /\ \A x \in calls' : x.phase = "base" => x.event \in Events
      /\ editorForm.careful => c.kind = "save"
    BY <1>2, <1>4, CallAnswered
<1>6. stack' \in Seq(Dialogs) /\ OpenFirst(stack') /\ ~IsOpen("scope")'
    <2>1. "scope" \in Dialogs
        BY DEF Dialogs
    <2> QED BY <1>1, <1>2, <2>1, Closed
<1>7. CarefulParts'
    BY <1>2, <1>5, CalendarData DEF CarefulParts, FormIsCurrent, DragIsCurrent
<1> QED BY <1>1, <1>2, <1>5, <1>6, <1>7, CalendarData, AnswerTaken

LEMMA DeletionAnswered ==
    ASSUME CalendarInv, NEW c \in calls, EventDeleted(c) PROVE CalendarInv'
<1>1. /\ stack \in Seq(Dialogs) /\ OpenFirst(stack) /\ editorForm \in Helds /\ drag \in Helds
      /\ CarefulParts /\ editing \in Events \cup {NoEvent} /\ editorForm.event = editing
      /\ (IsOpen("scope") => drag.event \in Events)
    BY DialogsKnown
<1>2. /\ c.kind = "delete" /\ c.phase = "served" /\ calls' = calls \ {c}
      /\ CloseDialog("delete") /\ deleteTarget' = NoEvent /\ InvalidateCalendar(agenda) /\ Tells(c)
      /\ UNCHANGED <<detail, editing, editorForm, drag, schedule>>
    BY DEF EventDeleted
<1>3. agenda \in Query(Editions)
    BY DEF CalendarInv, CalendarTypeOK
<1>4. /\ AgendaFollows' /\ LinkComesFirst' /\ CallsAreCurrent' /\ DetailIsCurrent'
      /\ agenda' \in Query(Editions) /\ told' \in Editions /\ calls' \subseteq EventWrites
      /\ linkedEvent' = linkedEvent /\ \A x \in calls' : x.phase = "base" => x.event \in Events
      /\ (editorForm.careful => c.kind = "save") /\ (drag.careful => c.kind = "move")
    BY <1>2, <1>3, CallAnswered
<1>5. stack' \in Seq(Dialogs) /\ OpenFirst(stack') /\ (IsOpen("scope")' => IsOpen("scope"))
    <2>1. "delete" \in Dialogs
        BY DEF Dialogs
    <2> QED BY <1>1, <1>2, <2>1, Closed
<1>6. CarefulParts'
    BY <1>2, <1>4 DEF CarefulParts, FormIsCurrent, DragIsCurrent
<1> QED BY <1>1, <1>2, <1>4, <1>5, <1>6, AnswerTaken

\* A write that is refused, or whose answer is lost
LEMMA CallLost ==
    ASSUME CalendarInv, NEW c \in calls, CallFails(c) PROVE CalendarInv'
<1>1. /\ stack \in Seq(Dialogs) /\ OpenFirst(stack) /\ CarefulParts
      /\ editorForm \in Helds /\ drag \in Helds /\ (IsOpen("scope") => drag.event \in Events)
    BY DialogsKnown
<1>2. /\ calls' = calls \ {c}
      /\ IF c.kind = "move" THEN drag' = NoHeld /\ CloseDialog("scope")
         ELSE UNCHANGED <<drag, stack>>
      /\ editorForm' = IF c.kind = "save" THEN [editorForm EXCEPT !.sent = FALSE]
                       ELSE editorForm
      /\ UNCHANGED <<agenda, linkedEvent, detail, editing, deleteTarget, schedule, told>>
    BY DEF CallFails, outside
<1>3. CalendarTypeOK /\ HeldIsCurrent
    BY DEF CalendarInv
<1>4. ~detail.careful /\ (editorForm.careful => c.kind = "save")
    BY <1>3 DEF HeldIsCurrent, DetailIsCurrent, FormIsCurrent
<1>5. /\ editorForm' \in Helds /\ editorForm'.event = editorForm.event
      /\ editorForm'.holds = editorForm.holds /\ (editorForm'.careful = editorForm.careful)
    BY <1>1, <1>2 DEF Helds
<1>6. /\ stack' \in Seq(Dialogs) /\ OpenFirst(stack') /\ drag' \in Helds
      /\ IsOpen("scope")' => drag'.event \in Events
    <2>1. CASE c.kind = "move"
        <3>1. "scope" \in Dialogs
            BY DEF Dialogs
        <3> QED BY <1>1, <1>2, <2>1, <3>1, Closed, CalendarData
    <2>2. CASE c.kind # "move"
        BY <1>1, <1>2, <2>2 DEF IsOpen
    <2> QED BY <2>1, <2>2
<1>7. calls' \subseteq EventWrites /\ \A x \in calls' : x \in calls
    BY <1>2, <1>3 DEF CalendarTypeOK
<1>8. CallsAreCurrent'
    <2>1. ASSUME NEW x \in calls', x.careful PROVE FALSE
        <3>1. calls = {x}
            BY <1>3, <1>7, <2>1 DEF HeldIsCurrent, CallsAreCurrent
        <3> QED BY <1>2, <3>1
    <2> QED BY <2>1 DEF CallsAreCurrent
<1>9. FormIsCurrent'
    <2>1. ASSUME editorForm'.careful
          PROVE  /\ editorForm'.event \in Events /\ editorForm'.holds >= told'[editorForm'.event]
                 /\ stack' = <<"editor">>
                 /\ \A x \in calls' : x.kind = "save" /\ x.event = editing'
        <3>1. editorForm.careful /\ c.kind = "save" /\ stack' = stack
            BY <1>2, <1>4, <1>5, <2>1
        <3> QED BY <1>1, <1>2, <1>5, <1>7, <3>1 DEF CarefulParts, FormIsCurrent, Holds
    <2> QED BY <2>1 DEF FormIsCurrent, Holds
<1>10. DetailIsCurrent' /\ DragIsCurrent'
    <2>1. DetailIsCurrent'
        BY <1>2, <1>4 DEF DetailIsCurrent
    <2>2. DragIsCurrent'
        BY <1>1, <1>2, <1>7, CalendarData DEF CarefulParts, DragIsCurrent, Holds
    <2> QED BY <2>1, <2>2
<1>11. ScopeHasDrag'
    BY <1>3, <1>6, <1>7 DEF HeldIsCurrent, ScopeHasDrag
<1>12. CarefulParts'
    BY <1>9, <1>10 DEF CarefulParts
<1> QED BY <1>2, <1>5, <1>6, <1>7, <1>8, <1>11, <1>12, CallsChange

-----------------------------------------------------------------------------
LEMMA CalendarInitially == CalendarInit => CalendarInv
<1> SUFFICES ASSUME CalendarInit PROVE CalendarInv
    OBVIOUS
<1>1. /\ agenda = Started(Blank)
      /\ linkedEvent \in {NoLink} \cup [event : Links, seen : {NoData}]
      /\ stack = <<>> /\ detail = NoHeld /\ editing = NoEvent /\ editorForm = NoHeld
      /\ drag = NoHeld /\ deleteTarget = NoEvent /\ calls = {}
      /\ schedule = [e \in Events |-> IF e \in Unborn THEN 0 ELSE 1]
      /\ told = [e \in Events |-> 0]
    BY DEF CalendarInit
<1>2. agenda \in Query(Editions) /\ agenda.seen = NoData /\ agenda.busy
    BY <1>1 DEF Started, Blank, Query
<1>3. /\ linkedEvent \in [event : Events \cup {NoEvent}, seen : Nat \cup {NoData}]
      /\ linkedEvent.event = NoEvent => linkedEvent.seen = NoData
    BY <1>1, CalendarData DEF NoLink
<1>4. stack \in Seq(Dialogs) /\ OpenFirst(stack) /\ ~IsOpen("scope")
    BY <1>1 DEF OpenFirst, IsOpen
<1>5. schedule \in Editions /\ told \in Editions /\ \A e \in Events : told[e] <= schedule[e]
    BY <1>1 DEF Editions
<1>6. CalendarTypeOK
    BY <1>1, <1>2, <1>3, <1>4, <1>5, CalendarData DEF CalendarTypeOK
<1>7. AgendaFollows /\ LinkComesFirst
    BY <1>1, <1>2, <1>5 DEF AgendaFollows, LinkComesFirst, AtRest
<1>8. CarefulParts /\ CallsAreCurrent /\ ScopeHasDrag /\ editorForm.event = editing
    BY <1>1, <1>4, CalendarData
    DEF CarefulParts, DetailIsCurrent, FormIsCurrent, DragIsCurrent, CallsAreCurrent, ScopeHasDrag
<1> QED BY <1>4, <1>6, <1>7, <1>8 DEF CalendarInv, HeldIsCurrent, CarefulParts

LEMMA CalendarInductive == CalendarInv /\ [CalendarNext]_calendarVars => CalendarInv'
<1> SUFFICES ASSUME CalendarInv, [CalendarNext]_calendarVars PROVE CalendarInv'
    OBVIOUS
<1>1. CASE RefetchAgenda \/ ReadAgenda \/ AnswerAgenda \/ AgendaFails
    BY <1>1, AgendaSteps
<1>2. CASE ReadLink \/ LinkFails
    BY <1>2, LinkReads
<1>3. CASE ShowLink
    BY <1>3, LinkShows
<1>4. CASE OpenDay \/ OpenNew \/ \E e \in Events : OpenEventDetail(e)
    BY <1>4, DialogsOpen
<1>5. CASE OpenEventEdit
    BY <1>5, EditorOpens
<1>6. CASE OpenEventDelete
    BY <1>6, DeleteOpens
<1>7. CASE CloseFront
    BY <1>7, FrontCloses
<1>8. CASE \E e \in Events : DropEvent(e)
    BY <1>8, DragSends
<1>9. CASE SaveEvent
    BY <1>9, EditorSaves
<1>10. CASE ConfirmScope
    BY <1>10, ScopeSends
<1>11. CASE DeleteEvent
    BY <1>11, DeletionSends
<1>12. ASSUME NEW c \in calls,
              \/ ServeContact(c) \/ ReadBase(c) \/ ServeCall(c)
              \/ EventSaved(c) \/ EventMoved(c) \/ EventDeleted(c) \/ CallFails(c)
       PROVE  CalendarInv'
    <2>1. CASE ServeContact(c)
        BY <2>1, ContactServed
    <2>2. CASE ReadBase(c)
        BY <2>2, BaseRead
    <2>3. CASE ServeCall(c)
        BY <2>3, CallServed
    <2>4. CASE EventSaved(c)
        BY <2>4, SaveAnswered
    <2>5. CASE EventMoved(c)
        BY <2>5, MoveAnswered
    <2>6. CASE EventDeleted(c)
        BY <2>6, DeletionAnswered
    <2>7. CASE CallFails(c)
        BY <2>7, CallLost
    <2> QED BY <1>12, <2>1, <2>2, <2>3, <2>4, <2>5, <2>6, <2>7
<1>13. CASE UNCHANGED calendarVars
    <2>1. UNCHANGED <<agenda, linkedEvent, stack, detail, editing, editorForm, drag,
                      deleteTarget, calls, schedule, told>>
        BY <1>13 DEF calendarVars
    <2>2. CalendarTypeOK' /\ AgendaFollows' /\ LinkComesFirst'
        BY <2>1 DEF CalendarInv, CalendarTypeOK, AgendaFollows, LinkComesFirst
    <2>3. HeldIsCurrent'
        BY <2>1, DialogsRest DEF CalendarInv, dialogs
    <2> QED BY <2>2, <2>3 DEF CalendarInv
<1> QED BY <1>1, <1>2, <1>3, <1>4, <1>5, <1>6, <1>7, <1>8, <1>9, <1>10, <1>11, <1>12, <1>13
        DEF CalendarNext

\* The editor saves the event it shows, and what is saved of an event that was
\* opened or dragged while nothing was under way holds every earlier own write
\* of it: no move takes an edit back, and no edit a move.
THEOREM CalendarWritesStayCurrent == CalendarSpec => []CalendarWritesAreCurrent
<1>1. CalendarInv => CalendarWritesAreCurrent
    <2> SUFFICES ASSUME CalendarInv PROVE CalendarWritesAreCurrent
        OBVIOUS
    <2>1. /\ editorForm.event = editing
          /\ DetailIsCurrent /\ FormIsCurrent /\ DragIsCurrent /\ CallsAreCurrent
        BY DEF CalendarInv, HeldIsCurrent
    <2> QED BY <2>1
        DEF CalendarWritesAreCurrent, FormIsCurrent, DragIsCurrent, CallsAreCurrent, Holds
<1> QED BY <1>1, CalendarInitially, CalendarInductive, PTL DEF CalendarSpec

-----------------------------------------------------------------------------
(* ClientConversions                                                       *)

\* A wall time is refused only when the clocks of the timezone skip it, and
\* otherwise becomes an instant that shows it: for every timezone with one
\* change of its offset, in either direction and of any size.
THEOREM WallTimesAreFound ==
    ASSUME NEW z, z.before \in Int, z.after \in Int, z.at \in Int, NEW wall \in Int
    PROVE  /\ \A instant \in ZonedDateTimeToISO(z, wall) :
                instant \in Int /\ WallTime(z, instant) = wall
           /\ ZonedDateTimeToISO(z, wall) = {} =>
                \A instant \in Int : WallTime(z, instant) # wall
<1> DEFINE first == Corrected(z, wall, wall)
           second == Corrected(z, wall, first)
<1>1. \A c \in Int : Corrected(z, wall, c) \in Int /\ Corrected(z, wall, c) = wall - Offset(z, c)
    BY DEF Corrected, WallTime, Offset
<1>2. /\ first \in Int /\ first = wall - Offset(z, wall)
      /\ second \in Int /\ second = wall - Offset(z, first)
    BY <1>1
<1>3. ZonedDateTimeToISO(z, wall) = {instant \in {second} : WallTime(z, instant) = wall}
    BY DEF ZonedDateTimeToISO
<1> HIDE DEF first, second
<1>4. ASSUME NEW instant \in Int, WallTime(z, instant) = wall
      PROVE  WallTime(z, second) = wall
    BY <1>2, <1>4 DEF WallTime, Offset
<1> QED BY <1>2, <1>3, <1>4

LEMMA DayOfWall ==
    ASSUME NEW w \in Int, NEW d \in Int
    PROVE  /\ (w \div HalfHours) \in Int
           /\ w < (w \div HalfHours + 1) * HalfHours
           /\ w < (d + 1) * HalfHours => w \div HalfHours <= d
           /\ w = d * HalfHours => w \div HalfHours = d
BY DEF HalfHours

\* What the settings count down to is when the business date changes, for every
\* timezone with one change of its offset and every instant, unless that
\* midnight is an hour the clocks repeat: the code then takes one of the two.
THEOREM BoundariesAreMet ==
    ASSUME NEW z, z.before \in Int, z.after \in Int, z.at \in Int, NEW instant \in Int,
           NEW midnight, midnight = (BusinessDate(z, instant) + 1) * HalfHours,
           NEW boundary \in NextBoundary(z, instant)
    PROVE  /\ BusinessDate(z, boundary) = BusinessDate(z, instant) + 1
           /\ ~Repeats(z, midnight) =>
                instant < boundary /\ BusinessDate(z, boundary - 1) <= BusinessDate(z, instant)
<1> DEFINE d == BusinessDate(z, instant)
<1>1. \A i \in Int : WallTime(z, i) \in Int /\ WallTime(z, i) = i + Offset(z, i)
    BY DEF WallTime, Offset
<1>2. \A i \in Int : BusinessDate(z, i) = WallTime(z, i) \div HalfHours
    BY DEF BusinessDate
<1>3. d \in Int /\ WallTime(z, instant) < (d + 1) * HalfHours
    BY <1>1, <1>2, DayOfWall
<1>4. (d + 1) * HalfHours \in Int /\ midnight = (d + 1) * HalfHours
    BY <1>3 DEF HalfHours
<1>5. boundary \in Int /\ WallTime(z, boundary) = midnight
    BY <1>4, WallTimesAreFound DEF NextBoundary
<1> HIDE DEF d
<1>6. BusinessDate(z, boundary) = d + 1
    BY <1>1, <1>2, <1>3, <1>4, <1>5, DayOfWall
<1>7. ASSUME ~Repeats(z, midnight) PROVE instant < boundary /\ BusinessDate(z, boundary - 1) <= d
    <2>1. \A x \in Int, y \in Int : WallTime(z, x) = midnight /\ WallTime(z, y) = midnight => x = y
        BY <1>4, <1>7 DEF WallTime, Offset, Repeats
    <2>2. instant < boundary
        <3>1. SUFFICES ASSUME boundary <= instant PROVE FALSE
            BY <1>5
        <3>2. boundary < z.at /\ z.at <= instant /\ z.after < z.before
            BY <1>3, <1>4, <1>5, <3>1 DEF WallTime, Offset
        <3>3. midnight - z.after \in Int /\ midnight - z.after > instant
            BY <1>3, <1>4, <3>2 DEF WallTime, Offset
        <3>4. WallTime(z, midnight - z.after) = midnight
            BY <1>4, <3>2, <3>3 DEF WallTime, Offset
        <3> QED BY <1>5, <2>1, <3>1, <3>3, <3>4
    <2>3. WallTime(z, boundary - 1) < midnight
        <3>1. SUFFICES ASSUME WallTime(z, boundary - 1) >= midnight PROVE FALSE
            BY <1>1, <1>4, <1>5
        <3>2. boundary = z.at /\ z.after < z.before
            BY <1>5, <3>1 DEF WallTime, Offset
        <3>3. midnight - z.before \in Int /\ midnight - z.before < boundary
            BY <1>4, <1>5, <3>2 DEF WallTime, Offset
        <3>4. WallTime(z, midnight - z.before) = midnight
            BY <1>4, <3>2, <3>3 DEF WallTime, Offset
        <3> QED BY <1>5, <2>1, <3>3, <3>4
    <2> QED BY <1>1, <1>2, <1>3, <1>4, <1>5, <2>2, <2>3, DayOfWall
<1> QED BY <1>6, <1>7 DEF d

\* A PV and the net amount that is computed from it determine each other, for
\* every PV.
THEOREM AmountsRoundTrip ==
    ASSUME NEW pv \in Nat
    PROVE  /\ PVOfCents(NetAmountFromPV(pv)) = DecimalHundredths(pv)
           /\ PVAndNetAmountMatch(pv, 10 * NetAmountFromPV(pv))
<1> DEFINE h == DecimalHundredths(pv)
           n == NetAmountFromPV(pv)
<1>1. h \in Nat
    BY DEF DecimalHundredths
<1>2. n = (h * 25 + 1) \div 2
    BY DEF NetAmountFromPV
<1> HIDE DEF h, n
<1>3. n \in Nat /\ (n * 2 = h * 25 \/ n * 2 = h * 25 + 1)
    BY <1>1, <1>2
<1>4. PVOfCents(n) = h
    BY <1>1, <1>3 DEF PVOfCents
<1>5. DecimalHundredths(10 * n) = n
    BY <1>3 DEF DecimalHundredths
<1> QED BY <1>4, <1>5 DEF PVAndNetAmountMatch, h, n

\* Weeks begin on Mondays.
LEMMA MondayFound ==
    ASSUME NEW day \in Int
    PROVE  /\ Monday(day) \in Int /\ Monday(day) <= day /\ day <= Monday(day) + 6
           /\ Weekday(Monday(day)) = 1
           /\ \A x \in Int : Monday(day) <= x /\ x <= Monday(day) + 6 => Monday(x) = Monday(day)
           /\ Monday(Monday(day) + 7) = Monday(day) + 7
<1>1. PICK q \in Int, r \in 0..6 : day = 7 * q + r - 3 
    <2>1. day + 3 = 7 * ((day + 3) \div 7) + ((day + 3) % 7)
        OBVIOUS
    <2> QED BY <2>1
<1>2. ASSUME NEW p \in Int, NEW s \in 0..6 PROVE Monday(7 * p + s - 3) = 7 * p - 3
    BY DEF Monday, Weekday
<1>3. Monday(day) = 7 * q - 3
    BY <1>1, <1>2
<1>4. Weekday(7 * q - 3) = 1
    BY DEF Weekday
<1>5. ASSUME NEW x \in Int, 7 * q - 3 <= x, x <= 7 * q - 3 + 6 PROVE Monday(x) = 7 * q - 3
    <2>1. x - 7 * q + 3 \in 0..6 /\ 7 * q + (x - 7 * q + 3) - 3 = x
        BY <1>5
    <2> QED BY <1>2, <2>1
<1>6. Monday(7 * q - 3 + 7) = 7 * q - 3 + 7
    <2>1. (7 * q - 3 + 7 + 4) % 7 = 1
        OBVIOUS
    <2> QED BY <2>1 DEF Monday, Weekday
<1> QED BY <1>1, <1>3, <1>4, <1>5, <1>6

\* The last day of a year, and of a business year.
LEMMA LastDays ==
    ASSUME NEW y \in Int
    PROVE  /\ DateUTC(y, 11, 31) = FirstOf(y + 1, 0) - 1
           /\ DateUTC(y, 7, 31) = FirstOf(y, 8) - 1
<1>1. /\ DaysBefore(y, 7) + 31 = DaysBefore(y, 8)
      /\ NewYear(y) + DaysBefore(y, 11) + 31 = NewYear(y + 1)
    BY MonthsFill
<1>2. /\ NewYear(y) \in Int /\ DaysBefore(y, 7) \in Int /\ DaysBefore(y, 8) \in Int
      /\ DaysBefore(y, 11) \in Int /\ NewYear(y + 1) \in Int
    BY FirstDays, y + 1 \in Int
<1>3. ASSUME NEW n \in 0..11, NEW d \in Int
      PROVE  DateUTC(y, n, d) = NewYear(y) + DaysBefore(y, n) + d - 1
    <2>1. y + (n \div 12) = y /\ n % 12 = n
        OBVIOUS
    <2> QED BY <2>1 DEF DateUTC, NewYear
<1>4. FirstOf(y + 1, 0) = NewYear(y + 1)
    BY YearsFollow, y + 1 \in Int
<1>5. DateUTC(y, 11, 31) = NewYear(y) + DaysBefore(y, 11) + 31 - 1
    BY <1>3
<1>6. /\ DateUTC(y, 7, 31) = NewYear(y) + DaysBefore(y, 7) + 31 - 1
      /\ FirstOf(y, 8) = NewYear(y) + DaysBefore(y, 8) + 1 - 1
    BY <1>3 DEF FirstOf
<1> QED BY <1>1, <1>2, <1>4, <1>5, <1>6

\* Which days a range of a preset has, and that its days have the same one.
LEMMA RangesAreMonths ==
    ASSUME NEW day \in Int, NEW preset \in Presets
    PROVE  LET r == BusinessRange(preset, day)
           IN /\ r.from \in Int /\ r.to \in Int /\ r.from <= day /\ day <= r.to
              /\ BusinessRange(preset, r.to + 1).from = r.to + 1
              /\ BusinessRange(preset, r.from).to = r.to
              /\ preset = "fiscalYear" => MonthOf(r.from) = 8
              /\ preset = "week" => Weekday(r.from) = 1
<1> DEFINE y == YearOf(day)
           m == MonthOf(day)
           r == BusinessRange(preset, day)
<1>1. /\ y \in Int /\ m \in 0..11 /\ m + 1 \in Int
      /\ FirstOf(y, m) <= day /\ day < FirstOf(y, m + 1)
    BY MonthFound
<1>2. \A x \in Int, n \in Int : FirstOf(x, n) \in Int
    BY MonthsFollow
<1>3. \A x \in Int, n \in Int : FirstOf(x, n) + 28 <= FirstOf(x, n + 1)
    BY MonthsFollow
<1>4. \A x \in Int : FirstOf(x, 12) = FirstOf(x + 1, 0)
    <2>1. ASSUME NEW x \in Int PROVE FirstOf(x, 0 + 12) = FirstOf(x + 1, 0)
        BY MonthsFollow
    <2> QED BY <2>1
<1>5. \A x \in Int, n \in Int, d \in Int : DateUTC(x, n, d) = FirstOf(x, n) + d - 1
    BY MonthsFollow
<1>6. \A x \in Int, n \in 0..11, d \in Int :
        FirstOf(x, n) <= d /\ d < FirstOf(x, n + 1) => YearOf(d) = x /\ MonthOf(d) = n
    BY MonthFound
<1>7. ASSUME NEW x \in Int, NEW n \in 0..11
      PROVE  YearOf(FirstOf(x, n)) = x /\ MonthOf(FirstOf(x, n)) = n
    <2>1. n \in Int /\ n + 1 \in Int
        OBVIOUS
    <2>2. FirstOf(x, n) \in Int /\ FirstOf(x, n + 1) \in Int
        BY <1>2, <2>1
    <2>3. FirstOf(x, n) + 28 <= FirstOf(x, n + 1)
        BY <1>3, <2>1
    <2> QED BY <1>6, <2>2, <2>3
<1> HIDE DEF y, m
<1>8. CASE preset = "week"
    <2>1. \A d \in Int : BusinessRange("week", d) = Dates(Monday(d), Monday(d) + 6, "day")
        BY DEF BusinessRange
    <2>2. r.from = Monday(day) /\ r.to = Monday(day) + 6
        BY <1>8, <2>1 DEF Dates
    <2>3. /\ Monday(day) \in Int /\ Monday(day) <= day /\ day <= Monday(day) + 6 /\ Weekday(Monday(day)) = 1
          /\ Monday(Monday(day)) = Monday(day) /\ Monday(Monday(day) + 7) = Monday(day) + 7
        <3>1. /\ Monday(day) \in Int /\ Monday(day) <= day /\ day <= Monday(day) + 6 /\ Weekday(Monday(day)) = 1
              /\ \A x \in Int : Monday(day) <= x /\ x <= Monday(day) + 6 => Monday(x) = Monday(day)
              /\ Monday(Monday(day) + 7) = Monday(day) + 7
            BY MondayFound
        <3> QED BY <3>1
    <2> HIDE DEF r
    <2>4. r.to + 1 = Monday(day) + 7 /\ r.to + 1 \in Int /\ r.from \in Int
        BY <2>2, <2>3
    <2>5. BusinessRange("week", r.to + 1).from = r.to + 1
        BY <2>1, <2>3, <2>4 DEF Dates
    <2>6. BusinessRange("week", r.from).to = r.to
        BY <2>1, <2>2, <2>3, <2>4 DEF Dates
    <2> QED BY <1>8, <2>2, <2>3, <2>5, <2>6 DEF r
<1>9. CASE preset = "month"
    <2>1. \A d \in Int : BusinessRange("month", d)
            = Dates(DateUTC(YearOf(d), MonthOf(d), 1), DateUTC(YearOf(d), MonthOf(d) + 1, 0), "day")
        BY DEF BusinessRange
    <2>2. r.from = FirstOf(y, m) /\ r.to = FirstOf(y, m + 1) - 1
        <3>1. r = Dates(DateUTC(y, m, 1), DateUTC(y, m + 1, 0), "day")
            BY <1>9, <2>1 DEF y, m
        <3>2. DateUTC(y, m, 1) = FirstOf(y, m)
            BY DEF FirstOf
        <3>3. DateUTC(y, m + 1, 0) = FirstOf(y, m + 1) + 0 - 1 /\ FirstOf(y, m + 1) \in Int
            BY <1>1, <1>2, <1>5
        <3> QED BY <3>1, <3>2, <3>3 DEF Dates
    <2>3. FirstOf(y, m) \in Int /\ FirstOf(y, m + 1) \in Int /\ FirstOf(y, m) + 28 <= FirstOf(y, m + 1)
        BY <1>1, <1>2, <1>3
    <2> HIDE DEF r
    <2>4. r.from \in Int /\ YearOf(r.from) = y /\ MonthOf(r.from) = m
        <3>1. r.from \in Int /\ FirstOf(y, m) <= r.from /\ r.from < FirstOf(y, m + 1)
            BY <2>2, <2>3
        <3> QED BY <1>1, <1>6, <3>1
    <2>5. BusinessRange("month", r.from).to = r.to
        <3>1. BusinessRange("month", r.from) = Dates(DateUTC(y, m, 1), DateUTC(y, m + 1, 0), "day")
            BY <2>1, <2>4
        <3>2. DateUTC(y, m + 1, 0) = FirstOf(y, m + 1) + 0 - 1
            BY <1>1, <1>5
        <3> QED BY <2>2, <2>3, <3>1, <3>2 DEF Dates
    <2>6. r.to + 1 \in Int /\ FirstOf(YearOf(r.to + 1), MonthOf(r.to + 1)) = r.to + 1
        <3>1. r.to + 1 = FirstOf(y, m + 1) /\ r.to + 1 \in Int
            BY <2>2, <2>3
        <3>2. CASE m < 11
            <4>1. m + 1 \in 0..11
                BY <1>1, <3>2
            <4>2. YearOf(FirstOf(y, m + 1)) = y /\ MonthOf(FirstOf(y, m + 1)) = m + 1
                BY <1>1, <1>7, <4>1
            <4> QED BY <3>1, <4>2
        <3>3. CASE m = 11
            <4>1. FirstOf(y, m + 1) = FirstOf(y + 1, 0) /\ y + 1 \in Int
                <5>1. FirstOf(y, 12) = FirstOf(y + 1, 0)
                    BY <1>1, <1>2, <1>4
                <5> QED BY <1>1, <3>3, <5>1
            <4>2. YearOf(FirstOf(y + 1, 0)) = y + 1 /\ MonthOf(FirstOf(y + 1, 0)) = 0
                BY <1>7, <4>1
            <4> QED BY <3>1, <4>1, <4>2
        <3> QED BY <1>1, <3>2, <3>3
    <2>7. BusinessRange("month", r.to + 1).from = r.to + 1
        BY <2>1, <2>6 DEF Dates, FirstOf
    <2> QED BY <1>1, <1>9, <2>2, <2>3, <2>5, <2>7 DEF r
<1>10. CASE preset = "calendarYear"
    <2>1. \A d \in Int : BusinessRange("calendarYear", d)
            = Dates(DateUTC(YearOf(d), 0, 1), DateUTC(YearOf(d), 11, 31), "month")
        BY DEF BusinessRange
    <2>2. \A x \in Int : /\ DateUTC(x, 0, 1) = FirstOf(x, 0)
                         /\ DateUTC(x, 11, 31) = FirstOf(x + 1, 0) - 1
        BY LastDays DEF FirstOf
    <2>3. r.from = FirstOf(y, 0) /\ r.to = FirstOf(y + 1, 0) - 1
        BY <1>1, <1>10, <2>1, <2>2 DEF Dates, y
    <2>4. FirstOf(y, 0) \in Int /\ FirstOf(y + 1, 0) \in Int
        BY <1>1, <1>2, y + 1 \in Int, 0 \in Int
    <2>5. FirstOf(y, 0) <= day /\ day < FirstOf(y + 1, 0)
        <3>1. FirstOf(y, 12) = FirstOf(y + 1, 0)
            BY <1>1, <1>2, <1>4
        <3> QED BY <3>1, YearFound DEF y
    <2> HIDE DEF r
    <2>6. r.from \in Int /\ YearOf(r.from) = y
        BY <1>1, <1>7, <2>3, <2>4
    <2>7. r.to + 1 \in Int /\ YearOf(r.to + 1) = y + 1 /\ r.to + 1 = FirstOf(y + 1, 0)
        <3>1. r.to + 1 = FirstOf(y + 1, 0) /\ y + 1 \in Int
            BY <1>1, <2>3, <2>4
        <3> QED BY <1>7, <2>4, <3>1
    <2>8. BusinessRange("calendarYear", r.from).to = r.to
        BY <1>1, <2>1, <2>2, <2>3, <2>6 DEF Dates
    <2>9. BusinessRange("calendarYear", r.to + 1).from = r.to + 1
        BY <1>1, <2>1, <2>2, <2>7, y + 1 \in Int DEF Dates
    <2> QED BY <1>10, <2>3, <2>4, <2>5, <2>8, <2>9 DEF r
<1>11. CASE preset = "fiscalYear"
    <2> DEFINE Fiscal(d) == IF MonthOf(d) >= 8 THEN YearOf(d) ELSE YearOf(d) - 1
               f == Fiscal(day)
    <2>1. \A d \in Int : BusinessRange("fiscalYear", d)
            = Dates(DateUTC(Fiscal(d), 8, 1), DateUTC(Fiscal(d) + 1, 7, 31), "month")
        BY DEF BusinessRange
    <2>2. \A x \in Int : /\ DateUTC(x, 8, 1) = FirstOf(x, 8)
                         /\ DateUTC(x, 7, 31) = FirstOf(x, 8) - 1
        BY LastDays DEF FirstOf
    <2>3. f \in Int /\ f + 1 \in Int
        BY <1>1 DEF y
    <2>4. r.from = FirstOf(f, 8) /\ r.to = FirstOf(f + 1, 8) - 1
        BY <1>11, <2>1, <2>2, <2>3 DEF Dates
    <2>5. FirstOf(f, 8) \in Int /\ FirstOf(f + 1, 8) \in Int
        BY <1>2, <2>3, 8 \in Int
    <2>6. FirstOf(f, 8) <= day /\ day < FirstOf(f + 1, 8)
        <3>1. \A k \in Int : FirstOf(y, k) \in Int /\ FirstOf(y - 1, k) \in Int /\ FirstOf(y + 1, k) \in Int
            BY <1>1, <1>2, y - 1 \in Int, y + 1 \in Int
        <3>2. CASE m >= 8
            <4>1. f = y
                BY <3>2 DEF m, y
            <4>2. FirstOf(y, 8) <= FirstOf(y, m)
                <5>1. CASE m = 8
                    BY <3>1, <5>1
                <5>2. CASE 8 < m
                    <6>1. FirstOf(y, 8 + 1) <= FirstOf(y, m)
                        BY <1>1, <5>2, MonthsInOrder
                    <6>2. FirstOf(y, 8) + 28 <= FirstOf(y, 8 + 1)
                        BY <1>1, <1>2, <1>3
                    <6>3. FirstOf(y, 8) \in Int /\ FirstOf(y, 8 + 1) \in Int /\ FirstOf(y, m) \in Int
                        BY <1>1, <3>1, 8 + 1 \in Int
                    <6> QED BY <6>1, <6>2, <6>3
                <5> QED BY <1>1, <3>2, <5>1, <5>2
            <4>3. FirstOf(y, m + 1) <= FirstOf(y, 12)
                BY <1>1, MonthsInOrder, m < 12
            <4>4. FirstOf(y, 12) <= FirstOf(y + 1, 8)
                <5>1. FirstOf(y, 12) = FirstOf(y + 1, 0)
                    BY <1>1, <1>2, <1>4
                <5>2. FirstOf(y + 1, 0 + 1) <= FirstOf(y + 1, 8)
                    BY <1>1, MonthsInOrder, y + 1 \in Int
                <5>3. FirstOf(y + 1, 0) + 28 <= FirstOf(y + 1, 0 + 1)
                    BY <1>1, <1>2, <1>3, y + 1 \in Int
                <5>4. FirstOf(y + 1, 0) \in Int /\ FirstOf(y + 1, 0 + 1) \in Int /\ FirstOf(y + 1, 8) \in Int
                    BY <3>1, 0 + 1 \in Int
                <5> QED BY <5>1, <5>2, <5>3, <5>4
            <4>5. FirstOf(y, 8) \in Int /\ FirstOf(y, m) \in Int /\ FirstOf(y, m + 1) \in Int
                  /\ FirstOf(y, 12) \in Int /\ FirstOf(y + 1, 8) \in Int
                BY <1>1, <3>1
            <4> HIDE DEF f
            <4> QED BY <1>1, <4>1, <4>2, <4>3, <4>4, <4>5
        <3>3. CASE m < 8
            <4>1. f = y - 1 /\ f + 1 = y
                BY <1>1, <3>3 DEF m, y
            <4>2. FirstOf(y, m + 1) <= FirstOf(y, 8)
                BY <1>1, <3>3, MonthsInOrder
            <4>3. FirstOf(y - 1, 8) <= FirstOf(y, 0)
                <5>1. FirstOf(y - 1, 12) = FirstOf(y - 1 + 1, 0) /\ y - 1 + 1 = y
                    BY <1>1, <1>2, <1>4, y - 1 \in Int
                <5>2. FirstOf(y - 1, 8 + 1) <= FirstOf(y - 1, 12)
                    BY <1>1, MonthsInOrder, y - 1 \in Int
                <5>3. FirstOf(y - 1, 8) + 28 <= FirstOf(y - 1, 8 + 1)
                    BY <1>1, <1>2, <1>3, y - 1 \in Int
                <5>4. FirstOf(y, 0) \in Int /\ FirstOf(y - 1, 8) \in Int /\ FirstOf(y - 1, 8 + 1) \in Int
                    BY <3>1, 8 + 1 \in Int
                <5> QED BY <5>1, <5>2, <5>3, <5>4
            <4>4. FirstOf(y, 0) <= day
                BY YearFound DEF y
            <4>5. FirstOf(y, m + 1) \in Int /\ FirstOf(y, 8) \in Int /\ FirstOf(y - 1, 8) \in Int
                  /\ FirstOf(y, 0) \in Int
                BY <1>1, <3>1
            <4> HIDE DEF f
            <4> QED BY <1>1, <4>1, <4>2, <4>3, <4>4, <4>5
        <3> QED BY <1>1, <3>2, <3>3
    <2> HIDE DEF r, f
    <2>7. r.from \in Int /\ MonthOf(r.from) = 8 /\ Fiscal(r.from) = f
        BY <1>7, <2>3, <2>4, <2>5
    <2>8. r.to + 1 = FirstOf(f + 1, 8) /\ r.to + 1 \in Int /\ Fiscal(r.to + 1) = f + 1
        <3>1. r.to + 1 = FirstOf(f + 1, 8)
            BY <2>4, <2>5
        <3>2. YearOf(FirstOf(f + 1, 8)) = f + 1 /\ MonthOf(FirstOf(f + 1, 8)) = 8
            BY <1>7, <2>3
        <3> QED BY <2>5, <3>1, <3>2
    <2> HIDE DEF Fiscal
    <2>9. BusinessRange("fiscalYear", r.from).to = r.to
        BY <2>1, <2>2, <2>3, <2>4, <2>7 DEF Dates
    <2>10. BusinessRange("fiscalYear", r.to + 1).from = r.to + 1
        BY <2>1, <2>2, <2>3, <2>8 DEF Dates
    <2> QED BY <1>11, <2>4, <2>5, <2>6, <2>7, <2>9, <2>10 DEF r
<1> QED BY <1>8, <1>9, <1>10, <1>11 DEF Presets

\* The days of a range's month
LEMMA MonthOfRange ==
    ASSUME NEW day \in Int
    PROVE  LET r == BusinessRange("month", day)
               y == YearOf(day)
               m == MonthOf(day)
           IN /\ r.from = FirstOf(y, m) /\ r.to = FirstOf(y, m + 1) - 1
              /\ \A x \in Int : r.from <= x /\ x <= r.to => BusinessRange("month", x) = r
<1> DEFINE y == YearOf(day)
           m == MonthOf(day)
           r == BusinessRange("month", day)
<1>1. y \in Int /\ m \in 0..11 /\ m \in Int /\ m + 1 \in Int
    BY MonthFound
<1>2. FirstOf(y, m) \in Int /\ FirstOf(y, m + 1) \in Int
    BY <1>1, MonthsFollow
<1>3. \A d \in Int : BusinessRange("month", d)
        = Dates(DateUTC(YearOf(d), MonthOf(d), 1), DateUTC(YearOf(d), MonthOf(d) + 1, 0), "day")
    BY DEF BusinessRange
<1>4. r.from = FirstOf(y, m) /\ r.to = FirstOf(y, m + 1) - 1
    <2>1. DateUTC(y, m + 1, 0) = FirstOf(y, m + 1) + 0 - 1
        BY <1>1, MonthsFollow
    <2> QED BY <1>2, <1>3, <2>1 DEF Dates, FirstOf
<1>5. ASSUME NEW x \in Int, r.from <= x, x <= r.to PROVE BusinessRange("month", x) = r
    <2>1. FirstOf(y, m) <= x /\ x < FirstOf(y, m + 1)
        BY <1>2, <1>4, <1>5
    <2>2. YearOf(x) = y /\ MonthOf(x) = m
        BY <1>1, <2>1, MonthFound
    <2> QED BY <1>3, <2>2
<1> QED BY <1>4, <1>5

LEMMA ReviewsHold ==
    ASSUME today \in Int
    PROVE  ReviewsCover
<1> SUFFICES ASSUME NEW type \in ReviewTypes
             PROVE  LET start == ReviewPeriodStart(type, today)
                        end == ReviewPeriodEnd(start, type)
                    IN /\ start <= today /\ today <= end
                       /\ ReviewPeriodStart(type, end) = start /\ ReviewPeriodStart(type, end + 1) = end + 1
    BY DEF ReviewsCover
<1>1. CASE type = "DAILY"
    BY <1>1 DEF ReviewPeriodStart, ReviewPeriodEnd
<1>2. CASE type = "WEEKLY"
    <2> DEFINE start == Monday(today)
    <2>1. /\ start \in Int /\ start <= today /\ today <= start + 6 /\ Monday(start + 7) = start + 7
          /\ \A x \in Int : start <= x /\ x <= start + 6 => Monday(x) = start
        BY MondayFound
    <2>2. /\ \A d : ReviewPeriodStart("WEEKLY", d) = Monday(d)
          /\ \A d : ReviewPeriodEnd(d, "WEEKLY") = d + 6
        BY DEF ReviewPeriodStart, ReviewPeriodEnd
    <2> HIDE DEF start
    <2>3. start + 6 \in Int /\ start + 6 + 1 = start + 7 /\ Monday(start + 6) = start
        BY <2>1
    <2> QED BY <1>2, <2>1, <2>2, <2>3 DEF start
<1>3. CASE type = "MONTHLY"
    <2> DEFINE r == BusinessRange("month", today)
    <2>1. \A d \in Int : BusinessRange("month", d)
            = Dates(DateUTC(YearOf(d), MonthOf(d), 1), DateUTC(YearOf(d), MonthOf(d) + 1, 0), "day")
        BY DEF BusinessRange
    <2>2. \A d \in Int : /\ ReviewPeriodStart("MONTHLY", d) = BusinessRange("month", d).from
                         /\ ReviewPeriodEnd(d, "MONTHLY") = BusinessRange("month", d).to
        BY <2>1 DEF ReviewPeriodStart, ReviewPeriodEnd, Dates
    <2>3. /\ r.from \in Int /\ r.to \in Int /\ r.from <= today /\ today <= r.to
          /\ BusinessRange("month", r.to + 1).from = r.to + 1 /\ BusinessRange("month", r.from).to = r.to
        BY RangesAreMonths DEF Presets
    <2>4. \A x \in Int : r.from <= x /\ x <= r.to => BusinessRange("month", x) = r
        BY MonthOfRange
    <2> HIDE DEF r
    <2>5. r.to + 1 \in Int /\ BusinessRange("month", r.to) = r
        BY <2>3, <2>4
    <2> QED BY <1>3, <2>2, <2>3, <2>5 DEF r
<1> QED BY <1>1, <1>2, <1>3 DEF ReviewTypes

LEMMA RangesHold ==
    ASSUME today \in Int
    PROVE  RangesTile
BY RangesAreMonths DEF RangesTile, Presets

LEMMA WallTimesHold ==
    ASSUME today \in Int, zone \in Zones
    PROVE  WallTimesConvert
<1>1. zone.before \in Int /\ zone.after \in Int /\ zone.at \in Int
    BY ConversionAssumption DEF HalfHours
<1> SUFFICES ASSUME NEW wall \in (today * HalfHours)..(today * HalfHours + HalfHours - 1)
             PROVE  LET converted == ZonedDateTimeToISO(zone, wall)
                    IN /\ converted = {} =>
                            \A offset \in {zone.before, zone.after} : WallTime(zone, wall - offset) # wall
                       /\ \A instant \in converted : BusinessDate(zone, instant) = today
    BY DEF WallTimesConvert
<1>2. wall \in Int /\ today * HalfHours <= wall /\ wall < (today + 1) * HalfHours
    BY DEF HalfHours
<1>3. wall \div HalfHours = today
    BY <1>2 DEF HalfHours
<1>4. /\ \A instant \in ZonedDateTimeToISO(zone, wall) : instant \in Int /\ WallTime(zone, instant) = wall
      /\ ZonedDateTimeToISO(zone, wall) = {} => \A instant \in Int : WallTime(zone, instant) # wall
    BY <1>1, <1>2, WallTimesAreFound
<1> QED BY <1>1, <1>2, <1>3, <1>4 DEF BusinessDate

LEMMA CalendarHolds ==
    ASSUME today \in Int, zone \in Zones
    PROVE  CalendarIsCovered
<1> DEFINE y == YearOf(today)
           m == MonthOf(today)
           month == BusinessRange("month", today)
           first == FirstOf(y, m)
           next == FirstOf(y, m + 1)
           early == FirstOf(y, m - 1)
           late == FirstOf(y, m + 3)
<1>1. zone.before \in Int /\ zone.after \in Int /\ zone.at \in Int
    BY ConversionAssumption DEF HalfHours
<1>2. y \in Int /\ m \in Int
    BY MonthFound
<1> HIDE DEF y, m
<1>3. \A n \in Int : FirstOf(y, n) \in Int /\ FirstOf(y, n) + 28 <= FirstOf(y, n + 1)
    BY <1>2, MonthsFollow
<1>4. /\ early \in Int /\ first \in Int /\ next \in Int /\ late \in Int
      /\ early + 28 <= first /\ first + 28 <= next /\ next + 56 <= late
    <2>1. m - 1 \in Int /\ m + 1 \in Int /\ m + 2 \in Int /\ m + 3 \in Int
          /\ m - 1 + 1 = m /\ m + 1 + 1 = m + 2 /\ m + 2 + 1 = m + 3
        BY <1>2
    <2>2. FirstOf(y, m - 1) + 28 <= FirstOf(y, m) /\ FirstOf(y, m - 1) \in Int
        BY <1>3, <2>1
    <2>3. FirstOf(y, m) + 28 <= FirstOf(y, m + 1) /\ FirstOf(y, m) \in Int
        BY <1>2, <1>3
    <2>4. FirstOf(y, m + 1) + 28 <= FirstOf(y, m + 2) /\ FirstOf(y, m + 1) \in Int
        BY <1>3, <2>1
    <2>5. FirstOf(y, m + 2) + 28 <= FirstOf(y, m + 3) /\ FirstOf(y, m + 2) \in Int /\ FirstOf(y, m + 3) \in Int
        BY <1>3, <2>1
    <2> QED BY <2>2, <2>3, <2>4, <2>5
<1>5. month.from = first /\ month.to = next - 1
    BY MonthOfRange DEF y, m
<1> HIDE DEF first, next, early, late, month
<1>6. ASSUME NEW begin \in CalendarQueryRange(zone, today).from, NEW end \in CalendarQueryRange(zone, today).to
      PROVE  /\ BusinessDate(zone, begin) < month.from /\ month.to < BusinessDate(zone, end)
             /\ \A wall \in {month.from * HalfHours, month.to * HalfHours + HalfHours - 1} :
                 \A instant \in ZonedDateTimeToISO(zone, wall) : begin <= instant /\ instant < end
    <2>1. begin \in ZonedDateTimeToISO(zone, early * HalfHours) /\ end \in ZonedDateTimeToISO(zone, late * HalfHours)
        BY <1>6 DEF CalendarQueryRange, FirstOf, early, late, y, m
    <2>2. \A w \in Int : \A i \in ZonedDateTimeToISO(zone, w) : i \in Int /\ WallTime(zone, i) = w
        BY <1>1, WallTimesAreFound
    <2>3. early * HalfHours \in Int /\ late * HalfHours \in Int
        BY <1>4 DEF HalfHours
    <2>4. /\ begin \in Int /\ WallTime(zone, begin) = early * HalfHours
          /\ end \in Int /\ WallTime(zone, end) = late * HalfHours
        BY <2>1, <2>2, <2>3
    <2>5. \A d \in Int : (d * HalfHours) \div HalfHours = d
        BY DEF HalfHours
    <2>6. BusinessDate(zone, begin) = early /\ BusinessDate(zone, end) = late
        BY <1>4, <2>4, <2>5 DEF BusinessDate
    <2>7. ASSUME NEW wall \in {month.from * HalfHours, month.to * HalfHours + HalfHours - 1},
                 NEW instant \in ZonedDateTimeToISO(zone, wall)
          PROVE  begin <= instant /\ instant < end
        <3>1. wall \in Int /\ first * HalfHours <= wall /\ wall < next * HalfHours
            BY <1>4, <1>5 DEF HalfHours
        <3>2. instant \in Int /\ WallTime(zone, instant) = wall
            BY <2>2, <3>1
        <3>3. \A i \in Int : i - 48 <= WallTime(zone, i) /\ WallTime(zone, i) <= i + 48
            BY ConversionAssumption DEF WallTime, Offset, HalfHours
        <3>4. /\ begin - 48 <= early * 48 /\ early * 48 <= begin + 48 
              /\ end - 48 <= late * 48 /\ late * 48 <= end + 48
              /\ instant - 48 <= wall /\ wall <= instant + 48
            BY <2>4, <3>2, <3>3 DEF HalfHours
        <3> QED BY <1>4, <2>4, <3>1, <3>2, <3>4 DEF HalfHours
    <2> QED BY <1>4, <1>5, <2>6, <2>7
<1> QED BY <1>6 DEF CalendarIsCovered, month

LEMMA PreviewHolds ==
    ASSUME today \in Int, zone \in Zones
    PROVE  PreviewCountsDown
<1>1. zone.before \in Int /\ zone.after \in Int /\ zone.at \in Int
    BY ConversionAssumption DEF HalfHours
<1>2. ASSUME NEW wall \in (today * HalfHours)..(today * HalfHours + HalfHours - 1),
             NEW instant \in ZonedDateTimeToISO(zone, wall)
      PROVE  LET next == NextBoundary(zone, instant)
                 midnight == (today + 1) * HalfHours
             IN /\ \A boundary \in next :
                     /\ BusinessDate(zone, boundary) = today + 1
                     /\ ~Repeats(zone, midnight) =>
                         instant < boundary /\ BusinessDate(zone, boundary - 1) <= today
                /\ next = {} =>
                     \A offset \in {zone.before, zone.after} :
                         WallTime(zone, midnight - offset) # midnight
    <2> DEFINE midnight == (today + 1) * HalfHours
    <2>1. wall \in Int /\ wall \div HalfHours = today /\ midnight \in Int
        BY DEF HalfHours
    <2>2. instant \in Int /\ BusinessDate(zone, instant) = today
        BY <1>1, <2>1, WallTimesAreFound DEF BusinessDate
    <2>3. NextBoundary(zone, instant) = ZonedDateTimeToISO(zone, midnight)
        BY <2>2 DEF NextBoundary
    <2>4. ASSUME NEW boundary \in NextBoundary(zone, instant)
          PROVE  /\ BusinessDate(zone, boundary) = today + 1
                 /\ ~Repeats(zone, midnight) =>
                     instant < boundary /\ BusinessDate(zone, boundary - 1) <= today
        BY <1>1, <2>2, BoundariesAreMet
    <2>5. ASSUME NextBoundary(zone, instant) = {}, NEW offset \in {zone.before, zone.after}
          PROVE  WallTime(zone, midnight - offset) # midnight
        <3>1. midnight - offset \in Int
            BY <1>1, <2>1
        <3> QED BY <1>1, <2>1, <2>3, <2>5, <3>1, WallTimesAreFound
    <2> QED BY <2>4, <2>5
<1> QED BY <1>2 DEF PreviewCountsDown

LEMMA AmountsHold ==
    ASSUME today \in Int, FirstDay <= today
    PROVE  PVRoundTrips
<1> DEFINE pv == 7 * (today - FirstDay)
           cents == NetAmountFromPV(pv)
<1>1. pv \in Nat
    BY ConversionAssumption
<1>2. cents \in Nat
    BY <1>1 DEF NetAmountFromPV, DecimalHundredths
<1>3. PVOfCents(cents) = DecimalHundredths(pv) /\ PVAndNetAmountMatch(pv, 10 * cents)
    BY <1>1, AmountsRoundTrip
<1> HIDE DEF cents
<1>4. DecimalHundredths(10 * cents) = cents
    BY <1>2 DEF DecimalHundredths
<1> QED BY <1>3, <1>4 DEF PVRoundTrips, PVFromNetAmount, cents

\* The conversions of lib/date.ts and lib/pv.ts agree on every day and in every timezone:
\* ranges follow one another, reviews cover their days, wall times, the days of the
\* calendar and the boundary of the business date are met, and amounts give each
\* other back.
THEOREM ConversionsHold == ConversionSpec => []ConversionsAgree
<1> DEFINE Enumerated == /\ today \in Int /\ zone \in Zones
                         /\ today # NoDayYet => FirstDay <= today
<1>1. ConversionInit => Enumerated
    BY ConversionAssumption DEF ConversionInit, NoDayYet
<1>2. Enumerated /\ [ConversionNext]_conversionVars => Enumerated'
    BY ConversionAssumption DEF ConversionNext, Pick, conversionVars, NoDayYet
<1>3. Enumerated => ConversionsAgree
    BY RangesHold, ReviewsHold, WallTimesHold, CalendarHolds, PreviewHolds, AmountsHold DEF ConversionsAgree
<1> QED BY <1>1, <1>2, <1>3, PTL DEF ConversionSpec
=============================================================================
