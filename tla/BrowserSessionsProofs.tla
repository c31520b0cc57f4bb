------------------------ MODULE BrowserSessionsProofs ------------------------
(***************************************************************************)
(* What holds of browser sessions for any accounts, sessions and handlers. *)
(***************************************************************************)
EXTENDS BrowserSessions, TLAPS

\* Handlers are records of their kind, whatever is put into them.
LEMMA IdleFields ==
    /\ Idle \in Handlers /\ Idle.pc = "idle" /\ Idle.on = Nobody /\ Idle.acct = Nobody
    /\ \A a \in Accounts : LET h == [Idle EXCEPT !.acct = a] IN
           h \in Handlers /\ h.pc = "idle" /\ h.acct = a /\ h.on = Nobody
BY DEF Idle, Handlers, Places

\* Where a handler is when it has chosen another account.
LEMMA InPlaces == "switch" \in Places /\ "link" \in Places /\ "create" \in Places
BY DEF Places

\* A handler that only moves keeps its session and account.
LEMMA PlaceFields ==
    ASSUME NEW q \in Handlers, NEW p \in Places, NEW h, h = [q EXCEPT !.pc = p]
    PROVE  /\ h \in Handlers /\ h.pc = p /\ h.on = q.on /\ h.acct = q.acct
           /\ h.doomed = q.doomed /\ h.severed = q.severed
BY DEF Handlers

\* A new link that a statement does not see changes nothing else of its handler.
LEMMA SeveredFields ==
    ASSUME NEW q \in Handlers, NEW s, NEW h, h = [q EXCEPT !.severed = @ \ {s}]
    PROVE  /\ h \in Handlers /\ h.pc = q.pc /\ h.on = q.on /\ h.acct = q.acct
           /\ h.doomed = q.doomed /\ h.severed = q.severed \ {s}
<1>1. q.severed \ {s} \in SUBSET Sessions
    BY DEF Handlers
<1> QED BY <1>1 DEF Handlers

\* What LoadSession has read of a session that it may load.
LEMMA LoadingFields ==
    ASSUME TypeOK, NEW s \in Sessions, Loadable(s),
           NEW h, h = [Idle EXCEPT !.pc = "account", !.on = s, !.acct = active[s],
                                   !.linked = active[s] \in links[s]]
    PROVE  h \in Handlers /\ h.pc = "account" /\ h.on = s /\ h.acct = active[s]
<1>1. active[s] \in Accounts /\ (active[s] \in links[s]) \in BOOLEAN
    BY DEF Loadable, TypeOK
<1> QED BY <1>1 DEF Idle, Handlers, Places

\* What DeleteAccountSessions has found when it has looked.
LEMMA LookingFields ==
    ASSUME TypeOK, NEW q \in Handlers, NEW p \in Places, NEW h, h = Looking(q, p)
    PROVE  /\ h \in Handlers /\ h.pc = p /\ h.on = q.on /\ h.acct = q.acct
           /\ h.doomed = {s \in live : active[s] = q.acct}
           /\ h.severed = Severed(q.acct)
<1>1. {s \in live : active[s] = q.acct} \in SUBSET Sessions /\ Severed(q.acct) \in SUBSET Sessions
    BY DEF TypeOK, Severed
<1> QED BY <1>1 DEF Looking, Handlers, Places

\* What the next state of the handler that steps, and of the others, is.
LEMMA OthersKeepPlace ==
    ASSUME TypeOK, NEW r \in Requests, NEW to \in Handlers, NEW a, NEW s,
           Goes(r, to) \/ Takes(r, a, to) \/ Gives(r, s, a, to)
    PROVE  /\ req' \in [Requests -> Handlers] /\ req'[r] = to
           /\ \A q \in Requests \ {r} :
                /\ req'[q].pc = req[q].pc /\ req'[q].on = req[q].on
                /\ req'[q].acct = req[q].acct /\ req'[q].doomed = req[q].doomed
                /\ req'[q] = req[q] \/ (Gives(r, s, a, to) /\ req[q].acct = a)
<1>1. ASSUME Goes(r, to) \/ Takes(r, a, to) PROVE req' = [req EXCEPT ![r] = to]
    BY <1>1 DEF Goes, Takes
<1>2. CASE Goes(r, to) \/ Takes(r, a, to)
    BY <1>1, <1>2 DEF TypeOK
<1>3. CASE Gives(r, s, a, to)
    <2>1. \A q \in Requests :
            req'[q] = IF q = r THEN to
                      ELSE IF req[q].acct = a /\ a \notin links[s]
                           THEN [req[q] EXCEPT !.severed = @ \ {s}] ELSE req[q]
        BY <1>3 DEF Gives
    <2>2. DOMAIN req' = Requests /\ req' = [q \in Requests |-> req'[q]]
        BY <1>3 DEF Gives
    <2>3. \A q \in Requests : req[q] \in Handlers
        BY DEF TypeOK
    <2>4. ASSUME NEW q \in Requests \ {r}
          PROVE  /\ req'[q] \in Handlers
                 /\ req'[q].pc = req[q].pc /\ req'[q].on = req[q].on
                 /\ req'[q].acct = req[q].acct /\ req'[q].doomed = req[q].doomed
                 /\ req'[q] = req[q] \/ req[q].acct = a
        <3>1. CASE req[q].acct = a /\ a \notin links[s]
            <4>1. req'[q] = [req[q] EXCEPT !.severed = @ \ {s}]
                BY <2>1, <3>1
            <4> QED BY <2>3, <3>1, <4>1, SeveredFields
        <3>2. CASE ~(req[q].acct = a /\ a \notin links[s])
            BY <2>1, <2>3, <3>2
        <3> QED BY <3>1, <3>2
    <2>5. req'[r] = to
        BY <2>1
    <2>6. \A q \in Requests : req'[q] \in Handlers
        BY <2>4, <2>5
    <2> QED BY <1>3, <2>2, <2>4, <2>5, <2>6
<1> QED BY <1>2, <1>3

\* Whatever a handler becomes, the handlers and what they have missed keep their types.
LEMMA HandlersKeepTypes ==
    ASSUME TypeOK, NEW r \in Requests, NEW to \in Handlers, to.pc = "idle" \/ to.acct \in Accounts,
           NEW a, NEW s, Goes(r, to) \/ (a \in Accounts /\ (Takes(r, a, to) \/ Gives(r, s, a, to)))
    PROVE  /\ req' \in [Requests -> Handlers]
           /\ \A q \in Requests : req'[q].pc # "idle" => req'[q].acct \in Accounts
           /\ given' \in [Requests -> SUBSET Accounts] /\ taken' \in [Requests -> SUBSET Accounts]
           /\ raced' \in BOOLEAN
<1>1. /\ req' \in [Requests -> Handlers] /\ req'[r] = to
      /\ \A q \in Requests \ {r} : req'[q].pc = req[q].pc /\ req'[q].acct = req[q].acct
    BY OthersKeepPlace
<1>2. \A q \in Requests : req'[q].pc # "idle" => req'[q].acct \in Accounts
    BY <1>1 DEF TypeOK
<1>3. \A seen \in [Requests -> SUBSET Accounts], S \in SUBSET Accounts :
          Missed(seen, r, to, S) \in [Requests -> SUBSET Accounts]
    BY DEF Missed
<1>4. a \in Accounts => {a} \in SUBSET Accounts
    OBVIOUS
<1>5. given' \in [Requests -> SUBSET Accounts] /\ taken' \in [Requests -> SUBSET Accounts]
    BY <1>3, <1>4 DEF TypeOK, Goes, Takes, Gives
<1>6. raced' \in BOOLEAN
    <2>1. \A x \in BOOLEAN : \A y : (x \/ a \in y) \in BOOLEAN
        OBVIOUS
    <2> QED BY <2>1, Zenon DEF TypeOK, Goes, Takes, Gives
<1> QED BY <1>1, <1>2, <1>5, <1>6

\* Accounts, sessions, handlers and what is remembered of them keep their types.
LEMMA TypeInit == Init => TypeOK
<1> SUFFICES ASSUME Init PROVE TypeOK
    OBVIOUS
<1>1. \A r \in Requests : req[r] = Idle
    BY DEF Init
<1>2. req \in [Requests -> Handlers] /\ \A r \in Requests : req[r].pc = "idle"
    BY <1>1, IdleFields DEF Init
<1> QED BY <1>2 DEF Init, TypeOK

\* Whoever changes an account, it is one of the accounts.
LEMMA OwnFields ==
    ASSUME TypeOK, NEW r \in Requests, NEW q \in Own(r) \cup ByAdmin(r)
    PROVE  q \in Handlers /\ q.acct \in Accounts
<1>1. CASE q \in Own(r)
    BY <1>1 DEF TypeOK, Own, At
<1>2. CASE q \in ByAdmin(r)
    <2> PICK a \in Accounts : q = [Idle EXCEPT !.acct = a]
        BY <1>2 DEF ByAdmin
    <2> QED BY IdleFields
<1> QED BY <1>1, <1>2

\* What the steps that leave all rows alone have read.
Reads(r, to) ==
    /\ to \in Handlers /\ (to.pc = "idle" \/ to.acct \in Accounts)
    /\ to.pc = "account" => to.on \in Sessions \cap live /\ to.acct = active[to.on]
    /\ to.pc \in {"backfill", "served"} =>
           req[r].pc = "account" /\ to.on = req[r].on /\ to.acct = req[r].acct
    /\ to.pc \in {"switch", "link"} => req[r].pc = "served" /\ to.on = req[r].on
    /\ to.pc = "switch" => to.acct \in links[to.on]
    /\ to.pc = "linking" => req[r].pc = "link" /\ to.on = req[r].on /\ to.on \in live
    /\ to.pc \in {"linking", "creating", "disable", "password"} => status[to.acct] # "none"
    /\ to.pc \in {"disable", "password", "delete"} =>
           to.doomed = {s \in live : active[s] = to.acct} /\ to.severed = Severed(to.acct)

\* Those steps.
ReadsOnly(r) ==
    \/ Load(r) \/ ReadAccount(r) \/ Switch(r) \/ Add(r) \/ Link(r) \/ Login(r)
    \/ CreateSession(r) \/ Disable(r) \/ NewPassword(r) \/ DeleteAdmin(r) \/ DeleteSessions(r)
    \/ Breaks(r)

Quiet(r, to) == Reads(r, to) /\ Goes(r, to) /\ UNCHANGED <<rows, proofs>>

\* Every step that leaves the rows alone reads what Reads says.
LEMMA QuietSteps ==
    ASSUME TypeOK, NEW r \in Requests, ReadsOnly(r)
    PROVE  \E to : Quiet(r, to)
<1> USE DEF At, Quiet
<1>1. req[r] \in Handlers /\ (req[r].pc # "idle" => req[r].acct \in Accounts)
    BY DEF TypeOK
<1>2. Reads(r, Idle)
    BY IdleFields DEF Reads
<1>3. CASE Load(r)
    <2> PICK s \in Sessions :
            /\ Loadable(s)
            /\ Goes(r, [Idle EXCEPT !.pc = "account", !.on = s, !.acct = active[s],
                                    !.linked = active[s] \in links[s]])
        BY <1>3 DEF Load
    <2> PICK to : to = [Idle EXCEPT !.pc = "account", !.on = s, !.acct = active[s],
                                    !.linked = active[s] \in links[s]]
        OBVIOUS
    <2>1. /\ to \in Handlers /\ to.pc = "account" /\ to.on = s /\ to.acct = active[s]
          /\ Goes(r, to)
        BY LoadingFields
    <2>2. s \in live /\ active[s] \in Accounts
        BY DEF Loadable, TypeOK
    <2> QED BY <1>3, <2>1, <2>2 DEF Load, Reads
<1>4. CASE ReadAccount(r)
    <2>1. CASE Goes(r, Idle)
        BY <1>2, <1>4, <2>1 DEF ReadAccount
    <2>2. CASE ~Goes(r, Idle)
        <3> PICK p \in {"served", "backfill"} : Goes(r, [req[r] EXCEPT !.pc = p])
            BY <1>4, <2>2 DEF ReadAccount
        <3> PICK to : to = [req[r] EXCEPT !.pc = p]
            OBVIOUS
        <3>1. to \in Handlers /\ to.pc = p /\ to.on = req[r].on /\ to.acct = req[r].acct
            BY <1>1, PlaceFields DEF Places
        <3> QED BY <1>1, <1>4, <3>1 DEF ReadAccount, Reads
    <2> QED BY <2>1, <2>2
<1>5. CASE Switch(r)
    <2> PICK a \in Accounts : /\ Switchable(req[r].on, a)
                              /\ Goes(r, [req[r] EXCEPT !.pc = "switch", !.acct = a])
        BY <1>5 DEF Switch
    <2> PICK to : to = [req[r] EXCEPT !.pc = "switch", !.acct = a]
        OBVIOUS
    <2>1. to \in Handlers /\ to.pc = "switch" /\ to.on = req[r].on /\ to.acct = a
        BY <1>1, InPlaces DEF Handlers
    <2> QED BY <1>5, <2>1 DEF Switch, Switchable, Reads
<1>6. CASE Add(r)
    <2> PICK a \in Accounts : Goes(r, [req[r] EXCEPT !.pc = "link", !.acct = a])
        BY <1>6 DEF Add
    <2> PICK to : to = [req[r] EXCEPT !.pc = "link", !.acct = a]
        OBVIOUS
    <2>1. to \in Handlers /\ to.pc = "link" /\ to.on = req[r].on /\ to.acct = a
        BY <1>1, InPlaces DEF Handlers
    <2> QED BY <1>6, <2>1 DEF Add, Reads
<1>7. CASE Link(r)
    <2> PICK to : to = [req[r] EXCEPT !.pc = "linking"]
        OBVIOUS
    <2>1. to \in Handlers /\ to.pc = "linking" /\ to.on = req[r].on /\ to.acct = req[r].acct
        BY <1>1, PlaceFields DEF Places
    <2>2. CASE req[r].on \in live /\ status[req[r].acct] = "ACTIVE"
        BY <1>1, <1>7, <2>1, <2>2 DEF Link, Reads
    <2> QED BY <1>2, <1>7, <2>2 DEF Link
<1>8. CASE Login(r)
    <2> PICK a \in Accounts : Goes(r, [Idle EXCEPT !.pc = "create", !.acct = a])
        BY <1>8 DEF Login
    <2> PICK to : to = [Idle EXCEPT !.pc = "create", !.acct = a]
        OBVIOUS
    <2>1. to \in Handlers /\ to.pc = "create" /\ to.acct = a
        BY IdleFields, InPlaces DEF Handlers
    <2> QED BY <1>8, <2>1 DEF Login, Reads
<1>9. CASE CreateSession(r)
    <2> PICK to : to = [req[r] EXCEPT !.pc = "creating"]
        OBVIOUS
    <2>1. to \in Handlers /\ to.pc = "creating" /\ to.acct = req[r].acct
        BY <1>1, PlaceFields DEF Places
    <2>2. CASE status[req[r].acct] = "ACTIVE"
        BY <1>1, <1>9, <2>1, <2>2 DEF CreateSession, Reads
    <2> QED BY <1>2, <1>9, <2>2 DEF CreateSession
<1>10. ASSUME NEW q \in Handlers, q.acct \in Accounts, NEW p \in {"disable", "password", "delete"},
              status[q.acct] # "none" \/ p = "delete",
              Goes(r, Looking(q, p)), UNCHANGED <<rows, proofs>>
       PROVE  \E to : Quiet(r, to)
    <2> PICK to : to = Looking(q, p)
        OBVIOUS
    <2>1. /\ to \in Handlers /\ to.pc = p /\ to.acct = q.acct
          /\ to.doomed = {s \in live : active[s] = q.acct} /\ to.severed = Severed(q.acct)
        BY LookingFields DEF Places
    <2> QED BY <1>10, <2>1 DEF Reads
<1>11. \A q \in Own(r) \cup ByAdmin(r) : q \in Handlers /\ q.acct \in Accounts
    BY OwnFields
<1>12. CASE Disable(r)
    BY <1>10, <1>11, <1>12 DEF Disable
<1>13. CASE NewPassword(r)
    BY <1>10, <1>11, <1>13 DEF NewPassword
<1>14. CASE DeleteSessions(r)
    BY <1>1, <1>10, <1>14 DEF DeleteSessions
<1>15. CASE DeleteAdmin(r)
    BY <1>10, <1>11, <1>15 DEF DeleteAdmin
<1>16. CASE Breaks(r)
    BY <1>2, <1>16 DEF Breaks
<1> QED BY <1>3, <1>4, <1>5, <1>6, <1>7, <1>8, <1>9, <1>12, <1>13, <1>14, <1>15, <1>16
        DEF ReadsOnly

\* The same of a handler at work.
LEMMA ServedFields ==
    ASSUME TypeOK, NEW r \in Requests, NEW p \in Places, NEW to, to = [req[r] EXCEPT !.pc = p]
    PROVE  /\ to \in Handlers /\ to.pc = p /\ to.on = req[r].on /\ to.acct = req[r].acct
           /\ to.doomed = req[r].doomed /\ to.severed = req[r].severed
<1>1. req[r] \in Handlers
    BY DEF TypeOK
<1> QED BY <1>1, PlaceFields

\* What becomes of the handler in a step that changes rows.
Ends(to) ==
    /\ to \in Handlers /\ to.pc \in {"idle", "served", "deleting", "leave"}
    /\ to.pc # "idle" => to.acct \in Accounts

\* A handler may end.
LEMMA EndsIdle == Ends(Idle)
BY IdleFields DEF Ends

\* A backfill gives its link or fails, and the session is served.
LEMMA BackfillEnds ==
    ASSUME TypeOK, NEW r \in Requests, Backfill(r)
    PROVE  \E to : /\ Ends(to) /\ to.pc = "served"
                   /\ to.on = req[r].on /\ to.acct = req[r].acct
                   /\ \/ Goes(r, to) /\ UNCHANGED links
                      \/ /\ Gives(r, req[r].on, req[r].acct, to)
                         /\ req[r].on \in live /\ status[req[r].acct] # "none"
                         /\ links' = [links EXCEPT ![req[r].on] = @ \cup {req[r].acct}]
<1> PICK to : to = [req[r] EXCEPT !.pc = "served"]
    OBVIOUS
<1>1. to \in Handlers /\ to.pc = "served" /\ to.on = req[r].on /\ to.acct = req[r].acct
    BY ServedFields DEF Places
<1>2. req[r].acct \in Accounts
    BY DEF TypeOK, Backfill, At
<1>3. Ends(to)
    BY <1>1, <1>2 DEF Ends
<1>4. \/ Goes(r, to) /\ UNCHANGED links
      \/ /\ Gives(r, req[r].on, req[r].acct, to)
         /\ req[r].on \in live /\ status[req[r].acct] # "none"
         /\ links' = [links EXCEPT ![req[r].on] = @ \cup {req[r].acct}]
    BY DEF Backfill
<1> QED BY <1>1, <1>3, <1>4

\* A deletion starts with the account's status.
LEMMA DeleteEnds ==
    ASSUME TypeOK, NEW r \in Requests, Delete(r)
    PROVE  \E to : /\ Ends(to) /\ to.pc = "deleting" /\ to.acct \in Accounts /\ Goes(r, to)
                   /\ status[to.acct] \notin {"DELETING", "none"} /\ ~Locked(to.acct)
                   /\ status' = [status EXCEPT ![to.acct] = "DELETING"]
<1> PICK q \in Own(r) \cup ByAdmin(r) :
        /\ status[q.acct] \notin {"DELETING", "none"} /\ ~Locked(q.acct)
        /\ status' = [status EXCEPT ![q.acct] = "DELETING"]
        /\ Goes(r, [q EXCEPT !.pc = "deleting"])
    BY DEF Delete
<1>1. q \in Handlers /\ q.acct \in Accounts
    BY OwnFields
<1> PICK to : to = [q EXCEPT !.pc = "deleting"]
    OBVIOUS
<1>2. to \in Handlers /\ to.pc = "deleting" /\ to.acct = q.acct
    BY <1>1, PlaceFields DEF Places
<1> QED BY <1>1, <1>2 DEF Ends

\* A handler that has changed an account takes it, and leaves if it has a session.
LEMMA CommitEnds ==
    ASSUME TypeOK, NEW r \in Requests, Commit(r)
    PROVE  /\ req[r].acct \in Accounts
           /\ \E to : /\ Ends(to) /\ to.pc \in {"idle", "leave"}
                      /\ Takes(r, req[r].acct, to)
<1>1. req[r].acct \in Accounts
    BY DEF TypeOK, Commit, At
<1>2. CASE req[r].on = Nobody
    BY <1>1, <1>2, EndsIdle, IdleFields DEF Commit
<1>3. CASE req[r].on # Nobody
    <2> PICK to : to = [req[r] EXCEPT !.pc = "leave"]
        OBVIOUS
    <2>1. to \in Handlers /\ to.pc = "leave" /\ to.acct = req[r].acct
        BY ServedFields DEF Places
    <2>2. Takes(r, req[r].acct, to)
        BY <1>3 DEF Commit
    <2> QED BY <1>1, <2>1, <2>2 DEF Ends
<1> QED BY <1>2, <1>3

\* The handlers' part of TypeOK, and the rest of it.
HandlersTyped ==
    /\ req \in [Requests -> Handlers]
    /\ \A r \in Requests : req[r].pc # "idle" => req[r].acct \in Accounts
    /\ given \in [Requests -> SUBSET Accounts] /\ taken \in [Requests -> SUBSET Accounts]
    /\ raced \in BOOLEAN

RowsTyped ==
    /\ status \in [Accounts -> {"ACTIVE", "DISABLED", "DELETING", "none"}]
    /\ live \subseteq Sessions /\ legacy \subseteq Sessions
    /\ active \in [Sessions -> Accounts \cup {Nobody}]
    /\ links \in [Sessions -> SUBSET Accounts]
    /\ ever \in [Sessions -> SUBSET Accounts] /\ proved \in [Sessions -> SUBSET Accounts]

\* TypeOK has these two parts.
LEMMA TypeParts == (TypeOK <=> HandlersTyped /\ RowsTyped)
                   /\ (TypeOK' <=> HandlersTyped' /\ RowsTyped')
BY DEF TypeOK, HandlersTyped, RowsTyped

\* A step that leaves the accounts alone keeps the handlers' types.
LEMMA GoesTyped ==
    ASSUME TypeOK, NEW r \in Requests, NEW to \in Handlers, to.pc = "idle" \/ to.acct \in Accounts,
           Goes(r, to)
    PROVE  HandlersTyped'
BY HandlersKeepTypes, Zenon DEF HandlersTyped

\* So does one that takes an account.
LEMMA TakesTyped ==
    ASSUME TypeOK, NEW r \in Requests, NEW to \in Handlers, to.pc = "idle" \/ to.acct \in Accounts,
           NEW a \in Accounts, Takes(r, a, to)
    PROVE  HandlersTyped'
BY HandlersKeepTypes, Zenon DEF HandlersTyped

\* So does one that gives it.
LEMMA GivesTyped ==
    ASSUME TypeOK, NEW r \in Requests, NEW to \in Handlers, to.pc = "idle" \/ to.acct \in Accounts,
           NEW a \in Accounts, NEW s, Gives(r, s, a, to)
    PROVE  HandlersTyped'
BY HandlersKeepTypes, Zenon DEF HandlersTyped

\* The end of sessions keeps the types of the rows.
LEMMA EndTyped ==
    ASSUME TypeOK, NEW gone, End(gone)
    PROVE  RowsTyped'
<1>1. /\ active' \in [Sessions -> Accounts \cup {Nobody}] /\ links' \in [Sessions -> SUBSET Accounts]
      /\ ever' \in [Sessions -> SUBSET Accounts] /\ proved' \in [Sessions -> SUBSET Accounts]
    BY DEF TypeOK, End, Cleared
<1> QED BY <1>1 DEF TypeOK, RowsTyped, End

\* So does a change of an account.
LEMMA CommitTyped ==
    ASSUME TypeOK, NEW r \in Requests, Commit(r)
    PROVE  RowsTyped'
<1> USE DEF TypeOK, Commit
<1>1. status' \in [Accounts -> {"ACTIVE", "DISABLED", "DELETING", "none"}]
    OBVIOUS
<1>2. live' \subseteq Sessions /\ legacy' \subseteq Sessions
    OBVIOUS
<1>3. active' \in [Sessions -> Accounts \cup {Nobody}]
    OBVIOUS
<1>4. links' \in [Sessions -> SUBSET Accounts]
    OBVIOUS
<1>5. ever' \in [Sessions -> SUBSET Accounts]
    BY DEF Cleared
<1>6. proved' \in [Sessions -> SUBSET Accounts]
    OBVIOUS
<1> QED BY <1>1, <1>2, <1>3, <1>4, <1>5, <1>6 DEF RowsTyped

\* Every step keeps the types.
LEMMA TypeNext == TypeOK /\ [Next]_vars => TypeOK'
<1> SUFFICES ASSUME TypeOK, [Next]_vars PROVE HandlersTyped' /\ RowsTyped'
    BY TypeParts
<1>1. HandlersTyped /\ RowsTyped
    BY TypeParts
<1>2. ASSUME NEW r \in Requests, ReadsOnly(r)
      PROVE  HandlersTyped' /\ RowsTyped'
    <2> PICK to : Quiet(r, to)
        BY <1>2, QuietSteps
    <2>1. HandlersTyped'
        BY GoesTyped DEF Quiet, Reads
    <2>2. RowsTyped'
        BY <1>1 DEF RowsTyped, Quiet, rows, proofs
    <2> QED BY <2>1, <2>2
<1>3. ASSUME NEW r \in Requests, Backfill(r) PROVE HandlersTyped' /\ RowsTyped'
    <2>1. req[r].acct \in Accounts
        BY <1>3 DEF TypeOK, Backfill, At
    <2> PICK to : /\ Ends(to)
                  /\ \/ Goes(r, to) /\ UNCHANGED links
                     \/ /\ Gives(r, req[r].on, req[r].acct, to)
                        /\ links' = [links EXCEPT ![req[r].on] = @ \cup {req[r].acct}]
        BY <1>3, BackfillEnds
    <2>2. HandlersTyped'
        BY <2>1, GoesTyped, GivesTyped DEF Ends
    <2>3. links' \in [Sessions -> SUBSET Accounts]
        BY <2>1 DEF TypeOK
    <2> QED BY <1>1, <1>3, <2>2, <2>3 DEF RowsTyped, Backfill, proofs
<1>4. ASSUME NEW r \in Requests, Logout(r) PROVE HandlersTyped' /\ RowsTyped'
    BY <1>4, IdleFields, GoesTyped, EndTyped DEF Logout
<1>5. ASSUME NEW r \in Requests, SetActive(r) PROVE HandlersTyped' /\ RowsTyped'
    <2>1. req[r].acct \in Accounts
        BY <1>5 DEF TypeOK, SetActive, At
    <2>2. HandlersTyped'
        BY <1>5, <2>1, IdleFields, GoesTyped, GivesTyped DEF SetActive
    <2>3. active' \in [Sessions -> Accounts \cup {Nobody}]
        BY <1>5, <2>1 DEF TypeOK, SetActive
    <2> QED BY <1>1, <1>5, <2>2, <2>3 DEF RowsTyped, SetActive, proofs
<1>6. ASSUME NEW r \in Requests, CommitLink(r) PROVE HandlersTyped' /\ RowsTyped'
    <2>1. req[r].acct \in Accounts
        BY <1>6 DEF TypeOK, CommitLink, At
    <2>2. HandlersTyped'
        BY <1>6, <2>1, IdleFields, GivesTyped DEF CommitLink
    <2>3. /\ active' \in [Sessions -> Accounts \cup {Nobody}]
          /\ links' \in [Sessions -> SUBSET Accounts]
          /\ ever' \in [Sessions -> SUBSET Accounts] /\ proved' \in [Sessions -> SUBSET Accounts]
        BY <1>6, <2>1 DEF TypeOK, CommitLink
    <2> QED BY <1>1, <1>6, <2>2, <2>3 DEF RowsTyped, CommitLink
<1>7. ASSUME NEW r \in Requests, Remove(r) PROVE HandlersTyped' /\ RowsTyped'
    <2>1. HandlersTyped'
        BY <1>7, IdleFields, TakesTyped DEF Remove, Removable
    <2>2. PICK a \in Accounts : links' = [links EXCEPT ![req[r].on] = @ \ {a}]
        BY <1>7 DEF Remove, Removable
    <2>3. links' \in [Sessions -> SUBSET Accounts]
        BY <2>2 DEF TypeOK
    <2> QED BY <1>1, <1>7, <2>1, <2>3 DEF RowsTyped, Remove, proofs
<1>8. ASSUME NEW r \in Requests, CommitSession(r) PROVE HandlersTyped' /\ RowsTyped'
    <2>1. req[r].acct \in Accounts
        BY <1>8 DEF TypeOK, CommitSession, At
    <2>2. HandlersTyped'
        BY <1>8, <2>1, IdleFields, GivesTyped DEF CommitSession
    <2>3. /\ active' \in [Sessions -> Accounts \cup {Nobody}]
          /\ links' \in [Sessions -> SUBSET Accounts] /\ live' \subseteq Sessions
          /\ ever' \in [Sessions -> SUBSET Accounts] /\ proved' \in [Sessions -> SUBSET Accounts]
        BY <1>8, <2>1 DEF TypeOK, CommitSession
    <2> QED BY <1>1, <1>8, <2>2, <2>3 DEF RowsTyped, CommitSession
<1>9. ASSUME NEW r \in Requests, Delete(r) PROVE HandlersTyped' /\ RowsTyped'
    <2> PICK to : /\ Ends(to) /\ to.acct \in Accounts /\ Goes(r, to)
                  /\ status' = [status EXCEPT ![to.acct] = "DELETING"]
        BY <1>9, DeleteEnds
    <2>1. HandlersTyped'
        BY GoesTyped DEF Ends
    <2>2. status' \in [Accounts -> {"ACTIVE", "DISABLED", "DELETING", "none"}]
        BY DEF TypeOK
    <2> QED BY <1>1, <1>9, <2>1, <2>2 DEF RowsTyped, Delete, proofs
<1>10. ASSUME NEW r \in Requests, Commit(r) PROVE HandlersTyped' /\ RowsTyped'
    BY <1>10, CommitEnds, TakesTyped, CommitTyped DEF Ends
<1>11. ASSUME NEW a \in Accounts, Enable(a) \/ Register(a) PROVE HandlersTyped' /\ RowsTyped'
    <2>1. status' \in [Accounts -> {"ACTIVE", "DISABLED", "DELETING", "none"}]
        BY <1>11 DEF TypeOK, Enable, Register
    <2>2. ever' \in [Sessions -> SUBSET Accounts]
        BY <1>11 DEF TypeOK, Enable, Register, proofs
    <2> QED BY <1>1, <1>11, <2>1, <2>2 DEF RowsTyped, HandlersTyped, Enable, Register, proofs
<1>12. ASSUME NEW s \in Sessions, Expire(s) PROVE HandlersTyped' /\ RowsTyped'
    BY <1>1, <1>12, EndTyped DEF Expire, HandlersTyped
<1>13. CASE UNCHANGED vars
    BY <1>1, <1>13 DEF vars, rows, proofs, HandlersTyped, RowsTyped
<1> QED BY <1>2, <1>3, <1>4, <1>5, <1>6, <1>7, <1>8, <1>9, <1>10, <1>11, <1>12, <1>13
        DEF Next, ReadsOnly

-----------------------------------------------------------------------------
(* What holds whatever races                                               *)

\* What a handler has read of its session and account, and what others cannot undo
\* while it has the rows.
Grounded(q) ==
    LET s == req[q].on
        a == req[q].acct
    IN  /\ At(q, {"account", "backfill", "served", "switch"}) /\ s \in live => a \in ever[s]
        /\ At(q, {"account", "backfill", "served", "switch", "link", "linking"}) => s \in Sessions
        /\ At(q, {"linking"}) => s \in live
        /\ At(q, {"linking", "creating", "disable", "password"}) => status[a] # "none"

SessionsGrounded ==
    /\ OnlyAuthenticated
    /\ \A s \in Sessions : Acting(s) # {} => s \in live
    /\ \A a \in Accounts : status[a] = "none" => \A s \in Sessions : a \notin Acting(s)

EverInv == TypeOK /\ SessionsGrounded /\ \A q \in Requests : Grounded(q)

\* A handler stays grounded in the steps of others that keep what it counts on.
LEMMA OthersGrounded ==
    ASSUME NEW r \in Requests, NEW q \in Requests \ {r}, Grounded(q),
           req'[q].pc = req[q].pc, req'[q].on = req[q].on, req'[q].acct = req[q].acct,
           \A s \in live' : (s \in live /\ ever[s] \subseteq ever'[s]) \/ s # req[q].on,
           At(q, {"linking"}) => req[q].on \in live',
           At(q, {"linking", "creating", "disable", "password"}) => status'[req[q].acct] # "none"
    PROVE  Grounded(q)'
BY DEF Grounded, At

\* A handler that is done with its session counts on nothing.
LEMMA EndedGrounded ==
    ASSUME NEW r \in Requests, req'[r].pc \in {"idle", "deleting", "leave"}
    PROVE  Grounded(r)'
BY DEF Grounded, At

\* The rows of some sessions go, none of them held by a link in the making.
LEMMA EndGrounded ==
    ASSUME EverInv, NEW gone \in SUBSET Sessions, End(gone)
    PROVE  SessionsGrounded'
BY DEF EverInv, TypeOK, SessionsGrounded, OnlyAuthenticated, Acting, End, Cleared

\* Steps that leave the rows alone keep what holds whatever races.
LEMMA QuietGrounded ==
    ASSUME EverInv, NEW r \in Requests, NEW to, Quiet(r, to)
    PROVE  SessionsGrounded' /\ \A q \in Requests : Grounded(q)'
<1> USE DEF At
<1>1. UNCHANGED <<status, live, active, links, ever>> /\ TypeOK /\ to \in Handlers
    BY DEF Quiet, Reads, rows, proofs, EverInv
<1>2. /\ req'[r] = to
      /\ \A q \in Requests \ {r} :
            req'[q].pc = req[q].pc /\ req'[q].on = req[q].on /\ req'[q].acct = req[q].acct
    BY <1>1, OthersKeepPlace DEF Quiet
<1>3. SessionsGrounded'
    BY <1>1 DEF EverInv, SessionsGrounded, OnlyAuthenticated, Acting
<1>4. ASSUME NEW q \in Requests \ {r} PROVE Grounded(q)'
    BY <1>1, <1>2, Zenon DEF EverInv, Grounded
<1>5. Grounded(r)'
    <2>1. Grounded(r) /\ live \subseteq Sessions
        BY <1>1 DEF EverInv, TypeOK
    <2>2. to.pc = "account" => to.on \in Sessions /\ to.acct \in ever[to.on]
        <3>1. to.pc = "account" => /\ to.on \in Sessions /\ to.acct = active[to.on]
                                   /\ to.acct \in Accounts /\ to.acct # Nobody
            BY ConstantsAssumption DEF Quiet, Reads
        <3>2. \A s \in Sessions : active[s] # Nobody => active[s] \in ever[s]
            BY DEF EverInv, SessionsGrounded, OnlyAuthenticated, Acting
        <3> QED BY <3>1, <3>2
    <2>3. to.pc = "switch" =>
              to.on \in Sessions /\ to.acct \in ever[to.on]
        BY <1>1, <2>1 DEF Quiet, Reads, EverInv, SessionsGrounded, OnlyAuthenticated, Acting, Grounded
    <2>4. to.pc \in {"backfill", "served"} =>
              to.on \in Sessions /\ (to.on \in live => to.acct \in ever[to.on])
        BY <2>1 DEF Quiet, Reads, Grounded
    <2>5. to.pc = "link" => to.on \in Sessions
        BY <2>1 DEF Quiet, Reads, Grounded
    <2>6. /\ to.pc = "linking" => to.on \in live
          /\ to.pc \in {"linking", "creating", "disable", "password"} => status[to.acct] # "none"
        BY DEF Quiet, Reads
    <2> QED BY <1>1, <1>2, <2>1, <2>2, <2>3, <2>4, <2>5, <2>6 DEF Grounded
<1> QED BY <1>3, <1>4, <1>5

\* So does every step.
LEMMA EverNext == EverInv /\ [Next]_vars => EverInv'
<1> SUFFICES ASSUME EverInv, [Next]_vars
             PROVE  SessionsGrounded' /\ \A q \in Requests : Grounded(q)'
    BY TypeNext DEF EverInv
<1> USE DEF At
<1>1. TypeOK /\ SessionsGrounded /\ \A q \in Requests : Grounded(q)
    BY DEF EverInv
<1>2. ASSUME NEW r \in Requests, ReadsOnly(r)
      PROVE  SessionsGrounded' /\ \A q \in Requests : Grounded(q)'
    BY <1>1, <1>2, QuietSteps, QuietGrounded
\* What the steps that change rows do to the handlers.
<1>3. ASSUME NEW r \in Requests, NEW to \in Handlers, NEW a, NEW s,
             Goes(r, to) \/ Takes(r, a, to) \/ Gives(r, s, a, to),
             \A t \in live' : (t \in live /\ ever[t] \subseteq ever'[t]) \/ Fresh(t),
             \A q \in Requests \ {r} :
                /\ At(q, {"linking"}) => req[q].on \in live'
                /\ At(q, {"linking", "creating", "disable", "password"}) =>
                       status'[req[q].acct] # "none",
             to.pc \in {"idle", "deleting", "leave"} \/ Grounded(r)'
      PROVE  \A q \in Requests : Grounded(q)'
    <2>1. /\ req'[r] = to
          /\ \A q \in Requests \ {r} :
                req'[q].pc = req[q].pc /\ req'[q].on = req[q].on /\ req'[q].acct = req[q].acct
        BY <1>1, <1>3, OthersKeepPlace
    <2>2. ASSUME NEW q \in Requests \ {r} PROVE Grounded(q)'
        <3>1. \A t \in live' : (t \in live /\ ever[t] \subseteq ever'[t]) \/ t # req[q].on
            BY <1>3 DEF Fresh
        <3> QED BY <1>1, <1>3, <2>1, <3>1, OthersGrounded
    <2> QED BY <1>3, <2>1, <2>2, EndedGrounded
<1>4. ASSUME NEW r \in Requests, Backfill(r)
      PROVE  SessionsGrounded' /\ \A q \in Requests : Grounded(q)'
    <2> DEFINE s == req[r].on
               a == req[r].acct
    <2>1. s \in Sessions /\ a \in Accounts /\ (s \in live => a \in ever[s])
        BY <1>1, <1>4 DEF Backfill, Grounded, TypeOK
    <2>2. UNCHANGED <<status, live, active, ever>>
        BY <1>4 DEF Backfill, proofs
    <2> PICK to : /\ Ends(to) /\ to.pc = "served" /\ to.on = s /\ to.acct = a
                  /\ \/ Goes(r, to) /\ UNCHANGED links
                     \/ /\ Gives(r, s, a, to) /\ s \in live /\ status[a] # "none"
                        /\ links' = [links EXCEPT ![s] = @ \cup {a}]
        BY <1>1, <1>4, BackfillEnds
    <2>3. SessionsGrounded'
        <3>1. CASE UNCHANGED links
            BY <1>1, <2>2, <3>1 DEF SessionsGrounded, OnlyAuthenticated, Acting
        <3>2. CASE /\ s \in live /\ status[a] # "none"
                   /\ links' = [links EXCEPT ![s] = @ \cup {a}]
            BY <1>1, <2>1, <2>2, <3>2 DEF SessionsGrounded, OnlyAuthenticated, Acting, TypeOK
        <3> QED BY <3>1, <3>2
    <2>4. to \in Handlers /\ req'[r] = to
        BY <1>1, OthersKeepPlace DEF Ends
    <2>5. Grounded(r)'
        BY <2>1, <2>2, <2>4 DEF Grounded
    <2>6. \A q \in Requests \ {r} :
                /\ At(q, {"linking"}) => req[q].on \in live'
                /\ At(q, {"linking", "creating", "disable", "password"}) =>
                       status'[req[q].acct] # "none"
        BY <1>1, <2>2 DEF Grounded
    <2> HIDE DEF s, a
    <2> QED BY <1>3, <2>2, <2>3, <2>4, <2>5, <2>6
<1>5. ASSUME NEW r \in Requests, Logout(r)
      PROVE  SessionsGrounded' /\ \A q \in Requests : Grounded(q)'
    <2>1. End({req[r].on}) /\ Goes(r, Idle) /\ ~Held(req[r].on)
        BY <1>5 DEF Logout
    <2>2. \A q \in Requests \ {r} :
                /\ At(q, {"linking"}) => req[q].on \in live'
                /\ At(q, {"linking", "creating", "disable", "password"}) =>
                       status'[req[q].acct] # "none"
        BY <1>1, <2>1 DEF Grounded, End, Held
    <2>3. \A t \in live' : t \in live /\ ever[t] \subseteq ever'[t]
        BY <1>1, <2>1 DEF TypeOK, End, Cleared
    <2>4. End({req[r].on} \cap Sessions)
        BY <1>1, <2>1 DEF TypeOK, End, Cleared
    <2>5. SessionsGrounded'
        BY <2>4, EndGrounded
    <2> QED BY <1>3, <2>1, <2>2, <2>3, <2>5, IdleFields
<1>6. ASSUME NEW r \in Requests, SetActive(r)
      PROVE  SessionsGrounded' /\ \A q \in Requests : Grounded(q)'
    <2> DEFINE s == req[r].on
               a == req[r].acct
    <2>1. s \in Sessions /\ a \in Accounts /\ (s \in live => a \in ever[s])
        BY <1>1, <1>6 DEF SetActive, Grounded, TypeOK
    <2>2. UNCHANGED <<status, live, links, ever>>
        BY <1>6 DEF SetActive, proofs
    <2>3. \/ Goes(r, Idle) /\ UNCHANGED active
          \/ /\ Gives(r, s, a, Idle) /\ s \in live /\ status[a] # "none"
             /\ active' = [active EXCEPT ![s] = a]
        BY <1>6 DEF SetActive
    <2>4. SessionsGrounded'
        BY <1>1, <2>1, <2>2, <2>3 DEF SessionsGrounded, OnlyAuthenticated, Acting, TypeOK
    <2>5. \A q \in Requests \ {r} :
                /\ At(q, {"linking"}) => req[q].on \in live'
                /\ At(q, {"linking", "creating", "disable", "password"}) =>
                       status'[req[q].acct] # "none"
        BY <1>1, <2>2 DEF Grounded
    <2> HIDE DEF s, a
    <2> QED BY <1>3, <2>2, <2>3, <2>4, <2>5, IdleFields
<1>7. ASSUME NEW r \in Requests, CommitLink(r)
      PROVE  SessionsGrounded' /\ \A q \in Requests : Grounded(q)'
    <2> DEFINE s == req[r].on
               a == req[r].acct
    <2>1. s \in live /\ a \in Accounts /\ status[a] # "none" /\ live \subseteq Sessions
        BY <1>1, <1>7 DEF CommitLink, Grounded, TypeOK
    <2>2. UNCHANGED <<status, live>> /\ Gives(r, s, a, Idle)
        BY <1>7 DEF CommitLink
    <2>3. /\ links' = [links EXCEPT ![s] = @ \cup {a}]
          /\ active' = [active EXCEPT ![s] = a] /\ ever' = [ever EXCEPT ![s] = @ \cup {a}]
        BY <1>7 DEF CommitLink
    <2>4. SessionsGrounded'
        BY <1>1, <2>1, <2>2, <2>3 DEF SessionsGrounded, OnlyAuthenticated, Acting, TypeOK
    <2>5. \A q \in Requests \ {r} :
                /\ At(q, {"linking"}) => req[q].on \in live'
                /\ At(q, {"linking", "creating", "disable", "password"}) =>
                       status'[req[q].acct] # "none"
        BY <1>1, <2>2 DEF Grounded
    <2>6. \A t \in live' : t \in live /\ ever[t] \subseteq ever'[t]
        BY <1>1, <2>1, <2>2, <2>3 DEF TypeOK
    <2> HIDE DEF s, a
    <2> QED BY <1>3, <2>2, <2>4, <2>5, <2>6, IdleFields
<1>8. ASSUME NEW r \in Requests, Remove(r)
      PROVE  SessionsGrounded' /\ \A q \in Requests : Grounded(q)'
    <2> PICK a \in Accounts : /\ links' = [links EXCEPT ![req[r].on] = @ \ {a}]
                              /\ Takes(r, a, Idle)
        BY <1>8 DEF Remove, Removable
    <2>1. UNCHANGED <<status, live, active, ever>>
        BY <1>8 DEF Remove, proofs
    <2>2. SessionsGrounded'
        BY <1>1, <2>1 DEF SessionsGrounded, OnlyAuthenticated, Acting, TypeOK
    <2>3. \A q \in Requests \ {r} :
                /\ At(q, {"linking"}) => req[q].on \in live'
                /\ At(q, {"linking", "creating", "disable", "password"}) =>
                       status'[req[q].acct] # "none"
        BY <1>1, <2>1 DEF Grounded
    <2> QED BY <1>3, <2>1, <2>2, <2>3, IdleFields
<1>9. ASSUME NEW r \in Requests, CommitSession(r)
      PROVE  SessionsGrounded' /\ \A q \in Requests : Grounded(q)'
    <2> DEFINE a == req[r].acct
    <2> PICK s \in Sessions :
            /\ Fresh(s) /\ live' = live \cup {s} /\ active' = [active EXCEPT ![s] = a]
            /\ links' = [links EXCEPT ![s] = {a}] /\ ever' = [ever EXCEPT ![s] = {a}]
            /\ Gives(r, s, a, Idle)
        BY <1>9 DEF CommitSession
    <2>1. a \in Accounts /\ status[a] # "none" /\ UNCHANGED status
        BY <1>1, <1>9 DEF CommitSession, Grounded, TypeOK
    <2>2. SessionsGrounded'
        BY <1>1, <2>1 DEF SessionsGrounded, OnlyAuthenticated, Acting, TypeOK
    <2>3. \A q \in Requests \ {r} :
                /\ At(q, {"linking"}) => req[q].on \in live'
                /\ At(q, {"linking", "creating", "disable", "password"}) =>
                       status'[req[q].acct] # "none"
        BY <1>1, <2>1 DEF Grounded
    <2>4. \A t \in live' : (t \in live /\ ever[t] \subseteq ever'[t]) \/ Fresh(t)
        BY <1>1 DEF TypeOK
    <2> HIDE DEF a
    <2> QED BY <1>3, <2>2, <2>3, <2>4, IdleFields
<1>10. ASSUME NEW r \in Requests, Delete(r)
       PROVE  SessionsGrounded' /\ \A q \in Requests : Grounded(q)'
    <2> PICK to : /\ Ends(to) /\ to.pc = "deleting" /\ to.acct \in Accounts /\ Goes(r, to)
                  /\ status' = [status EXCEPT ![to.acct] = "DELETING"]
        BY <1>1, <1>10, DeleteEnds
    <2>1. UNCHANGED <<live, active, links, ever>>
        BY <1>10 DEF Delete, proofs
    <2>2. SessionsGrounded'
        BY <1>1, <2>1 DEF SessionsGrounded, OnlyAuthenticated, Acting, TypeOK
    <2>3. \A q \in Requests \ {r} :
                /\ At(q, {"linking"}) => req[q].on \in live'
                /\ At(q, {"linking", "creating", "disable", "password"}) =>
                       status'[req[q].acct] # "none"
        BY <1>1, <2>1 DEF Grounded, TypeOK
    <2> QED BY <1>3, <2>1, <2>2, <2>3 DEF Ends
<1>11. ASSUME NEW r \in Requests, Commit(r)
       PROVE  SessionsGrounded' /\ \A q \in Requests : Grounded(q)'
    <2> DEFINE a == req[r].acct
               gone == {s \in req[r].doomed \cap live : active[s] = a}
    <2> PICK to : Ends(to) /\ to.pc \in {"idle", "leave"} /\ Takes(r, a, to)
        BY <1>1, <1>11, CommitEnds
    <2>1. /\ a \in Accounts /\ \A s \in gone : ~Held(s)
          /\ live' = live \ gone /\ ever' = Cleared(ever, gone, {})
        BY <1>1, <1>11, CommitEnds DEF Commit
    <2>2. At(r, {"delete"}) => ~Kept(a) /\ ~Locked(a)
        BY <1>11 DEF Commit
    <2>3. \A b \in Accounts : status'[b] = "none" =>
               status[b] = "none" \/ (b = a /\ At(r, {"delete"}))
        BY <1>1, <1>11 DEF Commit, TypeOK
    <2>4. \A s \in Sessions : /\ Acting(s)' \subseteq Acting(s)
                              /\ s \in gone => Acting(s)' = {}
                              /\ At(r, {"delete"}) => a \notin Acting(s)'
        BY <1>11, ConstantsAssumption DEF Commit, Acting
    <2>5. \A s \in Sessions \ gone : ever'[s] = ever[s]
        BY <2>1 DEF Cleared
    <2>6. SessionsGrounded'
        <3> HIDE DEF gone
        <3> QED BY <1>1, <2>1, <2>3, <2>4, <2>5 DEF SessionsGrounded, OnlyAuthenticated
    <2>7. \A q \in Requests \ {r} :
                /\ At(q, {"linking"}) => req[q].on \in live'
                /\ At(q, {"linking", "creating", "disable", "password"}) =>
                       status'[req[q].acct] # "none"
        <3> HIDE DEF gone
        <3> SUFFICES ASSUME NEW q \in Requests \ {r}
                     PROVE  /\ At(q, {"linking"}) => req[q].on \in live'
                            /\ At(q, {"linking", "creating", "disable", "password"}) =>
                                   status'[req[q].acct] # "none"
            OBVIOUS
        <3>1. At(q, {"linking"}) => req[q].on \in live'
            BY <1>1, <2>1 DEF Grounded, Held
        <3>2. At(q, {"linking", "creating", "disable", "password"}) =>
                  req[q].acct \in Accounts /\ status[req[q].acct] # "none"
            BY <1>1 DEF Grounded, TypeOK
        <3>3. At(q, {"linking", "creating", "disable", "password"}) /\ At(r, {"delete"}) =>
                  req[q].acct # a
            BY <2>2 DEF Kept, Locked
        <3> QED BY <2>3, <3>1, <3>2, <3>3
    <2>8. \A t \in live' : t \in live /\ ever[t] \subseteq ever'[t]
        BY <1>1, <2>1, <2>5 DEF TypeOK
    <2> HIDE DEF a, gone
    <2> QED BY <1>3, <2>6, <2>7, <2>8 DEF Ends
<1>12. ASSUME NEW a \in Accounts, Enable(a)
       PROVE  SessionsGrounded' /\ \A q \in Requests : Grounded(q)'
    BY <1>1, <1>12 DEF Enable, proofs, TypeOK, SessionsGrounded, OnlyAuthenticated, Acting, Grounded
<1>13. ASSUME NEW a \in Accounts, Register(a)
       PROVE  SessionsGrounded' /\ \A q \in Requests : Grounded(q)'
    <2>1. SessionsGrounded'
        BY <1>1, <1>13 DEF Register, TypeOK, SessionsGrounded, OnlyAuthenticated, Acting
    <2>2. \A q \in Requests : Grounded(q)'
        BY <1>1, <1>13 DEF Register, TypeOK, Grounded
    <2> QED BY <2>1, <2>2
<1>14. ASSUME NEW s \in Sessions, Expire(s)
       PROVE  SessionsGrounded' /\ \A q \in Requests : Grounded(q)'
    <2>1. SessionsGrounded'
        BY <1>14, EndGrounded DEF Expire
    <2>2. \A q \in Requests : Grounded(q)'
        BY <1>1, <1>14 DEF Expire, End, Held, Cleared, TypeOK, Grounded
    <2> QED BY <2>1, <2>2
<1>15. CASE UNCHANGED vars
    BY <1>1, <1>15 DEF vars, rows, proofs, SessionsGrounded, OnlyAuthenticated, Acting, Grounded
<1> QED BY <1>2, <1>4, <1>5, <1>6, <1>7, <1>8, <1>9, <1>10, <1>11, <1>12, <1>13, <1>14, <1>15
        DEF Next, ReadsOnly

-----------------------------------------------------------------------------
(* What holds as long as no account is given while it is taken             *)

\* What a handler has read is true still, but for the accounts given or taken meanwhile.
Abreast(q) ==
    LET s == req[q].on
        a == req[q].acct
    IN  /\ At(q, {"account", "backfill", "served", "switch"}) /\ s \in live /\ a \notin taken[q] =>
               a \in proved[s]
        /\ At(q, {"switch"}) /\ s \in live /\ a \notin taken[q] => a \in links[s]
        /\ At(q, {"account", "backfill", "served"}) /\ active[s] \notin {a, Nobody} =>
               active[s] \in given[q]
        /\ At(q, {"disable", "password", "delete"}) /\ a \notin given[q] =>
               \A t \in Sessions : /\ active[t] = a => t \in req[q].doomed
                                   /\ a \in links[t] => t \in req[q].severed

SessionsAbreast ==
    /\ \A s \in Sessions : Acting(s) \subseteq proved[s]
    /\ \A s \in Sessions \ legacy : active[s] # Nobody => active[s] \in links[s]

UnracedInv == ~raced => SessionsAbreast /\ \A q \in Requests : Abreast(q)

\* What the handlers remember of a step that gives or takes an account.
LEMMA Remembered ==
    ASSUME TypeOK, NEW r \in Requests, NEW to \in Handlers, NEW a, NEW s,
           Goes(r, to) \/ Takes(r, a, to) \/ Gives(r, s, a, to), ~raced'
    PROVE  /\ ~raced
           /\ Takes(r, a, to) => a \notin given[r]
           /\ Gives(r, s, a, to) => a \notin taken[r]
           /\ to.pc # "idle" => given'[r] = given[r] /\ taken'[r] = taken[r]
           /\ \A q \in Requests \ {r} : req[q].pc # "idle" =>
                /\ given[q] \subseteq given'[q] /\ taken[q] \subseteq taken'[q]
                /\ Takes(r, a, to) => a \in taken'[q]
                /\ Gives(r, s, a, to) => a \in given'[q]
<1>1. ~raced
    BY DEF TypeOK, Goes, Takes, Gives
<1>2. ASSUME to.pc # "idle" PROVE given'[r] = given[r] /\ taken'[r] = taken[r]
    <2>1. \A S : Missed(given, r, to, S)[r] = given[r] /\ Missed(taken, r, to, S)[r] = taken[r]
        BY <1>1, <1>2, IdleFields DEF Missed, Busy
    <2> QED BY <2>1, Zenon DEF Goes, Takes, Gives
<1>3. ASSUME NEW q \in Requests \ {r}, req[q].pc # "idle"
      PROVE  /\ given[q] \subseteq given'[q] /\ taken[q] \subseteq taken'[q]
             /\ Takes(r, a, to) => a \in taken'[q]
             /\ Gives(r, s, a, to) => a \in given'[q]
    <2>1. \A S : /\ Missed(given, r, to, S)[q] = given[q] \cup S
                 /\ Missed(taken, r, to, S)[q] = taken[q] \cup S
        BY <1>1, <1>3 DEF Missed, Busy, At
    <2>2. Goes(r, to) => given'[q] = given[q] \cup {} /\ taken'[q] = taken[q] \cup {}
        BY <2>1, Zenon DEF Goes
    <2>3. Takes(r, a, to) => given'[q] = given[q] \cup {} /\ taken'[q] = taken[q] \cup {a}
        BY <2>1, Zenon DEF Takes
    <2>4. Gives(r, s, a, to) => given'[q] = given[q] \cup {a} /\ taken'[q] = taken[q] \cup {}
        BY <2>1, Zenon DEF Gives
    <2> QED BY <2>2, <2>3, <2>4
<1> QED BY <1>1, <1>2, <1>3 DEF Takes, Gives

\* What a step of another handler does to the sessions, if it has to do with account a.
Lessens(a) ==
    /\ \A t \in Sessions : active'[t] \in {active[t], Nobody} /\ links'[t] \subseteq links[t]
    /\ \A t \in live' : /\ t \in live
                        /\ proved[t] \ {a} \subseteq proved'[t] /\ links[t] \ {a} \subseteq links'[t]

Augments(a) ==
    /\ \A t \in Sessions : active'[t] \in {active[t], a} /\ links'[t] \subseteq links[t] \cup {a}
    /\ \A t \in live' : \/ t \in live /\ proved[t] \subseteq proved'[t] /\ links[t] \subseteq links'[t]
                        \/ Fresh(t)

\* A handler stays abreast of the steps of others, but for the accounts it has missed.
LEMMA OthersAbreast ==
    ASSUME TypeOK, NEW r \in Requests, NEW q \in Requests \ {r}, Abreast(q), Grounded(q),
           NEW to \in Handlers, NEW a, NEW s,
           \/ Goes(r, to) /\ a = Nobody /\ Lessens(a)
           \/ Takes(r, a, to) /\ Lessens(a)
           \/ Gives(r, s, a, to) /\ Augments(a),
           ~raced'
    PROVE  Abreast(q)'
<1> USE DEF At
<1>1. /\ req'[q].pc = req[q].pc /\ req'[q].on = req[q].on /\ req'[q].acct = req[q].acct
      /\ req'[q].doomed = req[q].doomed
      /\ req'[q] = req[q] \/ (Gives(r, s, a, to) /\ req[q].acct = a)
    BY OthersKeepPlace
<1>2. req[q].pc # "idle" =>
        /\ given[q] \subseteq given'[q] /\ taken[q] \subseteq taken'[q]
        /\ Takes(r, a, to) => a \in taken'[q]
        /\ Gives(r, s, a, to) => a \in given'[q]
    BY Remembered
<1>3. At(q, {"account", "backfill", "served", "switch", "disable", "password", "delete"}) =>
          req[q].acct \in Accounts /\ req[q].acct # Nobody
    BY ConstantsAssumption DEF TypeOK
<1>4. ASSUME At(q, {"account", "backfill", "served", "switch"}), req[q].on \in live',
             req[q].acct \notin taken'[q]
      PROVE  /\ req[q].acct \in proved'[req[q].on]
             /\ At(q, {"switch"}) => req[q].acct \in links'[req[q].on]
    <2>1. Augments(a) \/ (Lessens(a) /\ req[q].acct # a)
        BY <1>2, <1>3, <1>4
    <2>2. ~Fresh(req[q].on)
        BY DEF Fresh
    <2>3. req[q].on \in live
        BY <1>4, <2>2 DEF Lessens, Augments
    <2>4. /\ req[q].acct \in proved[req[q].on]
          /\ At(q, {"switch"}) => req[q].acct \in links[req[q].on]
        BY <1>2, <1>4, <2>3 DEF Abreast
    <2> QED BY <1>4, <2>1, <2>2, <2>4 DEF Lessens, Augments
<1>5. ASSUME At(q, {"account", "backfill", "served"}),
             active'[req[q].on] \notin {req[q].acct, Nobody}
      PROVE  active'[req[q].on] \in given'[q]
    <2>1. req[q].on \in Sessions
        BY <1>5 DEF Grounded
    <2>2. CASE active'[req[q].on] = active[req[q].on]
        BY <1>2, <1>5, <2>2 DEF Abreast
    <2>3. CASE Gives(r, s, a, to) /\ active'[req[q].on] = a
        BY <1>2, <1>5, <2>3
    <2> QED BY <1>5, <2>1, <2>2, <2>3 DEF Lessens, Augments
<1>6. ASSUME At(q, {"disable", "password", "delete"}), req[q].acct \notin given'[q],
             NEW t \in Sessions
      PROVE  /\ active'[t] = req[q].acct => t \in req'[q].doomed
             /\ req[q].acct \in links'[t] => t \in req'[q].severed
    <2>1. req'[q] = req[q] /\ req[q].acct \notin given[q]
        BY <1>1, <1>2, <1>6
    <2>2. /\ active[t] = req[q].acct => t \in req[q].doomed
          /\ req[q].acct \in links[t] => t \in req[q].severed
        BY <1>6, <2>1 DEF Abreast
    <2>3. Augments(a) /\ Gives(r, s, a, to) => req[q].acct # a
        BY <1>2, <1>6
    <2> QED BY <1>3, <1>6, <2>1, <2>2, <2>3 DEF Lessens, Augments
<1> QED BY <1>1, <1>4, <1>5, <1>6 DEF Abreast

\* A handler that is done with its session knows nothing of it.
LEMMA EndedAbreast ==
    ASSUME NEW r \in Requests, req'[r].pc \in {"idle", "deleting", "leave"}
    PROVE  Abreast(r)'
BY DEF Abreast, At

\* The rows of some sessions go.
LEMMA EndAbreast ==
    ASSUME TypeOK, NEW gone \in SUBSET Sessions, End(gone)
    PROVE  Lessens(Nobody) /\ (SessionsAbreast => SessionsAbreast')
<1>1. Lessens(Nobody)
    BY DEF TypeOK, End, Cleared, Lessens
<1>2. SessionsAbreast => SessionsAbreast'
    BY DEF TypeOK, End, Cleared, SessionsAbreast, Acting
<1> QED BY <1>1, <1>2

\* Steps that leave the rows alone keep what holds without a race.
LEMMA QuietAbreast ==
    ASSUME EverInv, SessionsAbreast, \A q \in Requests : Abreast(q),
           NEW r \in Requests, NEW to, Quiet(r, to), ~raced'
    PROVE  SessionsAbreast' /\ \A q \in Requests : Abreast(q)'
<1> USE DEF At
<1>1. /\ UNCHANGED <<status, live, active, links, legacy, proved>> /\ to \in Handlers
      /\ TypeOK /\ SessionsGrounded /\ \A q \in Requests : Grounded(q)
    BY DEF Quiet, Reads, rows, proofs, EverInv
<1>2. SessionsAbreast'
    BY <1>1 DEF SessionsAbreast, Acting
<1>3. ASSUME NEW q \in Requests \ {r} PROVE Abreast(q)'
    <2>1. Lessens(Nobody)
        BY <1>1 DEF Lessens
    <2> QED BY <1>1, <2>1, OthersAbreast DEF Quiet
<1>4. Abreast(r)'
    <2>1. req'[r] = to /\ (to.pc # "idle" => given'[r] = given[r] /\ taken'[r] = taken[r])
        BY <1>1, OthersKeepPlace, Remembered DEF Quiet
    <2>2. Reads(r, to) /\ (to.pc # "idle" => to.acct \in Accounts /\ to.acct # Nobody)
        BY ConstantsAssumption DEF Quiet, Reads
    <2>3. CASE to.pc = "account"
        <3>1. to.on \in Sessions /\ to.acct = active[to.on] /\ to.acct \in proved[to.on]
            BY <2>2, <2>3 DEF Reads, SessionsAbreast, Acting
        <3> QED BY <1>1, <2>1, <2>3, <3>1 DEF Abreast
    <2>4. CASE to.pc \in {"backfill", "served"}
        <3>1. req[r].pc = "account" /\ to.on = req[r].on /\ to.acct = req[r].acct
            BY <2>2, <2>4 DEF Reads
        <3> QED BY <1>1, <2>1, <2>4, <3>1 DEF Abreast
    <2>5. CASE to.pc = "switch"
        <3>1. to.on = req[r].on /\ req[r].pc = "served" /\ to.acct \in links[to.on]
            BY <2>2, <2>5 DEF Reads
        <3>2. to.on \in Sessions
            BY <1>1, <3>1 DEF Grounded
        <3>3. to.acct \in proved[to.on]
            BY <3>1, <3>2 DEF SessionsAbreast, Acting
        <3> QED BY <1>1, <2>1, <2>5, <3>1, <3>3 DEF Abreast
    <2>6. CASE to.pc \in {"disable", "password", "delete"}
        <3>1. to.doomed = {s \in live : active[s] = to.acct} /\ to.severed = Severed(to.acct)
            BY <2>2, <2>6 DEF Reads
        <3>2. \A t \in Sessions : active[t] # Nobody => t \in live
            BY <1>1 DEF SessionsGrounded, Acting
        <3>3. \A t \in Sessions : /\ active[t] = to.acct => t \in to.doomed
                                  /\ to.acct \in links[t] => t \in to.severed
            BY <2>2, <2>6, <3>1, <3>2 DEF Severed
        <3> QED BY <1>1, <2>1, <2>6, <3>3 DEF Abreast
    <2>7. CASE to.pc \notin {"account", "backfill", "served", "switch", "disable", "password",
                             "delete"}
        BY <2>1, <2>7 DEF Abreast
    <2> QED BY <2>3, <2>4, <2>5, <2>6, <2>7
<1> QED BY <1>2, <1>3, <1>4

\* So does every step.
LEMMA UnracedNext == EverInv /\ UnracedInv /\ [Next]_vars => UnracedInv'
<1> SUFFICES ASSUME EverInv, UnracedInv, [Next]_vars, ~raced'
             PROVE  SessionsAbreast' /\ \A q \in Requests : Abreast(q)'
    BY DEF UnracedInv
<1> USE DEF At
<1>1. TypeOK /\ SessionsGrounded /\ \A q \in Requests : Grounded(q)
    BY DEF EverInv
\* Once there is no race any more, there was none before.
<1>2. ASSUME ~raced PROVE SessionsAbreast /\ \A q \in Requests : Abreast(q)
    BY <1>2 DEF UnracedInv
<1>3. ASSUME NEW r \in Requests, ReadsOnly(r)
      PROVE  SessionsAbreast' /\ \A q \in Requests : Abreast(q)'
    <2> PICK to : Quiet(r, to)
        BY <1>1, <1>3, QuietSteps
    <2>1. ~raced
        BY DEF Quiet, Goes
    <2> QED BY <1>2, <2>1, QuietAbreast
\* What the steps that change rows do to the handlers.
<1>4. ASSUME NEW r \in Requests, NEW to, Ends(to), to.pc # "served" \/ Abreast(r)',
             NEW a, NEW s,
             \/ Goes(r, to) /\ a = Nobody /\ Lessens(a)
             \/ Takes(r, a, to) /\ Lessens(a)
             \/ Gives(r, s, a, to) /\ Augments(a)
      PROVE  \A q \in Requests : Abreast(q)'
    <2>1. to \in Handlers /\ req'[r] = to /\ ~raced
        BY <1>1, <1>4, OthersKeepPlace, Remembered DEF Ends
    <2>2. ASSUME NEW q \in Requests \ {r} PROVE Abreast(q)'
        BY <1>1, <1>2, <1>4, <2>1, OthersAbreast
    <2>3. Abreast(r)'
        BY <1>4, <2>1, EndedAbreast DEF Ends
    <2> QED BY <2>2, <2>3
<1>5. ASSUME NEW r \in Requests, Backfill(r)
      PROVE  SessionsAbreast' /\ \A q \in Requests : Abreast(q)'
    <2> DEFINE s == req[r].on
               a == req[r].acct
    <2>1. s \in Sessions /\ a \in Accounts /\ UNCHANGED <<status, live, active, legacy, proved>>
        BY <1>1, <1>5 DEF Backfill, Grounded, TypeOK, proofs
    <2> PICK to : /\ Ends(to) /\ to.pc = "served" /\ to.on = s /\ to.acct = a
                  /\ \/ Goes(r, to) /\ UNCHANGED links
                     \/ /\ Gives(r, s, a, to) /\ s \in live
                        /\ links' = [links EXCEPT ![s] = @ \cup {a}]
        BY <1>1, <1>5, BackfillEnds
    <2>2. /\ ~raced /\ req'[r] = to /\ given'[r] = given[r] /\ taken'[r] = taken[r]
          /\ Gives(r, s, a, to) => a \notin taken[r]
        BY <1>1, OthersKeepPlace, Remembered DEF Ends
    <2>3. Abreast(r)'
        BY <1>2, <1>5, <2>1, <2>2 DEF Backfill, Abreast
    <2>4. CASE Goes(r, to) /\ UNCHANGED links
        <3>1. SessionsAbreast' /\ Lessens(Nobody)
            BY <1>2, <2>1, <2>2, <2>4 DEF SessionsAbreast, Acting, Lessens
        <3> QED BY <1>4, <2>3, <2>4, <3>1
    <2>5. CASE /\ Gives(r, s, a, to) /\ s \in live
               /\ links' = [links EXCEPT ![s] = @ \cup {a}]
        <3>1. a \in proved[s]
            BY <1>2, <1>5, <2>2, <2>5 DEF Backfill, Abreast
        <3>2. SessionsAbreast'
            BY <1>1, <1>2, <2>1, <2>2, <2>5, <3>1 DEF SessionsAbreast, Acting, TypeOK
        <3>3. Augments(a)
            BY <1>1, <2>1, <2>5 DEF Augments, TypeOK
        <3> HIDE DEF s, a
        <3> QED BY <1>4, <2>3, <2>5, <3>2, <3>3
    <2> QED BY <2>4, <2>5
<1>6. ASSUME NEW r \in Requests, Logout(r)
      PROVE  SessionsAbreast' /\ \A q \in Requests : Abreast(q)'
    <2>1. Goes(r, Idle) /\ End({req[r].on} \cap Sessions) /\ ~raced
        BY <1>1, <1>6 DEF Logout, TypeOK, End, Cleared, Goes
    <2>2. SessionsAbreast' /\ Lessens(Nobody)
        BY <1>1, <1>2, <2>1, EndAbreast
    <2> QED BY <1>4, <2>1, <2>2, EndsIdle, IdleFields
<1>7. ASSUME NEW r \in Requests, SetActive(r)
      PROVE  SessionsAbreast' /\ \A q \in Requests : Abreast(q)'
    <2> DEFINE s == req[r].on
               a == req[r].acct
    <2>1. s \in Sessions /\ a \in Accounts /\ UNCHANGED <<status, live, links, legacy, proved>>
        BY <1>1, <1>7 DEF SetActive, Grounded, TypeOK, proofs
    <2>2. CASE Goes(r, Idle) /\ UNCHANGED active
        <3>1. SessionsAbreast' /\ Lessens(Nobody)
            BY <1>2, <2>1, <2>2 DEF SessionsAbreast, Acting, Lessens, Goes
        <3> QED BY <1>4, <2>2, <3>1, EndsIdle, IdleFields
    <2>3. CASE Gives(r, s, a, Idle) /\ s \in live /\ active' = [active EXCEPT ![s] = a]
        <3>1. ~raced /\ a \notin taken[r]
            BY <1>1, <2>3, Remembered, EndsIdle DEF Ends
        <3>2. a \in proved[s] /\ a \in links[s]
            BY <1>2, <1>7, <2>3, <3>1 DEF SetActive, Abreast
        <3>3. SessionsAbreast'
            BY <1>1, <1>2, <2>1, <2>3, <3>1, <3>2 DEF SessionsAbreast, Acting, TypeOK
        <3>4. Augments(a)
            BY <1>1, <2>1, <2>3 DEF Augments, TypeOK
        <3> HIDE DEF s, a
        <3> QED BY <1>4, <2>3, <3>3, <3>4, EndsIdle, IdleFields
    <2> QED BY <1>7, <2>2, <2>3 DEF SetActive
<1>8. ASSUME NEW r \in Requests, CommitLink(r)
      PROVE  SessionsAbreast' /\ \A q \in Requests : Abreast(q)'
    <2> DEFINE s == req[r].on
               a == req[r].acct
    <2>1. s \in live /\ a \in Accounts /\ live \subseteq Sessions
        BY <1>1, <1>8 DEF CommitLink, Grounded, TypeOK
    <2>2. /\ UNCHANGED <<live, legacy>> /\ Gives(r, s, a, Idle)
          /\ links' = [links EXCEPT ![s] = @ \cup {a}] /\ active' = [active EXCEPT ![s] = a]
          /\ proved' = [proved EXCEPT ![s] = @ \cup ({a} \ taken[r])]
        BY <1>8 DEF CommitLink
    <2>3. ~raced /\ a \notin taken[r]
        BY <1>1, <2>2, Remembered, EndsIdle DEF Ends
    <2>4. SessionsAbreast'
        BY <1>1, <1>2, <2>1, <2>2, <2>3 DEF SessionsAbreast, Acting, TypeOK
    <2>5. Augments(a)
        BY <1>1, <2>1, <2>2 DEF Augments, TypeOK
    <2> HIDE DEF s, a
    <2> QED BY <1>4, <2>2, <2>4, <2>5, EndsIdle, IdleFields
<1>9. ASSUME NEW r \in Requests, Remove(r)
      PROVE  SessionsAbreast' /\ \A q \in Requests : Abreast(q)'
    <2> DEFINE s == req[r].on
    <2> PICK a \in Accounts \ {req[r].acct} : /\ links' = [links EXCEPT ![s] = @ \ {a}]
                                              /\ Takes(r, a, Idle)
        BY <1>9 DEF Remove, Removable
    <2>1. s \in Sessions /\ UNCHANGED <<live, active, legacy, proved>>
        BY <1>1, <1>9 DEF Remove, Grounded, proofs
    <2>2. ~raced /\ a \notin given[r] /\ a # Nobody
        BY <1>1, Remembered, EndsIdle, ConstantsAssumption DEF Ends
    <2>3. active[s] # a
        BY <1>2, <1>9, <2>2 DEF Remove, Abreast
    <2>4. SessionsAbreast'
        BY <1>1, <1>2, <2>1, <2>2, <2>3 DEF SessionsAbreast, Acting, TypeOK
    <2>5. Lessens(a)
        BY <1>1, <2>1 DEF Lessens, TypeOK
    <2> HIDE DEF s
    <2> QED BY <1>4, <2>4, <2>5, EndsIdle, IdleFields
<1>10. ASSUME NEW r \in Requests, CommitSession(r)
       PROVE  SessionsAbreast' /\ \A q \in Requests : Abreast(q)'
    <2> DEFINE a == req[r].acct
    <2> PICK s \in Sessions :
            /\ Fresh(s) /\ live' = live \cup {s} /\ active' = [active EXCEPT ![s] = a]
            /\ links' = [links EXCEPT ![s] = {a}]
            /\ proved' = [proved EXCEPT ![s] = {a} \ taken[r]]
            /\ Gives(r, s, a, Idle)
        BY <1>10 DEF CommitSession
    <2>1. a \in Accounts /\ UNCHANGED legacy
        BY <1>1, <1>10 DEF CommitSession, TypeOK
    <2>2. ~raced /\ a \notin taken[r]
        BY <1>1, Remembered, EndsIdle DEF Ends
    <2>3. SessionsAbreast'
        BY <1>1, <1>2, <2>1, <2>2 DEF SessionsAbreast, Acting, TypeOK
    <2>4. links[s] = {}
        BY <1>1 DEF SessionsGrounded, Acting, Fresh
    <2>5. Augments(a)
        BY <1>1, <2>1, <2>4 DEF Augments, TypeOK
    <2> HIDE DEF a
    <2> QED BY <1>4, <2>3, <2>5, EndsIdle, IdleFields
<1>11. ASSUME NEW r \in Requests, Delete(r)
       PROVE  SessionsAbreast' /\ \A q \in Requests : Abreast(q)'
    <2> PICK to : Ends(to) /\ to.pc = "deleting" /\ Goes(r, to)
        BY <1>1, <1>11, DeleteEnds
    <2>1. UNCHANGED <<live, active, links, legacy, proved>> /\ ~raced
        BY <1>11 DEF Delete, proofs, Goes
    <2>2. SessionsAbreast' /\ Lessens(Nobody)
        BY <1>2, <2>1 DEF SessionsAbreast, Acting, Lessens
    <2> QED BY <1>4, <2>2
<1>12. ASSUME NEW r \in Requests, Commit(r)
       PROVE  SessionsAbreast' /\ \A q \in Requests : Abreast(q)'
    <2> DEFINE a == req[r].acct
               gone == {s \in req[r].doomed \cap live : active[s] = a}
               cut == IF At(r, {"delete"}) THEN Sessions ELSE req[r].severed
    <2> PICK to : Ends(to) /\ to.pc \in {"idle", "leave"} /\ Takes(r, a, to)
        BY <1>1, <1>12, CommitEnds
    <2>1. ~raced /\ a \notin given[r] /\ a \in Accounts /\ a # Nobody
        BY <1>1, <1>12, Remembered, CommitEnds, ConstantsAssumption DEF Ends
    <2>2. /\ live' = live \ gone /\ legacy' = legacy \ gone
          /\ active' = [s \in Sessions |-> IF s \in gone \/ (At(r, {"delete"}) /\ active[s] = a)
                                           THEN Nobody ELSE active[s]]
          /\ links' = [s \in Sessions |-> IF s \in gone THEN {}
                                          ELSE IF s \in cut THEN links[s] \ {a} ELSE links[s]]
          /\ proved' = [s \in Sessions |-> IF s \in gone THEN {} ELSE proved[s] \ {a}]
        BY <1>12 DEF Commit
    <2>3. \A s \in Sessions : /\ active[s] = a => s \in req[r].doomed /\ s \in live
                              /\ a \in links[s] => s \in cut
        BY <1>1, <1>2, <1>12, <2>1 DEF Commit, Abreast, SessionsGrounded, Acting
    <2>4. \A s \in Sessions : active[s] = a => s \in gone
        BY <2>3
    <2> HIDE DEF gone, cut
    <2>5. ASSUME NEW s \in Sessions PROVE Acting(s)' \subseteq proved'[s]
        BY <1>2, <2>1, <2>2, <2>3, <2>4 DEF SessionsAbreast, Acting
    <2>6. ASSUME NEW s \in Sessions \ legacy', active'[s] # Nobody PROVE active'[s] \in links'[s]
        BY <1>1, <1>2, <2>1, <2>2, <2>4, <2>6 DEF SessionsAbreast, TypeOK
    <2>7. Lessens(a)
        BY <1>1, <2>2 DEF Lessens, TypeOK
    <2> HIDE DEF a
    <2> QED BY <1>4, <2>5, <2>6, <2>7 DEF SessionsAbreast
<1>13. ASSUME NEW a \in Accounts, Enable(a) \/ Register(a)
       PROVE  SessionsAbreast' /\ \A q \in Requests : Abreast(q)'
    <2>1. UNCHANGED <<live, active, links, req, legacy, proved, given, taken, raced>>
        BY <1>13 DEF Enable, Register, proofs
    <2> QED BY <1>2, <2>1 DEF SessionsAbreast, Acting, Abreast
<1>14. ASSUME NEW s \in Sessions, Expire(s)
       PROVE  SessionsAbreast' /\ \A q \in Requests : Abreast(q)'
    <2>1. End({s}) /\ UNCHANGED <<req, given, taken, raced>>
        BY <1>14 DEF Expire
    <2>2. SessionsAbreast' /\ Lessens(Nobody)
        BY <1>1, <1>2, <2>1, EndAbreast
    <2>3. ASSUME NEW q \in Requests PROVE Abreast(q)'
        <3>1. req[q].pc # "idle" => req[q].acct \in Accounts /\ req[q].acct # Nobody
            BY <1>1, ConstantsAssumption DEF TypeOK
        <3>2. At(q, {"account", "backfill", "served"}) => req[q].on \in Sessions
            BY <1>1 DEF Grounded
        <3> QED BY <1>2, <2>1, <2>2, <3>1, <3>2 DEF Abreast, Lessens
    <2> QED BY <2>2, <2>3
<1>15. CASE UNCHANGED vars
    BY <1>2, <1>15 DEF vars, rows, proofs, SessionsAbreast, Acting, Abreast
<1> QED BY <1>3, <1>5, <1>6, <1>7, <1>8, <1>9, <1>10, <1>11, <1>12, <1>13, <1>14, <1>15
        DEF Next, ReadsOnly

-----------------------------------------------------------------------------
(* The theorems                                                            *)

\* Both invariants hold at first.
LEMMA InvInit == Init => EverInv /\ UnracedInv
<1> SUFFICES ASSUME Init PROVE EverInv /\ UnracedInv
    OBVIOUS
<1>1. TypeOK /\ \A q \in Requests : req[q].pc = "idle"
    BY TypeInit, IdleFields DEF Init
<1>2. \A q \in Requests : Grounded(q) /\ Abreast(q)
    BY <1>1 DEF Grounded, Abreast, At
<1>3. SessionsGrounded
    BY ConstantsAssumption DEF Init, SessionsGrounded, OnlyAuthenticated, Acting
<1>4. SessionsAbreast
    BY DEF Init, SessionsAbreast, Acting
<1> QED BY <1>1, <1>2, <1>3, <1>4 DEF EverInv, UnracedInv

\* Accounts, sessions and handlers keep their types in every behaviour of the handlers.
THEOREM TypeCorrect == Spec => []TypeOK
<1>1. Init => TypeOK
    BY TypeInit
<1>2. TypeOK /\ [Next]_vars => TypeOK'
    BY TypeNext
<1> QED BY <1>1, <1>2, PTL DEF Spec

\* Switches, backfills, links and deletions, in whatever order their statements come,
\* leave no account in a session in which it has not been authenticated.
THEOREM SessionsHoldOnlyAuthenticated == Spec => []OnlyAuthenticated
<1>1. Init => EverInv
    BY InvInit
<1>2. EverInv /\ [Next]_vars => EverInv'
    BY EverNext
<1>3. EverInv => OnlyAuthenticated
    BY DEF EverInv, SessionsGrounded
<1> QED BY <1>1, <1>2, <1>3, PTL DEF Spec

\* Without a race, the sessions and what handlers have read of them agree.
LEMMA UnracedInvariant == Spec => []UnracedInv
<1>1. Init => EverInv /\ UnracedInv
    BY InvInit
<1>2. EverInv /\ UnracedInv /\ [Next]_vars => (EverInv /\ UnracedInv)'
    BY EverNext, UnracedNext
<1> QED BY <1>1, <1>2, PTL DEF Spec

\* A session that keeps an account after its password or status has changed was given it
\* meanwhile: with no such race, every change invalidates the account everywhere.
THEOREM OnlyRacesOutliveChanges == Spec => []ChangesInvalidate
<1>1. UnracedInv => ChangesInvalidate
    BY DEF UnracedInv, SessionsAbreast, ChangesInvalidate
<1> QED BY <1>1, UnracedInvariant, PTL

\* With no such race, the account in use is linked, in every session that has had links.
THEOREM OnlyRacesUnlinkTheActive == Spec => []ActiveIsLinked
<1>1. UnracedInv => ActiveIsLinked
    BY DEF UnracedInv, SessionsAbreast, ActiveIsLinked
<1> QED BY <1>1, UnracedInvariant, PTL

\* Both: with no such race, sessions keep up with their accounts and links.
THEOREM OnlyRacesLeaveSessionsBehind == Spec => []SessionsKeepUp
<1>1. ChangesInvalidate /\ ActiveIsLinked => SessionsKeepUp
    BY DEF SessionsKeepUp
<1> QED BY <1>1, OnlyRacesOutliveChanges, OnlyRacesUnlinkTheActive, PTL
=============================================================================
