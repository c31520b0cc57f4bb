--------------------------- MODULE BrowserSessions ---------------------------
(***************************************************************************)
(* The browser sessions and the accounts linked to them: every request     *)
(* loads its session first, then switches to a linked account, adds or     *)
(* removes one, logs out, or changes what holds of an account itself; an   *)
(* account that is disabled, deleted or given another password loses its   *)
(* sessions. Each statement at READ COMMITTED reads rows at one moment and *)
(* changes them at a later one. A member of Requests handles one request   *)
(* after the other, of any browser.                                        *)
(***************************************************************************)

CONSTANTS
    Accounts,  \* ids of accounts
    Sessions,  \* ids of browser sessions
    Requests,  \* handlers at work
    Nobody     \* active_account_id IS NULL, and no session

ASSUME ConstantsAssumption == Nobody \notin Accounts /\ Nobody \notin Sessions

VARIABLES
    status,  \* of each account; "none" when it has no row
    live,    \* sessions that have a row
    active,  \* active_account_id of each session
    links,   \* browser_session_accounts of each session
    req,     \* what each handler is about to do, and with what it has read
    legacy,  \* sessions from before there were links
    ever,    \* history: accounts that have been authenticated in a session
    proved,  \* history: those that have been since they last lost their sessions
    given,   \* history: accounts that others have given to a session meanwhile
    taken,   \* history: accounts that others have taken from sessions meanwhile
    raced    \* history: an account was given while it was taken, or the reverse

rows == <<status, live, active, links>>
proofs == <<legacy, ever, proved>>
vars == <<rows, req, proofs, given, taken, raced>>

Idle == [pc |-> "idle", on |-> Nobody, acct |-> Nobody, linked |-> TRUE,
         doomed |-> {}, severed |-> {}]

Places == {"idle", "account", "backfill", "served", "switch", "link", "linking", "create",
           "creating", "deleting", "disable", "password", "delete", "leave"}

Handlers ==
    [pc : Places, on : Sessions \cup {Nobody}, acct : Accounts \cup {Nobody}, linked : BOOLEAN,
     doomed : SUBSET Sessions, severed : SUBSET Sessions]

TypeOK ==
    /\ status \in [Accounts -> {"ACTIVE", "DISABLED", "DELETING", "none"}]
    /\ live \subseteq Sessions /\ legacy \subseteq Sessions
    /\ active \in [Sessions -> Accounts \cup {Nobody}]
    /\ links \in [Sessions -> SUBSET Accounts]
    /\ req \in [Requests -> Handlers]
    /\ \A r \in Requests : req[r].pc # "idle" => req[r].acct \in Accounts
    /\ ever \in [Sessions -> SUBSET Accounts] /\ proved \in [Sessions -> SUBSET Accounts]
    /\ given \in [Requests -> SUBSET Accounts] /\ taken \in [Requests -> SUBSET Accounts]
    /\ raced \in BOOLEAN

\* Some sessions are from before there were links.
Init ==
    /\ status = [a \in Accounts |-> "ACTIVE"]
    /\ live \in SUBSET Sessions /\ legacy = live
    /\ \E a \in Accounts :
        /\ active = [s \in Sessions |-> IF s \in live THEN a ELSE Nobody]
        /\ ever = [s \in Sessions |-> IF s \in live THEN {a} ELSE {}] /\ proved = ever
    /\ links = [s \in Sessions |-> {}]
    /\ req = [r \in Requests |-> Idle]
    /\ given = [r \in Requests |-> {}] /\ taken = [r \in Requests |-> {}]
    /\ raced = FALSE

At(r, places) == req[r].pc \in places

Busy == {r \in Requests : ~At(r, {"idle"})}

\* What the handlers under way have missed, once others have given or taken an account;
\* of no interest any more when there has been a race.
Missed(seen, r, to, accounts) ==
    [q \in Requests |-> IF raced \/ (q = r /\ to = Idle) THEN {}
                        ELSE IF q \in Busy \ {r} THEN seen[q] \cup accounts ELSE seen[q]]

\* A step of r that leaves the accounts of all sessions as they are.
Goes(r, to) ==
    /\ req' = [req EXCEPT ![r] = to]
    /\ given' = Missed(given, r, to, {}) /\ taken' = Missed(taken, r, to, {})
    /\ UNCHANGED raced

\* A step of r that takes an account from sessions.
Takes(r, a, to) ==
    /\ req' = [req EXCEPT ![r] = to]
    /\ given' = Missed(given, r, to, {}) /\ taken' = Missed(taken, r, to, {a})
    /\ raced' = (raced \/ a \in given[r])

\* A step of r that gives an account to session s. A statement that deletes the links
\* of the account and has begun does not see a new one.
Gives(r, s, a, to) ==
    /\ req' = [q \in Requests |->
                  IF q = r THEN to
                  ELSE IF req[q].acct = a /\ a \notin links[s]
                       THEN [req[q] EXCEPT !.severed = @ \ {s}] ELSE req[q]]
    /\ given' = Missed(given, r, to, {a}) /\ taken' = Missed(taken, r, to, {})
    /\ raced' = (raced \/ a \in taken[r])

Cleared(f, gone, none) == [s \in Sessions |-> IF s \in gone THEN none ELSE f[s]]

\* The rows of some sessions go, with their links.
End(gone) ==
    /\ live' = live \ gone /\ legacy' = legacy \ gone
    /\ active' = Cleared(active, gone, Nobody) /\ links' = Cleared(links, gone, {})
    /\ ever' = Cleared(ever, gone, {}) /\ proved' = Cleared(proved, gone, {})
    /\ UNCHANGED status

\* An uncommitted link keeps the row of its session, and of its account.
Held(s) == \E r \in Requests : At(r, {"linking"}) /\ req[r].on = s

Kept(a) == \E r \in Requests : At(r, {"linking", "creating"}) /\ req[r].acct = a

\* An uncommitted UPDATE has the account's row.
Locked(a) == \E r \in Requests : At(r, {"disable", "password"}) /\ req[r].acct = a

-----------------------------------------------------------------------------
(* LoadSession, which comes before every other step of a request           *)

\* The session has a row and an account.
Loadable(s) == s \in live /\ active[s] # Nobody

Load(r) ==
    /\ At(r, {"idle"})
    /\ \E s \in Sessions :
        /\ Loadable(s)
        /\ Goes(r, [Idle EXCEPT !.pc = "account", !.on = s, !.acct = active[s],
                                !.linked = active[s] \in links[s]])
    /\ UNCHANGED <<rows, proofs>>

\* "authentication required", "account is disabled"
ReadAccount(r) ==
    /\ At(r, {"account"})
    /\ Goes(r, IF status[req[r].acct] # "ACTIVE" THEN Idle
               ELSE [req[r] EXCEPT !.pc = IF req[r].linked THEN "served" ELSE "backfill"])
    /\ UNCHANGED <<rows, proofs>>

\* Best effort; the foreign keys refuse a link to what has gone.
Backfill(r) ==
    /\ At(r, {"backfill"})
    /\ LET s == req[r].on
           a == req[r].acct
           to == [req[r] EXCEPT !.pc = "served"]
       IN  \/ /\ s \in live /\ status[a] # "none"
              /\ links' = [links EXCEPT ![s] = @ \cup {a}]
              /\ Gives(r, s, a, to)
           \/ Goes(r, to) /\ UNCHANGED links
    /\ UNCHANGED <<status, live, active, proofs>>

-----------------------------------------------------------------------------
(* The accounts of a browser                                               *)

\* DestroySession
Logout(r) ==
    /\ At(r, {"served", "leave"}) /\ ~Held(req[r].on)
    /\ End({req[r].on})
    /\ Goes(r, Idle)

\* Variant: any active account will do.
SwitchableUnlinked(s, a) == s \in live /\ status[a] = "ACTIVE"

\* The condition of SetActiveAccount.
Switchable(s, a) == s \in live /\ a \in links[s] /\ status[a] = "ACTIVE"

\* SetActiveAccount finds its row: "account is not linked to this browser session"
Switch(r) ==
    /\ At(r, {"served"})
    /\ \E a \in Accounts :
        /\ Switchable(req[r].on, a)
        /\ Goes(r, [req[r] EXCEPT !.pc = "switch", !.acct = a])
    /\ UNCHANGED <<rows, proofs>>

\* The UPDATE changes it, if it is there still and the account too. The handler loads
\* the session once more, as any request does that follows.
SetActive(r) ==
    /\ At(r, {"switch"})
    /\ LET s == req[r].on
           a == req[r].acct
       IN  IF s \in live /\ status[a] # "none"
           THEN /\ active' = [active EXCEPT ![s] = a]
                /\ Gives(r, s, a, Idle)
           ELSE Goes(r, Idle) /\ UNCHANGED active
    /\ UNCHANGED <<status, live, links, proofs>>

\* Authenticate, for an account to add.
Add(r) ==
    /\ At(r, {"served"})
    /\ \E a \in Accounts :
        /\ status[a] = "ACTIVE"
        /\ Goes(r, [req[r] EXCEPT !.pc = "link", !.acct = a])
    /\ UNCHANGED <<rows, proofs>>

\* LinkBrowserAccount: the link is inserted, and SetActiveAccount finds its row.
Link(r) ==
    /\ At(r, {"link"})
    /\ Goes(r, IF req[r].on \in live /\ status[req[r].acct] = "ACTIVE"
               THEN [req[r] EXCEPT !.pc = "linking"] ELSE Idle)
    /\ UNCHANGED <<rows, proofs>>

CommitLink(r) ==
    /\ At(r, {"linking"})
    /\ LET s == req[r].on
           a == req[r].acct
       IN  /\ links' = [links EXCEPT ![s] = @ \cup {a}]
           /\ active' = [active EXCEPT ![s] = a]
           /\ ever' = [ever EXCEPT ![s] = @ \cup {a}]
           /\ proved' = [proved EXCEPT ![s] = @ \cup ({a} \ taken[r])]
           /\ Gives(r, s, a, Idle)
    /\ UNCHANGED <<status, live, legacy>>

\* "active account cannot be removed"
Removable(r) == Accounts \ {req[r].acct}

\* DeleteBrowserSessionAccount; a link that has gone already is no error.
Remove(r) ==
    /\ At(r, {"served"})
    /\ \E a \in Removable(r) :
        /\ links' = [links EXCEPT ![req[r].on] = @ \ {a}]
        /\ Takes(r, a, Idle)
    /\ UNCHANGED <<status, live, active, proofs>>

-----------------------------------------------------------------------------
(* A new session                                                           *)

\* Authenticate, or the registration before.
Login(r) ==
    /\ At(r, {"idle"})
    /\ \E a \in Accounts :
        /\ status[a] = "ACTIVE"
        /\ Goes(r, [Idle EXCEPT !.pc = "create", !.acct = a])
    /\ UNCHANGED <<rows, proofs>>

\* CreateBrowserSession finds the account active, and the link is inserted.
CreateSession(r) ==
    /\ At(r, {"create"})
    /\ Goes(r, IF status[req[r].acct] = "ACTIVE"
               THEN [req[r] EXCEPT !.pc = "creating"] ELSE Idle)
    /\ UNCHANGED <<rows, proofs>>

\* A new id is one that nobody knows, here one that nobody knows any more.
Fresh(s) ==
    /\ s \notin live
    /\ \A r \in Requests : s # req[r].on /\ s \notin req[r].doomed \cup req[r].severed

CommitSession(r) ==
    /\ At(r, {"creating"})
    /\ \E s \in Sessions :
        LET a == req[r].acct IN
        /\ Fresh(s)
        /\ live' = live \cup {s}
        /\ active' = [active EXCEPT ![s] = a]
        /\ links' = [links EXCEPT ![s] = {a}]
        /\ ever' = [ever EXCEPT ![s] = {a}]
        /\ proved' = [proved EXCEPT ![s] = {a} \ taken[r]]
        /\ Gives(r, s, a, Idle)
    /\ UNCHANGED <<status, legacy>>

-----------------------------------------------------------------------------
(* An account loses its sessions: SetUserStatus, SetAdminStatus,           *)
(* ResetPassword, ChangePassword, DeleteAdmin and Service.DeleteAccount    *)

\* The user does it to his own account, or an administrator.
Own(r) == IF At(r, {"served"}) THEN {req[r]} ELSE {}

ByAdmin(r) == IF At(r, {"idle"}) THEN {[Idle EXCEPT !.acct = a] : a \in Accounts} ELSE {}

\* Variant: a link to another account's session is not looked for.
SeveredInOwn(a) == {}

\* The links that DeleteAccountSessions finds.
Severed(a) == {s \in Sessions : a \in links[s]}

\* DeleteAccountSessions reads the rows it will delete.
Looking(request, place) ==
    LET a == request.acct IN
    [request EXCEPT !.pc = place, !.doomed = {s \in live : active[s] = a}, !.severed = Severed(a)]

Disable(r) ==
    /\ \E q \in ByAdmin(r) :
        /\ status[q.acct] # "none" /\ ~Locked(q.acct)
        /\ Goes(r, Looking(q, "disable"))
    /\ UNCHANGED <<rows, proofs>>

NewPassword(r) ==
    /\ \E q \in Own(r) \cup ByAdmin(r) :
        /\ status[q.acct] # "none" /\ ~Locked(q.acct)
        /\ Goes(r, Looking(q, "password"))
    /\ UNCHANGED <<rows, proofs>>

\* "account is already being deleted"
Delete(r) ==
    /\ \E q \in Own(r) \cup ByAdmin(r) :
        /\ status[q.acct] \notin {"DELETING", "none"} /\ ~Locked(q.acct)
        /\ status' = [status EXCEPT ![q.acct] = "DELETING"]
        /\ Goes(r, [q EXCEPT !.pc = "deleting"])
    /\ UNCHANGED <<live, active, links, proofs>>

\* DeleteAdmin, which does not mark the account before.
DeleteAdmin(r) ==
    /\ \E q \in ByAdmin(r) :
        /\ status[q.acct] \in {"ACTIVE", "DISABLED"}
        /\ Goes(r, Looking(q, "delete"))
    /\ UNCHANGED <<rows, proofs>>

DeleteSessions(r) ==
    /\ At(r, {"deleting"})
    /\ Goes(r, Looking(req[r], "delete"))
    /\ UNCHANGED <<rows, proofs>>

\* The transaction takes effect: a session it has found goes if the account is the one
\* in use still. A deleted account leaves no link, and nobody in the sessions that use it.
Commit(r) ==
    /\ At(r, {"disable", "password", "delete"})
    /\ LET a == req[r].acct
           gone == {s \in req[r].doomed \cap live : active[s] = a}
           deleted == At(r, {"delete"})
           cut == IF deleted THEN Sessions ELSE req[r].severed
       IN  /\ \A s \in gone : ~Held(s)
           /\ deleted => ~Kept(a) /\ ~Locked(a)
           /\ status' = IF At(r, {"password"}) THEN status ELSE
                        [status EXCEPT ![a] = IF deleted THEN "none" ELSE "DISABLED"]
           /\ live' = live \ gone /\ legacy' = legacy \ gone
           /\ active' = [s \in Sessions |-> IF s \in gone \/ (deleted /\ active[s] = a)
                                            THEN Nobody ELSE active[s]]
           /\ links' = [s \in Sessions |-> IF s \in gone THEN {}
                                           ELSE IF s \in cut THEN links[s] \ {a} ELSE links[s]]
           /\ ever' = Cleared(ever, gone, {})
           /\ proved' = [s \in Sessions |-> IF s \in gone THEN {} ELSE proved[s] \ {a}]
           /\ Takes(r, a, IF req[r].on = Nobody THEN Idle ELSE [req[r] EXCEPT !.pc = "leave"])

\* SetUserStatus or SetAdminStatus back to ACTIVE.
Enable(a) ==
    /\ status[a] \in {"DISABLED", "DELETING"} /\ ~Locked(a)
    /\ status' = [status EXCEPT ![a] = "ACTIVE"]
    /\ UNCHANGED <<live, active, links, req, proofs, given, taken, raced>>

\* Register commits a new account, whose id nobody knows any more.
Register(a) ==
    /\ status[a] = "none" /\ \A r \in Requests : req[r].acct # a
    /\ status' = [status EXCEPT ![a] = "ACTIVE"]
    /\ ever' = [s \in Sessions |-> ever[s] \ {a}]
    /\ UNCHANGED <<live, active, links, req, legacy, proved, given, taken, raced>>

\* DeleteExpiredSessions
Expire(s) ==
    /\ s \in live /\ ~Held(s)
    /\ End({s})
    /\ UNCHANGED <<req, given, taken, raced>>

\* A statement fails, or the client leaves.
Breaks(r) ==
    /\ r \in Busy
    /\ Goes(r, Idle)
    /\ UNCHANGED <<rows, proofs>>

-----------------------------------------------------------------------------
Next ==
    \/ \E r \in Requests :
        \/ Load(r) \/ ReadAccount(r) \/ Backfill(r) \/ Logout(r) \/ Switch(r) \/ SetActive(r)
        \/ Add(r) \/ Link(r) \/ CommitLink(r) \/ Remove(r)
        \/ Login(r) \/ CreateSession(r) \/ CommitSession(r)
        \/ Disable(r) \/ NewPassword(r) \/ Delete(r) \/ DeleteAdmin(r) \/ DeleteSessions(r)
        \/ Commit(r) \/ Breaks(r)
    \/ \E a \in Accounts : Enable(a) \/ Register(a)
    \/ \E s \in Sessions : Expire(s)

Spec == Init /\ [][Next]_vars

-----------------------------------------------------------------------------
(* Properties                                                              *)

Acting(s) == links[s] \cup ({active[s]} \ {Nobody})

\* A session only ever holds accounts that were authenticated in it, whatever switches,
\* backfills and deletions do at once.
OnlyAuthenticated == \A s \in Sessions : Acting(s) \subseteq ever[s]

\* "Password resets and account status changes invalidate linked accounts"
\* (api/handler.go:247): no session keeps an account from before, unless it was being
\* given to a session just then.
ChangesInvalidate == ~raced => \A s \in Sessions : Acting(s) \subseteq proved[s]

\* "active account cannot be removed" (api/handler.go:244): only sessions from before
\* there were links lack the link to the account in use, which LoadSession counts on.
ActiveIsLinked ==
    ~raced => \A s \in Sessions \ legacy : active[s] # Nobody => active[s] \in links[s]

\* What sessions hold keeps up with what becomes of the accounts and the links, but for
\* an account that one statement gives to a session while another takes it.
SessionsKeepUp == ChangesInvalidate /\ ActiveIsLinked
=============================================================================
