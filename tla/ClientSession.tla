---------------------------- MODULE ClientSession ----------------------------
(***************************************************************************)
(* One browser tab of the single-page application, and the session its     *)
(* cookies name.  The tab learns who is signed in from the query           *)
(* ["auth", "me"] and keeps what it fetched under keys that carry the      *)
(* account of `me`, while the server answers for the account that is       *)
(* active when it reads.  Account operations change the session first and  *)
(* the caches when their answer arrives, so an answer under way may come   *)
(* from either side.                                                       *)
(***************************************************************************)
EXTENDS Naturals, FiniteSets, QueryCache

CONSTANTS
    Users, Admins,  \* accounts by role: USER, and ADMIN or SUPER_ADMIN
    Supers,         \* the SUPER_ADMIN accounts
    Nobody,         \* no account
    SignedOut,      \* `me` is null
    MaxLogins,      \* bound: sessions created
    MaxPending,     \* bound: account operations and loads under way
    MaxLoads        \* bound: loads under way

Accounts == Users \cup Admins
Areas == {"user", "communication", "admin"}
Kinds == {"login", "logout", "switch", "add", "unlink", "password", "timezone", "delete"}

\* What an AuthResponse says; token stands for the CSRF token of a session.
Views == [account : Accounts, token : 1..MaxLogins, list : SUBSET Accounts]
Profiles == Views \cup {SignedOut}

ASSUME ClientAssumption ==
    /\ Users \cap Admins = {} /\ Supers \subseteq Admins
    /\ Nobody \notin Accounts \cup Views
    /\ SignedOut \notin Views /\ NoData \notin Views
    /\ MaxLogins \in Nat /\ MaxPending \in Nat /\ MaxLoads \in Nat

VARIABLES
    me,      \* the query ["auth", "me"]
    entries, \* cached data: under which key, and whose it is
    loads,   \* fetches of data under way
    op,      \* the account operations, one mutation of each kind
    at,      \* the route
    from,    \* location.state.from of the login page
    jar,     \* server: the session of the cookie
    crossed, \* history: an account was added past loads for the one before
    unsure   \* history: operations overlapped, an answer was lost, or another tab acted

browser == <<me, entries, loads, op, at, from, crossed>>
sessionVars == <<me, entries, loads, op, at, from, jar, crossed, unsure>>

Quiet == [phase |-> "idle", to |-> Nobody, token |-> 0, view |-> Nobody]
NoSession == [token |-> 0, active |-> Nobody, linked |-> {}, logins |-> 0]

SignedIn == me.data \in Views
Shell == SignedIn /\ ~me.failed  \* ShellRoute has a page to frame
Waiting(k) == op[k].phase # "idle"
Under == Cardinality({k \in Kinds : Waiting(k)}) + Cardinality(loads)

-----------------------------------------------------------------------------
(* Routes                                                                  *)

Routes == {"login", "app", "communication", "settings", "admin", "admins"}

HomeOf(a) == IF a \in Users THEN "app" ELSE "admin"

\* isAllowedPath; the roles of each RoleRoute are the same
MaySee(a, route) ==
    \/ a \in Users /\ route \in {"app", "communication", "settings"}
    \/ a \in Admins /\ route \in {"admin", "settings"}
    \/ a \in Supers /\ route = "admins"

\* ProtectedRoute shows the loading frame or the error page where it is.
StaysOn(route, q) == IsPending(q) \/ (q.failed /\ route # "login") \/ q.data = NoData

\* ProtectedRoute, PublicRoute and RoleRoute
Landing(route, q) ==
    IF StaysOn(route, q) THEN route
    ELSE IF q.data = SignedOut THEN "login"
    ELSE IF MaySee(q.data.account, route) THEN route
    ELSE HomeOf(q.data.account)

\* A handler that leaves the route to the redirects: a page that sends the
\* visitor to the login remembers itself.
Redirects ==
    /\ at' = Landing(at, me')
    /\ from' = IF at' = "login" /\ at # "login" THEN at ELSE from

\* the areas whose queries the page of a route mounts
Mounted(route) ==
    CASE route = "app" -> {"user"}
      [] route = "communication" -> {"communication"}
      [] route \in {"admin", "admins"} -> {"admin"}
      [] OTHER -> {}

KeyOf(area, a) == IF area = "admin" THEN Nobody ELSE a

\* queries of some areas, removed with their fetches
Removed(areas) ==
    /\ entries' = {e \in entries : e.area \notin areas}
    /\ loads' = {l \in loads : l.area \notin areas}
    /\ crossed' = (crossed /\ "user" \notin areas)

-----------------------------------------------------------------------------
(* The query of `me` and the data of the pages                             *)

SessionTypeOK ==
    /\ me \in Query(Profiles)
    /\ entries \subseteq [area : Areas, key : Accounts \cup {Nobody}, owner : Accounts]
    /\ loads \subseteq [area : Areas, key : Accounts \cup {Nobody}, owner : Accounts \cup {Nobody}]
    /\ op \in [Kinds -> [phase : {"idle", "sent", "done", "refused", "failed"},
                         to : Accounts \cup {Nobody}, token : 0..MaxLogins,
                         view : Views \cup {Nobody}]]
    /\ at \in Routes /\ from \in Routes \cup {Nobody}
    /\ jar \in [token : 0..MaxLogins, active : Accounts \cup {Nobody},
                linked : SUBSET Accounts, logins : 0..MaxLogins]
    /\ crossed \in BOOLEAN /\ unsure \in BOOLEAN

\* a session from before the page was opened, or reloaded
LiveSessions ==
    {s \in [token : {1}, active : Accounts, linked : SUBSET Accounts, logins : {1}] :
        MaxLogins > 0 /\ s.active \in s.linked}

\* The page is opened at some address, with or without a live session.
SessionInit ==
    /\ me = Started(Blank)
    /\ entries = {} /\ loads = {}
    /\ op = [k \in Kinds |-> Quiet]
    /\ at \in Routes /\ from = Nobody
    /\ jar \in {NoSession} \cup LiveSessions
    /\ crossed = FALSE /\ unsure = FALSE

\* what the server says of the session
Report(s) ==
    IF s.token = 0 THEN SignedOut
    ELSE [account |-> s.active, token |-> s.token, list |-> s.linked]

Steady == {"login", "logout"}  \* operations that cancel a fetch of `me`

\* Mounting, reconnecting, or the button of the error page
FetchMe ==
    /\ ~me.busy
    /\ me' = Started(me)
    /\ unsure' = (unsure \/ \E k \in Kinds \ Steady : Waiting(k))
    /\ UNCHANGED <<entries, loads, op, at, from, jar, crossed>>

ReadMe ==
    /\ MayRead(me)
    /\ me' = ReadAs(me, Report(jar))
    /\ UNCHANGED <<entries, loads, op, at, from, jar, crossed, unsure>>

\* getMe turns 401 and 403 into null.
AnswerMe ==
    /\ MayAnswer(me)
    /\ me' = Answered(me)
    /\ Redirects
    /\ UNCHANGED <<entries, loads, op, jar, crossed, unsure>>

FailMe ==
    /\ me.busy
    /\ me' = Failed(me)
    /\ UNCHANGED <<entries, loads, op, at, from, jar, crossed, unsure>>

\* The role guards of the routes and of the links
Visit(route) ==
    /\ at' = Landing(route, me)
    /\ from' = IF at' = "login" /\ route # "login" THEN route
               ELSE IF at' = "login" THEN from ELSE Nobody
    /\ UNCHANGED <<me, entries, loads, op, jar, crossed, unsure>>

\* A page mounts its queries; a link preloads those of a user's page.
Preloads(route) == IF SignedIn /\ me.data.account \in Users THEN Mounted(route) \cap {"user"} ELSE {}

LoadKey(area) ==
    /\ SignedIn /\ Under < MaxPending /\ Cardinality(loads) < MaxLoads
    /\ \A l \in loads : l.area # area \/ l.key # KeyOf(area, me.data.account)
    /\ loads' = loads \cup {[area |-> area, key |-> KeyOf(area, me.data.account), owner |-> Nobody]}
    /\ crossed' = (crossed \/ (area = "user" /\ op["add"].phase = "done"
                               /\ op["add"].view.account # me.data.account))
    /\ UNCHANGED <<me, entries, op, at, from, jar, unsure>>

Load == Shell /\ \E area \in Mounted(at) : LoadKey(area)

Preload == Shell /\ \E route \in Routes : \E area \in Preloads(route) : LoadKey(area)

ReadLoad(l) ==
    /\ l.owner = Nobody /\ jar.token # 0
    /\ jar.active \in IF l.area = "admin" THEN Admins ELSE Users
    /\ loads' = (loads \ {l}) \cup {[l EXCEPT !.owner = jar.active]}
    /\ UNCHANGED <<me, entries, op, at, from, jar, crossed, unsure>>

AnswerLoad(l) ==
    /\ l.owner # Nobody
    /\ loads' = loads \ {l}
    /\ entries' = {e \in entries : e.area # l.area \/ e.key # l.key} \cup {l}
    /\ UNCHANGED <<me, op, at, from, jar, crossed, unsure>>

\* An error leaves the data of the query as they are.
FailLoad(l) ==
    /\ loads' = loads \ {l}
    /\ UNCHANGED <<me, entries, op, at, from, jar, crossed, unsure>>

-----------------------------------------------------------------------------
(* Account operations: sent, served, answered                              *)

\* An operation meets another, or a fetch of `me` that it does not cancel.
Overlaps(k) == (\E j \in Kinds : Waiting(j)) \/ (me.busy /\ k \notin Steady)

\* The request carries the CSRF token of the view that is rendered.
Send(k, to) ==
    /\ ~Waiting(k) /\ Under < MaxPending
    /\ op' = [op EXCEPT ![k] = [phase |-> "sent", to |-> to, view |-> Nobody,
                                token |-> IF SignedIn THEN me.data.token ELSE 0]]
    /\ unsure' = (unsure \/ Overlaps(k))
    /\ UNCHANGED <<me, entries, loads, at, from, jar, crossed>>

\* AuthPage, for a login and for a registration
SendLogin ==
    /\ at = "login" /\ ~SignedIn /\ ~IsPending(me)
    /\ \E a \in Accounts : Send("login", a)

\* AccountMenu
SendLogout == Shell /\ Send("logout", Nobody)
SendSwitch == Shell /\ \E a \in me.data.list \ {me.data.account} : Send("switch", a)
SendAdd == Shell /\ \E a \in Accounts : Send("add", a)
SendUnlink == Shell /\ \E a \in me.data.list \ {me.data.account} : Send("unlink", a)

\* SettingsPage; only a USER has the tab that deletes the account
SendPassword == Shell /\ at = "settings" /\ Send("password", Nobody)
SendTimezone == Shell /\ at = "settings" /\ Send("timezone", Nobody)
SendDelete == Shell /\ at = "settings" /\ me.data.account \in Users /\ Send("delete", Nobody)

\* What a session handler does to the session of the cookie: a login begins
\* another one, and an account that is added becomes the active one.
Effect(k, to) ==
    CASE k = "login" -> [token |-> jar.logins + 1, active |-> to, linked |-> {to},
                         logins |-> jar.logins + 1]
      [] k = "switch" -> [jar EXCEPT !.active = to]
      [] k = "add" -> [jar EXCEPT !.active = to, !.linked = @ \cup {to}]
      [] k = "unlink" -> [jar EXCEPT !.linked = @ \ {to}]
      [] k = "timezone" -> jar
      [] OTHER -> [NoSession EXCEPT !.logins = jar.logins]

\* VerifyCSRF, and what each handler asks besides
Accepts(k, o) ==
    /\ k = "login" => jar.logins < MaxLogins
    /\ k # "login" => jar.token # 0 /\ o.token = jar.token
    /\ k = "switch" => o.to \in jar.linked
    /\ k = "unlink" => o.to # jar.active

Serve(k) ==
    /\ op[k].phase = "sent"
    /\ IF Accepts(k, op[k])
       THEN /\ jar' = Effect(k, op[k].to)
            /\ op' = [op EXCEPT ![k].phase = "done",
                                ![k].view = IF jar'.token = 0 THEN Nobody ELSE Report(jar')]
       ELSE /\ op' = [op EXCEPT ![k].phase = "refused"]
            /\ UNCHANGED jar
    /\ crossed' = (crossed \/ (k = "add" /\ jar'.active # jar.active
                               /\ \E l \in loads : l.area = "user" /\ l.owner = Nobody))
    /\ UNCHANGED <<me, entries, loads, at, from, unsure>>

\* The request never arrives, or fails for a reason of its own; or its
\* answer is lost, and the tab cannot tell the two apart.
Fail(k) ==
    /\ op[k].phase \in {"sent", "done"}
    /\ op' = [op EXCEPT ![k].phase = "failed"]
    /\ unsure' = (unsure \/ op[k].phase = "done")
    /\ UNCHANGED <<me, entries, loads, at, from, jar, crossed>>

Ends(k, phase) ==
    /\ op[k].phase = phase
    /\ op' = [op EXCEPT ![k] = Quiet]

\* The form reports any other error and changes nothing.
Rejected(k) ==
    /\ \E phase \in {"refused", "failed"} : Ends(k, phase)
    /\ ~(op[k].phase = "refused" /\ k \in {"switch", "unlink"})
    /\ UNCHANGED <<me, entries, loads, at, from, jar, crossed, unsure>>

-----------------------------------------------------------------------------
(* What the answers do to the caches                                       *)

\* setQueryData(["auth", "me"], ...) leaves a fetch of it under way.
Shows(profile) == me' = Stored(me, profile)

\* Variant: a fetch of `me` under way is not cancelled.
BecomeUncancelled(profile) == me' = Stored(me, profile)

Become(profile) == me' = Stored(Cancelled(me), profile)

\* Variant: a switch leaves the caches alone.
SwitchClearsNothing == {}

\* the areas whose queries a switch and a sign-out cancel and remove
SwitchClears == {"user"}
SignOutClears == {"user", "admin"}

\* Everything but "auth" and "health" goes; the login returns the visitor.
LoggedIn ==
    /\ Ends("login", "done")
    /\ Become(op["login"].view)
    /\ Removed(Areas)
    /\ LET a == op["login"].view.account
       IN at' = IF from # Nobody /\ MaySee(a, from) THEN from ELSE HomeOf(a)
    /\ from' = Nobody
    /\ UNCHANGED <<jar, unsure>>

LoggedOut ==
    /\ Ends("logout", "done")
    /\ Become(SignedOut)
    /\ Removed(SignOutClears)
    /\ at' = "login" /\ from' = Nobody
    /\ UNCHANGED <<jar, unsure>>

Switched ==
    /\ Ends("switch", "done")
    /\ Removed(SwitchClears)
    /\ Shows(op["switch"].view)
    /\ Redirects
    /\ UNCHANGED <<jar, unsure>>

AccountAdded ==
    /\ Ends("add", "done")
    /\ Shows(op["add"].view)
    /\ Redirects
    /\ UNCHANGED <<entries, loads, jar, crossed, unsure>>

\* removeLinkedAccount
Without(q, a) == IF q.data \in Views THEN Stored(q, [q.data EXCEPT !.list = @ \ {a}]) ELSE q

Unlinked ==
    /\ Ends("unlink", "done")
    /\ me' = Without(me, op["unlink"].to)
    /\ UNCHANGED <<entries, loads, at, from, jar, crossed, unsure>>

\* 401, 403 and 404: `me` is fetched again; a refused switch also leaves the list.
Invalidated(k) ==
    /\ Ends(k, "refused")
    /\ me' = Restarted(IF k = "switch" THEN Without(me, op[k].to) ELSE me)
    /\ unsure' = (unsure \/ \E j \in Kinds \ (Steady \cup {k}) : Waiting(j))
    /\ UNCHANGED <<entries, loads, at, from, jar, crossed>>

\* A fetch of `me` under way is not cancelled.
PasswordChanged ==
    /\ Ends("password", "done")
    /\ Shows(SignedOut)
    /\ Removed(SignOutClears)
    /\ Redirects
    /\ UNCHANGED <<jar, unsure>>

AccountDeleted ==
    /\ Ends("delete", "done")
    /\ Shows(SignedOut)
    /\ Removed(SignOutClears)
    /\ at' = "login" /\ from' = Nobody
    /\ UNCHANGED <<jar, unsure>>

\* The account of the answer is put beside the session of the current view.
TimezoneChanged ==
    /\ Ends("timezone", "done")
    /\ me' = IF SignedIn THEN Stored(me, [me.data EXCEPT !.account = op["timezone"].view.account])
             ELSE me
    /\ Redirects
    /\ UNCHANGED <<entries, loads, jar, crossed, unsure>>

-----------------------------------------------------------------------------
(* A second tab of the browser, or an administrator, changes the session   *)
(* behind this one.                                                        *)

Elsewhere ==
    /\ jar.token # 0
    /\ jar' \in {[jar EXCEPT !.active = a] : a \in jar.linked}
                \cup {[NoSession EXCEPT !.logins = jar.logins]}
    /\ unsure' = TRUE
    /\ UNCHANGED browser

\* An administrator's change severs an account that is linked and not active.
Severed ==
    /\ jar.token # 0
    /\ \E a \in jar.linked \ {jar.active} : jar' = [jar EXCEPT !.linked = @ \ {a}]
    /\ UNCHANGED <<browser, unsure>>

Asks ==
    \/ SendLogin \/ SendLogout \/ SendSwitch \/ SendAdd \/ SendUnlink
    \/ SendPassword \/ SendTimezone \/ SendDelete

Answers ==
    \/ LoggedIn \/ LoggedOut \/ Switched \/ AccountAdded \/ Unlinked
    \/ PasswordChanged \/ AccountDeleted \/ TimezoneChanged
    \/ \E k \in {"switch", "unlink"} : Invalidated(k)
    \/ \E k \in Kinds : Rejected(k)

Moves ==
    \/ FetchMe \/ ReadMe \/ AnswerMe \/ FailMe
    \/ \E route \in Routes : Visit(route)
    \/ Load \/ Preload
    \/ \E l \in loads : ReadLoad(l) \/ AnswerLoad(l) \/ FailLoad(l)
    \/ Asks \/ Answers
    \/ \E k \in Kinds : Serve(k) \/ Fail(k)
    \/ Elsewhere \/ Severed

\* Bound: a tab that has become unsure is not followed any further.
SessionNext ==
    \/ ~unsure /\ Moves
    \/ unsure /\ UNCHANGED sessionVars

SessionSpec == SessionInit /\ [][SessionNext]_sessionVars

-----------------------------------------------------------------------------
(* Properties                                                              *)

\* No account operation is under way, and none overlapped another, lost its
\* answer or met another tab.
Calm == ~unsure /\ \A k \in Kinds : ~Waiting(k)

\* What the tab takes for the signed-in account is the active account of the
\* session it holds, so that a save acts for the account on the screen: no
\* late answer of `me` undoes a login or a logout.
MeIsCurrent ==
    Calm /\ ~me.busy /\ me.data # NoData =>
        IF jar.token = 0 THEN me.data = SignedOut
        ELSE /\ SignedIn
             /\ me.data.account = jar.active /\ me.data.token = jar.token

\* The records cached, or about to be, under the "user" keys of an account
\* are that account's, although the server names no owner in its answers.  An
\* account that is added does not cancel the loads of the one before.
CacheIsOwn ==
    Calm /\ ~crossed => \A e \in entries \cup loads : e.area = "user" => e.owner \in {e.key, Nobody}

\* Once a logout, a new password or a deleted account has signed the tab out,
\* nothing that it fetched as a user or an administrator is left, and nothing
\* under way will bring it back.
SignedOutIsClean ==
    Calm /\ ~me.busy /\ me.data = SignedOut =>
        \A e \in entries \cup loads : e.area = "communication"

\* What the tab keeps is of the account it shows, and it keeps nothing for nobody.
TabHoldsItsOwn == CacheIsOwn /\ SignedOutIsClean
=============================================================================
