---------------------------- MODULE Registration ----------------------------
(***************************************************************************)
(* Registration by invitation: the handler of POST /api/auth/register, the *)
(* administrators who create, change and delete invitation codes meanwhile,*)
(* and the deletion of accounts. PostgreSQL runs at READ COMMITTED: an     *)
(* UPDATE waits for the row it changes and then tests its WHERE clause     *)
(* again, an INSERT waits for a pending insert of the same username, and   *)
(* nobody reads what a transaction wrote before it commits.                *)
(*                                                                         *)
(* A member of Registrations is one request, and stands for the account    *)
(* its transaction may create; usernames are taken up to case.             *)
(***************************************************************************)
EXTENDS Naturals, FiniteSets

CONSTANTS
    Registrations,  \* requests to register
    Codes,          \* invitations, each with an id and a code of its own
    Names,          \* usernames
    None,           \* no request, no limit, no expiry
    Limits,         \* values of max_uses
    Expiries,       \* values of expires_at
    MaxTime,        \* bound: the clock stops here
    Faults          \* failures a run allows, see FaultKinds

\* db: a statement fails or the client leaves, and the transaction rolls back;
\* reply: COMMIT takes effect but its reply is lost.
FaultKinds == {"db", "reply"}

ASSUME ConstantsAssumption ==
    /\ IsFiniteSet(Registrations)
    /\ None \notin Registrations /\ None \notin Nat
    /\ Limits \subseteq Nat \ {0}
    /\ Expiries \subseteq Nat
    /\ MaxTime \in Nat
    /\ Faults \subseteq FaultKinds

VARIABLES
    invitation,  \* invitation_codes
    rowLock,     \* the transaction that has changed the row of each invitation
    pc,          \* how far each request is, and what it answered
    code, name,  \* what it asks for
    began,       \* now() of its transaction
    account,     \* the account it created: none, ACTIVE or gone
    uses,        \* the requests with a row in invitation_uses
    now

asked == <<code, name, began>>
vars == <<invitation, rowLock, pc, asked, account, uses, now>>

Invitations == [status : {"absent", "ACTIVE", "DISABLED", "deleted"},
                max : Limits \cup {None}, used : Nat, expires : Expiries \cup {None}]

InTransaction == {"begun", "found", "consumed", "created"}
Answers == {"registered", "refused", "failed"}

TypeOK ==
    /\ invitation \in [Codes -> Invitations]
    /\ rowLock \in [Codes -> Registrations \cup {None}]
    /\ pc \in [Registrations -> {"new", "committed"} \cup InTransaction \cup Answers]
    /\ code \in [Registrations -> Codes \cup {None}]
    /\ name \in [Registrations -> Names \cup {None}]
    /\ began \in [Registrations -> Nat]
    /\ account \in [Registrations -> {"none", "ACTIVE", "gone"}]
    /\ uses \subseteq Registrations
    /\ now \in Nat

Init ==
    /\ invitation = [c \in Codes |-> [status |-> "absent", max |-> None, used |-> 0, expires |-> None]]
    /\ rowLock = [c \in Codes |-> None]
    /\ pc = [r \in Registrations |-> "new"]
    /\ code = [r \in Registrations |-> None]
    /\ name = [r \in Registrations |-> None]
    /\ began = [r \in Registrations |-> 0]
    /\ account = [r \in Registrations |-> "none"]
    /\ uses = {}
    /\ now = 0

Exists(c) == invitation[c].status \in {"ACTIVE", "DISABLED"}

-----------------------------------------------------------------------------
(* invitation.Service, one statement each                                  *)

Create(c) ==
    /\ invitation[c].status = "absent"
    /\ \E m \in Limits \cup {None}, e \in Expiries \cup {None} :
        invitation' = [invitation EXCEPT ![c] = [status |-> "ACTIVE", max |-> m, used |-> 0, expires |-> e]]
    /\ UNCHANGED <<rowLock, pc, asked, account, uses, now>>

\* Any of the three columns may be set, kept or, for the last two, cleared. The
\* number of uses is not looked at, and reaching the limit is not tested again.
Update(c) ==
    /\ Exists(c) /\ rowLock[c] = None
    /\ \E s \in {"ACTIVE", "DISABLED"}, m \in Limits \cup {None}, e \in Expiries \cup {None} :
        invitation' = [invitation EXCEPT ![c] = [@ EXCEPT !.status = s, !.max = m, !.expires = e]]
    /\ UNCHANGED <<rowLock, pc, asked, account, uses, now>>

\* The rows of invitation_uses go with it.
Delete(c) ==
    /\ Exists(c) /\ rowLock[c] = None
    /\ invitation' = [invitation EXCEPT ![c].status = "deleted"]
    /\ uses' = {r \in uses : code[r] # c}
    /\ UNCHANGED <<rowLock, pc, asked, account, now>>

-----------------------------------------------------------------------------
(* auth.Service.Register                                                   *)

\* The transaction starts after the password has been hashed.
Begin(r) ==
    /\ pc[r] = "new"
    /\ \E c \in Codes, n \in Names :
        /\ code' = [code EXCEPT ![r] = c]
        /\ name' = [name EXCEPT ![r] = n]
    /\ began' = [began EXCEPT ![r] = now]
    /\ pc' = [pc EXCEPT ![r] = "begun"]
    /\ UNCHANGED <<invitation, rowLock, account, uses, now>>

HasUsesLeft(c) == invitation[c].max # None => invitation[c].used < invitation[c].max
NotExpiredAt(c, t) == invitation[c].expires # None => t < invitation[c].expires

\* GetInvitationByCode and the tests in Go, against the clock of the API.
Find(r) ==
    /\ pc[r] = "begun"
    /\ pc' = [pc EXCEPT ![r] =
                IF /\ invitation[code[r]].status = "ACTIVE"
                   /\ NotExpiredAt(code[r], now) /\ HasUsesLeft(code[r])
                THEN "found" ELSE "refused"]
    /\ UNCHANGED <<invitation, rowLock, asked, account, uses, now>>

\* Variant: the UPDATE relies on the tests in Go for the limit.
ConsumableUncounted(r) ==
    LET c == code[r] IN
    /\ invitation[c].status = "ACTIVE"
    /\ NotExpiredAt(c, began[r])

\* The WHERE clause of ConsumeInvitation; its now() is the start of the transaction.
Consumable(r) ==
    LET c == code[r] IN
    /\ invitation[c].status = "ACTIVE"
    /\ NotExpiredAt(c, began[r])
    /\ HasUsesLeft(c)

\* The row stays locked until the transaction ends.
Consume(r) ==
    /\ pc[r] = "found" /\ rowLock[code[r]] = None
    /\ \/ /\ Consumable(r)
          /\ rowLock' = [rowLock EXCEPT ![code[r]] = r]
          /\ pc' = [pc EXCEPT ![r] = "consumed"]
       \/ /\ ~Consumable(r)
          /\ pc' = [pc EXCEPT ![r] = "refused"]
          /\ UNCHANGED rowLock
    /\ UNCHANGED <<invitation, asked, account, uses, now>>

Unlocked(r) == [c \in Codes |-> IF rowLock[c] = r THEN None ELSE rowLock[c]]

\* Variant: the error returns leave the transaction open.
RefuseKeepsRow(r) ==
    /\ pc' = [pc EXCEPT ![r] = "refused"]
    /\ UNCHANGED <<rowLock, invitation, asked, account, uses, now>>

\* An error return: the deferred Rollback.
Refuse(r) ==
    /\ pc' = [pc EXCEPT ![r] = "refused"]
    /\ rowLock' = Unlocked(r)
    /\ UNCHANGED <<invitation, asked, account, uses, now>>

Taken(n) == \E q \in Registrations : account[q] = "ACTIVE" /\ name[q] = n
Pending(n) == \E q \in Registrations : pc[q] = "created" /\ name[q] = n

\* Variant: the username is looked up, and no unique index makes the INSERT wait.
CreateAccountLookedUp(r) ==
    /\ pc[r] = "consumed" /\ ~Taken(name[r])
    /\ pc' = [pc EXCEPT ![r] = "created"]
    /\ UNCHANGED <<invitation, rowLock, asked, account, uses, now>>

CreateAccount(r) ==
    /\ pc[r] = "consumed" /\ ~Pending(name[r]) /\ ~Taken(name[r])
    /\ pc' = [pc EXCEPT ![r] = "created"]
    /\ UNCHANGED <<invitation, rowLock, asked, account, uses, now>>

\* A unique violation: CONFLICT, "username is already in use".
NameTaken(r) ==
    /\ pc[r] = "consumed" /\ ~Pending(name[r]) /\ Taken(name[r])
    /\ Refuse(r)

\* A statement fails.
Breaks(r) ==
    /\ "db" \in Faults /\ pc[r] \in InTransaction
    /\ Refuse(r)

\* SET used_count = used_count + 1, status = CASE ...
Consumed(i) ==
    [i EXCEPT !.used = @ + 1,
              !.status = IF i.max # None /\ i.used + 1 >= i.max THEN "DISABLED" ELSE @]

\* Variant: the transaction never writes the invitation.
CommittedUncounted(r) == UNCHANGED invitation

\* What the transaction did to the invitation appears.
Committed(r) == invitation' = [invitation EXCEPT ![code[r]] = Consumed(@)]

\* RecordInvitationUse and COMMIT; the handler may never hear of it.
Commit(r) ==
    /\ pc[r] = "created"
    /\ Committed(r)
    /\ account' = [account EXCEPT ![r] = "ACTIVE"]
    /\ uses' = uses \cup {r}
    /\ rowLock' = Unlocked(r)
    /\ \/ pc' = [pc EXCEPT ![r] = "committed"]
       \/ "reply" \in Faults /\ pc' = [pc EXCEPT ![r] = "failed"]
    /\ UNCHANGED <<asked, now>>

\* The handler opens a session for the new account, in a second transaction. It fails
\* when the account has gone, or on its own; the account stays.
OpenSession(r) ==
    /\ pc[r] = "committed"
    /\ \/ account[r] = "ACTIVE" /\ pc' = [pc EXCEPT ![r] = "registered"]
       \/ (account[r] = "gone" \/ "db" \in Faults) /\ pc' = [pc EXCEPT ![r] = "failed"]
    /\ UNCHANGED <<invitation, rowLock, asked, account, uses, now>>

\* Service.DeleteAccount of the files service; invitation_uses cascades.
DeleteAccount(r) ==
    /\ account[r] = "ACTIVE"
    /\ account' = [account EXCEPT ![r] = "gone"]
    /\ uses' = uses \ {r}
    /\ UNCHANGED <<invitation, rowLock, pc, asked, now>>

Tick ==
    /\ now < MaxTime
    /\ now' = now + 1
    /\ UNCHANGED <<invitation, rowLock, pc, asked, account, uses>>

-----------------------------------------------------------------------------
Register(r) ==
    \/ Find(r) \/ Consume(r) \/ CreateAccount(r) \/ NameTaken(r)
    \/ Commit(r) \/ OpenSession(r)

Next ==
    \/ \E c \in Codes : Create(c) \/ Update(c) \/ Delete(c)
    \/ \E r \in Registrations : Begin(r) \/ Register(r) \/ Breaks(r) \/ DeleteAccount(r)
    \/ Tick

Spec == Init /\ [][Next]_vars

\* A handler that has begun runs on, and PostgreSQL wakes one that waits for a row or
\* a username. There are finitely many others to wait for.
FairSpec == Spec /\ \A r \in Registrations : WF_vars(Register(r))

-----------------------------------------------------------------------------
(* What this is a refinement of                                            *)

Offers == [c \in Codes |-> [status |-> invitation[c].status, max |-> invitation[c].max,
                            used |-> invitation[c].used]]

Members == [r \in Registrations |->
    [name |-> IF account[r] = "none" THEN None ELSE name[r], live |-> account[r] = "ACTIVE"]]

Membership == INSTANCE Membership WITH People <- Registrations, offer <- Offers, member <- Members

\* However the statements of registrations, administrators and deletions fall between
\* each other, somebody becomes a member in one step that is allowed and counted then.
MembershipSpec == Membership!Spec

-----------------------------------------------------------------------------
(* Properties                                                              *)

\* An account is only ever created on an invitation that, when the transaction
\* commits, is active, has a use left and had not expired when it began, whatever the
\* administrators and other registrations did since its tests.
Admitted ==
    [][\A r \in Registrations : account[r] = "none" /\ account'[r] = "ACTIVE" =>
        /\ invitation[code[r]].status = "ACTIVE"
        /\ HasUsesLeft(code[r])
        /\ NotExpiredAt(code[r], began[r])]_vars

\* used_count is the number of accounts ever created with the invitation: rolled back
\* registrations leave no trace and later deletions do not give a use back.
UsesAreCounted ==
    \A c \in Codes : Exists(c) =>
        invitation[c].used = Cardinality({r \in Registrations : code[r] = c /\ account[r] # "none"})

\* No two live accounts share a username, also when both were asked for at once.
NamesAreUnique ==
    \A r, q \in Registrations :
        account[r] = "ACTIVE" /\ account[q] = "ACTIVE" /\ name[r] = name[q] => r = q

\* A registration that began is answered: the row locks and the pending usernames
\* never hold it up for ever.
RegistrationsEnd == \A r \in Registrations : pc[r] = "begun" ~> pc[r] \in Answers
=============================================================================
