------------------------- MODULE RegistrationProofs -------------------------
(***************************************************************************)
(* What holds of registrations for any requests, invitations, usernames    *)
(* and failures. Everything rests on the two waits of PostgreSQL: for the  *)
(* row of an invitation that a transaction has changed, and for a username *)
(* that a transaction has inserted. And what holds of the connections that *)
(* transactions and lists take, for any number of both.                    *)
(***************************************************************************)
EXTENDS Registration, ConnPool, FiniteSetTheorems, TLAPS

LEMMA TypeInit == Init => TypeOK
BY DEF Init, TypeOK, Invitations, InTransaction, Answers

\* What Consumed and Update make of a row.
LEMMA ConsumedRow ==
    ASSUME NEW i \in Invitations
    PROVE  /\ Consumed(i) \in Invitations
           /\ Consumed(i).used = i.used + 1
           /\ Consumed(i).status \in {"DISABLED", i.status}
<1> DEFINE spent == i.max # None /\ i.used + 1 >= i.max
           s == IF spent THEN "DISABLED" ELSE i.status
<1>1. Consumed(i) = [i EXCEPT !.used = i.used + 1, !.status = s]
    BY DEF Consumed
<1>2. s \in {"DISABLED", i.status}
    OBVIOUS
<1> HIDE DEF spent, s
<1>3. i.used + 1 \in Nat
    BY DEF Invitations
<1> QED BY <1>1, <1>2, <1>3 DEF Invitations

LEMMA UpdateRow ==
    ASSUME TypeOK, NEW c \in Codes, Update(c)
    PROVE  /\ invitation' \in [Codes -> Invitations]
           /\ invitation'[c].used = invitation[c].used
           /\ invitation'[c].status \in {"ACTIVE", "DISABLED"}
           /\ \A d \in Codes \ {c} : invitation'[d] = invitation[d]
<1> USE DEF TypeOK
<1>1. PICK s \in {"ACTIVE", "DISABLED"}, m \in Limits \cup {None}, e \in Expiries \cup {None} :
        invitation' = [invitation EXCEPT ![c] = [@ EXCEPT !.status = s, !.max = m, !.expires = e]]
    BY Zenon DEF Update
<1> DEFINE j == [invitation[c] EXCEPT !.status = s, !.max = m, !.expires = e]
<1>2. invitation' = [invitation EXCEPT ![c] = j]
    BY <1>1
<1>3. j \in Invitations /\ j.used = invitation[c].used /\ j.status = s
    <2>1. invitation[c] \in Invitations
        OBVIOUS
    <2> QED BY <2>1 DEF Invitations
<1> HIDE DEF j
<1> QED BY <1>2, <1>3

LEMMA TypeNext == TypeOK /\ [Next]_vars => TypeOK'
<1> SUFFICES ASSUME TypeOK, [Next]_vars PROVE TypeOK'
    OBVIOUS
<1> USE DEF TypeOK, InTransaction, Answers, asked
<1>1. CASE UNCHANGED vars
    BY <1>1 DEF vars
<1>2. ASSUME NEW c \in Codes, Create(c) PROVE TypeOK'
    <2>1. invitation' \in [Codes -> Invitations]
        BY <1>2 DEF Create, Invitations
    <2> QED BY <1>2, <2>1 DEF Create
<1>3. ASSUME NEW c \in Codes, Update(c) PROVE TypeOK'
    <2>1. invitation' \in [Codes -> Invitations]
        BY <1>3, UpdateRow
    <2> QED BY <1>3, <2>1 DEF Update
<1>4. ASSUME NEW c \in Codes, Delete(c) PROVE TypeOK'
    <2>1. invitation' \in [Codes -> Invitations]
        BY <1>4 DEF Delete, Invitations
    <2> QED BY <1>4, <2>1 DEF Delete
<1>5. ASSUME NEW r \in Registrations, Begin(r) PROVE TypeOK'
    BY <1>5 DEF Begin
<1>6. ASSUME NEW r \in Registrations, Find(r) PROVE TypeOK'
    BY <1>6 DEF Find
<1>7. ASSUME NEW r \in Registrations, Consume(r) PROVE TypeOK'
    BY <1>7 DEF Consume
<1>8. ASSUME NEW r \in Registrations, CreateAccount(r) PROVE TypeOK'
    BY <1>8 DEF CreateAccount
<1>9. ASSUME NEW r \in Registrations, NameTaken(r) \/ Breaks(r) PROVE TypeOK'
    BY <1>9 DEF NameTaken, Breaks, Refuse, Unlocked
<1>10. ASSUME NEW r \in Registrations, Commit(r) PROVE TypeOK'
    <2>1. invitation' \in [Codes -> Invitations]
        <3>1. \A i \in Invitations : Consumed(i) \in Invitations
            BY ConsumedRow
        <3>2. invitation' = [invitation EXCEPT ![code[r]] = Consumed(@)]
            BY <1>10 DEF Commit, Committed
        <3> QED BY <3>1, <3>2
    <2> QED BY <1>10, <2>1 DEF Commit, Unlocked
<1>11. ASSUME NEW r \in Registrations, OpenSession(r) PROVE TypeOK'
    BY <1>11 DEF OpenSession
<1>12. ASSUME NEW r \in Registrations, DeleteAccount(r) PROVE TypeOK'
    BY <1>12 DEF DeleteAccount
<1>13. CASE Tick
    BY <1>13 DEF Tick
<1> QED BY <1>1, <1>2, <1>3, <1>4, <1>5, <1>6, <1>7, <1>8, <1>9, <1>10, <1>11, <1>12, <1>13
        DEF Next, Register

\* Invitations, requests and accounts keep their types.
THEOREM TypeCorrect == Spec => []TypeOK
BY TypeInit, TypeNext, PTL DEF Spec

-----------------------------------------------------------------------------
(* The strengthening                                                       *)

Asked == \A r \in Registrations : pc[r] # "new" => code[r] \in Codes /\ name[r] \in Names

\* Who has consumed holds the row, and nobody takes away what was tested.
Holding == \A r \in Registrations : pc[r] \in {"consumed", "created"} =>
    rowLock[code[r]] = r /\ Consumable(r)

NoAccountYet == \A r \in Registrations :
    pc[r] \in {"new", "begun", "found", "consumed", "created"} => account[r] = "none"

AccountHasInvitation == \A r \in Registrations :
    account[r] # "none" => pc[r] # "new" /\ invitation[code[r]].status # "absent"

\* A username belongs to one live account or pending insert.
HasName(r) == account[r] = "ACTIVE" \/ pc[r] = "created"
NameHasOneOwner == \A r, q \in Registrations :
    HasName(r) /\ HasName(q) /\ name[r] = name[q] => r = q

IInv ==
    /\ TypeOK
    /\ Asked
    /\ Holding
    /\ NoAccountYet
    /\ AccountHasInvitation
    /\ NameHasOneOwner
    /\ UsesAreCounted

Admissions(c) == {r \in Registrations : code[r] = c /\ account[r] # "none"}

LEMMA InitInductive == Init => IInv
<1> SUFFICES ASSUME Init PROVE IInv
    OBVIOUS
<1>1. Asked /\ Holding /\ NoAccountYet /\ AccountHasInvitation /\ NameHasOneOwner
    BY DEF Init, Asked, Holding, NoAccountYet, AccountHasInvitation, NameHasOneOwner, HasName
<1>2. UsesAreCounted
    BY DEF Init, UsesAreCounted, Exists
<1> QED BY <1>1, <1>2, TypeInit DEF IInv

\* Steps that change neither invitations nor accounts and ask for nothing new.
LEMMA RequestMovesOn ==
    ASSUME IInv, UNCHANGED <<invitation, asked, account>>
    PROVE  UsesAreCounted'
<1>1. UNCHANGED code
    BY DEF asked
<1> QED BY <1>1 DEF IInv, UsesAreCounted, Exists

LEMMA AdministratorInductive ==
    ASSUME IInv, TypeOK', NEW c \in Codes, Create(c) \/ Update(c) \/ Delete(c)
    PROVE  IInv'
<1> USE DEF IInv, TypeOK
<1>1. /\ UNCHANGED <<rowLock, pc, code, name, began, account, now>>
      /\ rowLock[c] # None => invitation[c].status = "absent"
      /\ \A d \in Codes \ {c} : invitation'[d] = invitation[d]
      /\ invitation'[c].status # "absent"
    <2>1. CASE Create(c)
        BY <2>1 DEF Create, asked
    <2>2. CASE Update(c)
        BY <2>2, UpdateRow DEF Update, asked
    <2>3. CASE Delete(c)
        BY <2>3 DEF Delete, asked, Invitations
    <2> QED BY <2>1, <2>2, <2>3
<1>2. Asked' /\ NoAccountYet' /\ AccountHasInvitation' /\ NameHasOneOwner'
    BY <1>1 DEF Asked, NoAccountYet, AccountHasInvitation, NameHasOneOwner, HasName
<1>3. Holding'
    <2> SUFFICES ASSUME NEW r \in Registrations, pc[r] \in {"consumed", "created"}
                 PROVE  rowLock[code[r]] = r /\ Consumable(r)'
        BY <1>1 DEF Holding
    <2>1. rowLock[code[r]] = r /\ Consumable(r) /\ code[r] \in Codes
        BY DEF Holding, Asked
    <2>2. code[r] # c
        BY <1>1, <2>1, ConstantsAssumption DEF Consumable
    <2> QED BY <1>1, <2>1, <2>2 DEF Consumable, NotExpiredAt, HasUsesLeft
<1>4. UsesAreCounted'
    <2> SUFFICES ASSUME NEW d \in Codes, Exists(d)'
                 PROVE  invitation'[d].used = Cardinality(Admissions(d))
        BY <1>1 DEF UsesAreCounted, Admissions
    <2>1. CASE d # c
        BY <1>1, <2>1 DEF UsesAreCounted, Admissions, Exists
    <2>2. CASE d = c /\ Create(c)
        <3>1. Admissions(d) = {}
            BY <2>2 DEF Create, Admissions, AccountHasInvitation
        <3>2. invitation'[d].used = 0
            BY <2>2 DEF Create
        <3> QED BY <3>1, <3>2, FS_EmptySet
    <2>3. CASE d = c /\ Update(c)
        <3>1. invitation'[d].used = invitation[d].used /\ Exists(d)
            BY <2>3, UpdateRow DEF Update
        <3> QED BY <3>1 DEF UsesAreCounted, Admissions
    <2>4. CASE d = c /\ Delete(c)
        BY <2>4 DEF Delete, Exists, Invitations
    <2> QED BY <2>1, <2>2, <2>3, <2>4
<1> QED BY <1>2, <1>3, <1>4

\* Only so many requests can be counted.
LEMMA AdmissionsFinite ==
    ASSUME NEW c
    PROVE  IsFiniteSet(Admissions(c))
<1>1. Admissions(c) \in SUBSET Registrations
    BY DEF Admissions
<1> QED BY <1>1, ConstantsAssumption, FS_Subset

LEMMA CommitInductive ==
    ASSUME IInv, TypeOK', NEW r \in Registrations, Commit(r)
    PROVE  IInv'
<1> USE DEF IInv, TypeOK
<1> DEFINE c == code[r]
<1>1. /\ pc[r] = "created" /\ pc'[r] \in {"committed", "failed"}
      /\ \A q \in Registrations \ {r} : pc'[q] = pc[q] /\ account'[q] = account[q]
      /\ account[r] = "none" /\ account'[r] = "ACTIVE"
      /\ UNCHANGED <<code, name, began>>
      /\ \A d \in Codes : rowLock'[d] = IF rowLock[d] = r THEN None ELSE rowLock[d]
    BY DEF Commit, NoAccountYet, Unlocked, asked
<1>2. c \in Codes /\ rowLock[c] = r /\ Consumable(r)
    BY <1>1 DEF Asked, Holding
<1>3. /\ \A d \in Codes \ {c} : invitation'[d] = invitation[d]
      /\ invitation'[c].used = invitation[c].used + 1
      /\ invitation'[c].status \in {"ACTIVE", "DISABLED"}
    <2>1. invitation' = [invitation EXCEPT ![c] = Consumed(invitation[c])]
        BY DEF Commit, Committed
    <2>2. invitation'[c] = Consumed(invitation[c])
        BY <1>2, <2>1
    <2>3. invitation[c].status = "ACTIVE" /\ invitation[c] \in Invitations
        BY <1>2 DEF Consumable
    <2>4. /\ Consumed(invitation[c]).used = invitation[c].used + 1
          /\ Consumed(invitation[c]).status \in {"ACTIVE", "DISABLED"}
        BY <2>3, ConsumedRow
    <2> QED BY <2>1, <2>2, <2>4
<1>4. Asked' /\ NoAccountYet'
    BY <1>1 DEF Asked, NoAccountYet
<1>5. Holding'
    <2> SUFFICES ASSUME NEW q \in Registrations, pc'[q] \in {"consumed", "created"}
                 PROVE  (rowLock[code[q]] = q /\ Consumable(q))'
        BY DEF Holding
    <2>1. q # r /\ pc[q] = pc'[q]
        BY <1>1
    <2>2. rowLock[code[q]] = q /\ Consumable(q) /\ code[q] \in Codes
        BY <2>1 DEF Holding, Asked
    <2>3. code[q] # c
        BY <1>2, <2>1, <2>2
    <2> QED BY <1>1, <1>3, <2>1, <2>2, <2>3 DEF Consumable, NotExpiredAt, HasUsesLeft
<1>6. AccountHasInvitation'
    <2> SUFFICES ASSUME NEW q \in Registrations, account'[q] # "none"
                 PROVE  pc'[q] # "new" /\ invitation'[code[q]].status # "absent"
        BY <1>1 DEF AccountHasInvitation
    <2>1. CASE q = r
        BY <1>1, <1>3, <2>1
    <2>2. CASE q # r
        <3>1. pc[q] # "new" /\ invitation[code[q]].status # "absent" /\ code[q] \in Codes
            BY <1>1, <2>2 DEF AccountHasInvitation, Asked
        <3> QED BY <1>1, <1>3, <2>2, <3>1
    <2> QED BY <2>1, <2>2
<1>7. NameHasOneOwner'
    <2>1. \A q \in Registrations : HasName(q)' => HasName(q)
        BY <1>1 DEF HasName
    <2> QED BY <1>1, <2>1 DEF NameHasOneOwner
<1>8. UsesAreCounted'
    <2> SUFFICES ASSUME NEW d \in Codes, Exists(d)'
                 PROVE  invitation'[d].used = Cardinality(Admissions(d)')
        BY DEF UsesAreCounted, Admissions
    <2>1. CASE d # c
        <3>1. Admissions(d)' = Admissions(d)
            BY <1>1, <2>1 DEF Admissions
        <3> QED BY <1>3, <2>1, <3>1 DEF UsesAreCounted, Admissions, Exists
    <2>2. CASE d = c
        <3>1. Admissions(c)' = Admissions(c) \cup {r} /\ r \notin Admissions(c)
            BY <1>1 DEF Admissions
        <3>2. IsFiniteSet(Admissions(c))
            BY AdmissionsFinite
        <3>3. Cardinality(Admissions(c)') = Cardinality(Admissions(c)) + 1
            BY <3>1, <3>2, FS_AddElement
        <3>4. invitation[c].used = Cardinality(Admissions(c))
            <4>1. Exists(c)
                BY <1>2 DEF Exists, Consumable
            <4> QED BY <1>2, <4>1 DEF UsesAreCounted, Admissions
        <3>5. invitation'[c].used = Cardinality(Admissions(c)')
            BY <1>3, <3>3, <3>4
        <3> QED BY <1>1, <2>2, <3>5 DEF Admissions
    <2> QED BY <2>1, <2>2
<1> QED BY <1>4, <1>5, <1>6, <1>7, <1>8

LEMMA NextInductive == IInv /\ [Next]_vars => IInv'
<1> SUFFICES ASSUME IInv, [Next]_vars PROVE IInv'
    OBVIOUS
<1>0. TypeOK'
    BY TypeNext DEF IInv
<1> USE DEF TypeOK, asked
<1>1. CASE UNCHANGED vars
    BY <1>0, <1>1 DEF vars, IInv, Asked, Holding, Consumable, NotExpiredAt, HasUsesLeft,
        NoAccountYet, AccountHasInvitation, NameHasOneOwner, HasName, UsesAreCounted, Exists
<1>2. ASSUME NEW c \in Codes, Create(c) \/ Update(c) \/ Delete(c) PROVE IInv'
    BY <1>0, <1>2, AdministratorInductive
<1>3. ASSUME NEW r \in Registrations, Begin(r) PROVE IInv'
    <2> USE DEF IInv
    <2>1. /\ UNCHANGED <<invitation, rowLock, account>>
          /\ pc[r] = "new" /\ pc'[r] = "begun" /\ account[r] = "none"
          /\ code'[r] \in Codes /\ name'[r] \in Names
          /\ \A q \in Registrations \ {r} : /\ pc'[q] = pc[q] /\ code'[q] = code[q]
                                            /\ name'[q] = name[q] /\ began'[q] = began[q]
        BY <1>3 DEF Begin, NoAccountYet
    <2>2. Asked' /\ NoAccountYet' /\ AccountHasInvitation' /\ NameHasOneOwner'
        BY <2>1 DEF Asked, NoAccountYet, AccountHasInvitation, NameHasOneOwner, HasName
    <2>3. Holding'
        BY <2>1 DEF Holding, Consumable, NotExpiredAt, HasUsesLeft
    <2>4. \A c \in Codes : Admissions(c)' = Admissions(c)
        BY <2>1 DEF Admissions
    <2>5. UsesAreCounted'
        BY <2>1, <2>4 DEF UsesAreCounted, Admissions, Exists
    <2> QED BY <1>0, <2>2, <2>3, <2>5
<1>4. ASSUME NEW r \in Registrations,
             Find(r) \/ Consume(r) \/ CreateAccount(r) \/ NameTaken(r) \/ Breaks(r) \/ OpenSession(r)
      PROVE  IInv'
    <2> USE DEF IInv
    <2>1. /\ UNCHANGED <<invitation, code, name, began, account>> /\ pc[r] # "new"
          /\ \A q \in Registrations \ {r} : pc'[q] = pc[q]
          /\ pc'[r] \in {"found", "consumed", "created", "refused", "registered", "failed"}
        BY <1>4 DEF Find, Consume, CreateAccount, NameTaken, Breaks, Refuse, OpenSession,
            InTransaction
    <2>2. UsesAreCounted'
        BY <2>1, RequestMovesOn
    <2>3. Asked' /\ AccountHasInvitation'
        BY <2>1 DEF Asked, AccountHasInvitation
    <2>4. NoAccountYet'
        <3>1. pc'[r] \in {"found", "consumed", "created"} => account[r] = "none"
            BY <1>4 DEF Find, Consume, CreateAccount, NameTaken, Breaks, Refuse, OpenSession,
                NoAccountYet
        <3> QED BY <2>1, <3>1 DEF NoAccountYet
    <2>5. NameHasOneOwner'
        <3>1. CASE pc'[r] = "created"
            <4>1. \A q \in Registrations : q # r /\ name[q] = name[r] => ~HasName(q)
                BY <1>4, <3>1 DEF Find, Consume, CreateAccount, NameTaken, Breaks, Refuse,
                    OpenSession, Taken, Pending, HasName
            <4>2. \A q \in Registrations \ {r} : HasName(q)' => HasName(q)
                BY <2>1 DEF HasName
            <4> QED BY <2>1, <4>1, <4>2 DEF NameHasOneOwner
        <3>2. CASE pc'[r] # "created"
            <4>1. \A q \in Registrations : HasName(q)' => HasName(q)
                BY <2>1, <3>2 DEF HasName
            <4> QED BY <2>1, <4>1 DEF NameHasOneOwner
        <3> QED BY <3>1, <3>2
    <2>6. Holding'
        <3>1. \A q \in Registrations \ {r} :
                pc[q] \in {"consumed", "created"} => rowLock'[code[q]] = q
            BY <1>4, ConstantsAssumption DEF Find, Consume, CreateAccount, NameTaken, Breaks,
                Refuse, Unlocked, OpenSession, Holding, Asked
        <3>2. pc'[r] \in {"consumed", "created"} => rowLock'[code[r]] = r /\ Consumable(r)
            BY <1>4 DEF Find, Consume, CreateAccount, NameTaken, Breaks, Refuse, OpenSession,
                Holding, Asked
        <3> QED BY <2>1, <3>1, <3>2 DEF Holding, Consumable, NotExpiredAt, HasUsesLeft
    <2> QED BY <1>0, <2>2, <2>3, <2>4, <2>5, <2>6
<1>5. ASSUME NEW r \in Registrations, Commit(r) PROVE IInv'
    BY <1>0, <1>5, CommitInductive
<1>6. ASSUME NEW r \in Registrations, DeleteAccount(r) PROVE IInv'
    <2> USE DEF IInv
    <2>1. /\ UNCHANGED <<invitation, rowLock, pc, code, name, began>>
          /\ account[r] = "ACTIVE" /\ account'[r] = "gone"
          /\ \A q \in Registrations \ {r} : account'[q] = account[q]
        BY <1>6 DEF DeleteAccount
    <2>2. Asked' /\ NoAccountYet' /\ AccountHasInvitation' /\ NameHasOneOwner'
        BY <2>1 DEF Asked, NoAccountYet, AccountHasInvitation, NameHasOneOwner, HasName
    <2>3. Holding'
        BY <2>1 DEF Holding, Consumable, NotExpiredAt, HasUsesLeft
    <2>4. \A c \in Codes : Admissions(c)' = Admissions(c)
        BY <2>1 DEF Admissions
    <2>5. UsesAreCounted'
        BY <2>1, <2>4 DEF UsesAreCounted, Admissions, Exists
    <2> QED BY <1>0, <2>2, <2>3, <2>5
<1>7. CASE Tick
    BY <1>0, <1>7, RequestMovesOn DEF Tick, IInv, Asked, Holding, Consumable, NotExpiredAt,
        HasUsesLeft, NoAccountYet, AccountHasInvitation, NameHasOneOwner, HasName
<1> QED BY <1>1, <1>2, <1>3, <1>4, <1>5, <1>6, <1>7 DEF Next, Register

\* used_count is exact for any number of concurrent registrations, changes and
\* deletions.
THEOREM UsesCounted == Spec => []UsesAreCounted
<1>1. IInv => UsesAreCounted
    BY DEF IInv
<1> QED BY <1>1, InitInductive, NextInductive, PTL DEF Spec

\* No two live accounts ever share a username.
THEOREM NamesUnique == Spec => []NamesAreUnique
<1>1. IInv => NamesAreUnique
    BY DEF IInv, NamesAreUnique, NameHasOneOwner, HasName
<1> QED BY <1>1, InitInductive, NextInductive, PTL DEF Spec

\* No account is ever created on an invitation that is spent, disabled, deleted or had
\* expired when the transaction began.
THEOREM OnlyAdmitted == Spec => Admitted
<1> DEFINE Good == \A r \in Registrations : account[r] = "none" /\ account'[r] = "ACTIVE" =>
                /\ invitation[code[r]].status = "ACTIVE"
                /\ HasUsesLeft(code[r])
                /\ NotExpiredAt(code[r], began[r])
<1>1. IInv /\ [Next]_vars => [Good]_vars
    <2> SUFFICES ASSUME IInv, Next, NEW r \in Registrations,
                        account[r] = "none", account'[r] = "ACTIVE"
                 PROVE  Consumable(r)
        BY DEF Good, Consumable
    <2> USE DEF IInv, TypeOK
    <2>1. Commit(r)
        <3>1. \A c \in Codes : Create(c) \/ Update(c) \/ Delete(c) => account' = account
            BY DEF Create, Update, Delete
        <3>2. \A q \in Registrations :
                Begin(q) \/ Find(q) \/ Consume(q) \/ CreateAccount(q)
                    \/ NameTaken(q) \/ Breaks(q) \/ OpenSession(q) => account' = account
            BY DEF Begin, Find, Consume, CreateAccount, NameTaken, Breaks, Refuse, OpenSession
        <3>3. Tick => account' = account
            BY DEF Tick
        <3>4. account' # account
            OBVIOUS
        <3>5. PICK q \in Registrations : Commit(q) \/ DeleteAccount(q)
            BY <3>1, <3>2, <3>3, <3>4 DEF Next, Register
        <3>6. q = r
            BY <3>5 DEF Commit, DeleteAccount
        <3> QED BY <3>5, <3>6 DEF DeleteAccount
    <2> QED BY <2>1 DEF Commit, Holding
<1> QED BY <1>1, InitInductive, NextInductive, PTL DEF Spec, Admitted

-----------------------------------------------------------------------------
(* The refinement of Membership                                            *)

LEMMA InitRefines == Init => Membership!Init
<1> SUFFICES ASSUME Init PROVE Membership!Init
    OBVIOUS
<1>1. Offers = [c \in Codes |-> [status |-> "absent", max |-> None, used |-> 0]]
    BY DEF Init, Offers
<1>2. Members = [r \in Registrations |-> [name |-> None, live |-> FALSE]]
    BY DEF Init, Members
<1> QED BY <1>1, <1>2 DEF Membership!Init

\* The abstract state follows from the invitations, the accounts and the names of those
\* who have one.
LEMMA NothingShown ==
    ASSUME TypeOK, UNCHANGED <<invitation, account>>,
           \A r \in Registrations : account[r] # "none" => name'[r] = name[r]
    PROVE  UNCHANGED Membership!vars
BY DEF Membership!vars, Offers, Members, TypeOK

\* What an administrator does to an invitation shows in its offer only.
LEMMA OfferShown ==
    ASSUME TypeOK, NEW c \in Codes, UNCHANGED <<account, name>>,
           \A d \in Codes \ {c} : invitation'[d] = invitation[d]
    PROVE  Membership!Alter(c, [status |-> invitation'[c].status, max |-> invitation'[c].max,
                                used |-> invitation'[c].used])
<1>1. Members' = Members
    BY DEF Members
<1>2. Offers' = [Offers EXCEPT ![c] = [status |-> invitation'[c].status,
                                       max |-> invitation'[c].max, used |-> invitation'[c].used]]
    BY DEF Offers
<1> QED BY <1>1, <1>2 DEF Membership!Alter

LEMMA AdministratorsRefine ==
    ASSUME TypeOK, NEW c \in Codes, Create(c) \/ Update(c) \/ Delete(c)
    PROVE  Membership!Publish(c) \/ Membership!Amend(c) \/ Membership!Withdraw(c)
<1> USE DEF TypeOK
<1>1. /\ Offers[c].status = invitation[c].status /\ Offers[c].max = invitation[c].max
      /\ Offers[c].used = invitation[c].used
    BY DEF Offers
<1>2. CASE Create(c)
    <2>1. PICK m \in Limits \cup {None}, e \in Expiries \cup {None} :
            invitation' = [invitation EXCEPT ![c] =
                [status |-> "ACTIVE", max |-> m, used |-> 0, expires |-> e]]
        BY <1>2 DEF Create
    <2>2. Membership!Alter(c, [status |-> "ACTIVE", max |-> m, used |-> 0])
        BY <1>2, <2>1, OfferShown DEF Create, asked
    <2> QED BY <1>1, <1>2, <2>2 DEF Create, Membership!Publish
<1>3. CASE Update(c)
    <2>1. PICK s \in {"ACTIVE", "DISABLED"}, m \in Limits \cup {None}, e \in Expiries \cup {None} :
            invitation' = [invitation EXCEPT ![c] = [@ EXCEPT !.status = s, !.max = m, !.expires = e]]
        BY <1>3, Zenon DEF Update
    <2>2. /\ invitation'[c].status = s /\ invitation'[c].max = m
          /\ invitation'[c].used = invitation[c].used
          /\ \A d \in Codes \ {c} : invitation'[d] = invitation[d]
        <3>1. invitation[c] \in Invitations
            OBVIOUS
        <3> QED BY <2>1, <3>1 DEF Invitations
    <2>3. Membership!Alter(c, [status |-> s, max |-> m, used |-> Offers[c].used])
        BY <1>1, <1>3, <2>2, OfferShown DEF Update, asked
    <2> QED BY <1>1, <1>3, <2>3 DEF Update, Exists, Membership!Amend, Membership!Exists
<1>4. CASE Delete(c)
    <2>1. /\ invitation'[c].status = "deleted" /\ invitation'[c].max = invitation[c].max
          /\ invitation'[c].used = invitation[c].used
          /\ \A d \in Codes \ {c} : invitation'[d] = invitation[d]
        BY <1>4 DEF Delete, Invitations
    <2>2. Membership!Alter(c, [status |-> "deleted", max |-> Offers[c].max, used |-> Offers[c].used])
        BY <1>1, <1>4, <2>1, OfferShown DEF Delete, asked
    <2> QED BY <1>1, <1>4, <2>2 DEF Delete, Exists, Membership!Withdraw, Membership!Exists
<1> QED BY <1>2, <1>3, <1>4

\* A commit is a join: the row it has locked still allows it, and nobody has the name.
LEMMA CommitRefines ==
    ASSUME IInv, NEW r \in Registrations, Commit(r)
    PROVE  Membership!Join(r, code[r], name[r])
<1> USE DEF IInv, TypeOK
<1> DEFINE c == code[r]
           i == invitation[c]
           last == i.max # None /\ i.used + 1 >= i.max
<1>1. pc[r] = "created" /\ account[r] = "none" /\ c \in Codes /\ Consumable(r) /\ i \in Invitations
    BY DEF Commit, NoAccountYet, Asked, Holding
<1>2. Offers[c] = [status |-> "ACTIVE", max |-> i.max, used |-> i.used]
    BY <1>1 DEF Offers, Consumable
<1>3. i.max # None => i.used < i.max
    BY <1>1 DEF Consumable, HasUsesLeft
<1>4. Members[r].name = None
    BY <1>1 DEF Members
<1>5. \A q \in Registrations : ~(Members[q].live /\ Members[q].name = name[r])
    <2> SUFFICES ASSUME NEW q \in Registrations, account[q] = "ACTIVE", name[q] = name[r]
                 PROVE  FALSE
        BY DEF Members
    <2>1. q = r
        BY <1>1 DEF NameHasOneOwner, HasName
    <2> QED BY <1>1, <2>1
<1>6. /\ \A d \in Codes \ {c} : invitation'[d] = invitation[d]
      /\ invitation'[c].status = (IF last THEN "DISABLED" ELSE "ACTIVE")
      /\ invitation'[c].max = i.max /\ invitation'[c].used = i.used + 1
    <2>1. invitation' = [invitation EXCEPT ![c] = Consumed(i)]
        BY DEF Commit, Committed
    <2>2. Consumed(i) = [i EXCEPT !.used = i.used + 1, !.status = IF last THEN "DISABLED" ELSE "ACTIVE"]
        BY <1>1 DEF Consumed, Consumable
    <2>3. (IF last THEN "DISABLED" ELSE "ACTIVE") \in {"ACTIVE", "DISABLED"}
        OBVIOUS
    <2> HIDE DEF last
    <2> QED BY <1>1, <2>1, <2>2, <2>3 DEF Invitations
<1> HIDE DEF last
<1>7. Offers' = [Offers EXCEPT ![c] = [status |-> IF last THEN "DISABLED" ELSE "ACTIVE",
                                       max |-> i.max, used |-> i.used + 1]]
    BY <1>1, <1>6 DEF Offers
<1>8. Members' = [Members EXCEPT ![r] = [name |-> name[r], live |-> TRUE]]
    <2>1. /\ name' = name /\ account'[r] = "ACTIVE"
          /\ \A q \in Registrations \ {r} : account'[q] = account[q]
        BY DEF Commit, asked
    <2> QED BY <2>1 DEF Members
<1>9. last <=> Membership!LastUse(c)
    BY <1>2 DEF last, Membership!LastUse
<1>10. Offers[c].status = "ACTIVE" /\ Offers[c].max = i.max /\ Offers[c].used = i.used
    BY <1>2
<1> HIDE DEF i, c
<1> QED BY <1>3, <1>4, <1>5, <1>7, <1>8, <1>9, <1>10 DEF Membership!Join, c

LEMMA NextRefines == IInv /\ [Next]_vars => [Membership!Next]_(Membership!vars)
<1> SUFFICES ASSUME IInv, [Next]_vars PROVE [Membership!Next]_(Membership!vars)
    OBVIOUS
<1>0. TypeOK
    BY DEF IInv
<1>1. CASE UNCHANGED vars
    BY <1>0, <1>1, NothingShown DEF vars, asked
<1>2. ASSUME NEW c \in Codes, Create(c) \/ Update(c) \/ Delete(c) PROVE Membership!Next
    BY <1>0, <1>2, AdministratorsRefine DEF Membership!Next
<1>3. ASSUME NEW r \in Registrations, Begin(r) PROVE UNCHANGED Membership!vars
    <2>1. account[r] = "none"
        BY <1>3 DEF Begin, IInv, NoAccountYet
    <2>2. \A q \in Registrations : account[q] # "none" => name'[q] = name[q]
        BY <1>0, <1>3, <2>1 DEF Begin, TypeOK
    <2> QED BY <1>0, <1>3, <2>2, NothingShown DEF Begin
<1>4. ASSUME NEW r \in Registrations,
             Find(r) \/ Consume(r) \/ CreateAccount(r) \/ NameTaken(r) \/ Breaks(r) \/ OpenSession(r)
      PROVE  UNCHANGED Membership!vars
    BY <1>0, <1>4, NothingShown DEF Find, Consume, CreateAccount, NameTaken, Breaks, Refuse,
        OpenSession, asked
<1>5. ASSUME NEW r \in Registrations, Commit(r) PROVE Membership!Next
    <2>1. code[r] \in Codes /\ name[r] \in Names
        BY <1>5 DEF Commit, IInv, Asked
    <2> QED BY <1>5, <2>1, CommitRefines DEF Membership!Next
<1>6. ASSUME NEW r \in Registrations, DeleteAccount(r) PROVE Membership!Leave(r)
    <2>1. /\ account[r] = "ACTIVE" /\ account'[r] = "gone" /\ UNCHANGED <<invitation, name>>
          /\ \A q \in Registrations \ {r} : account'[q] = account[q]
        BY <1>0, <1>6 DEF DeleteAccount, asked, TypeOK
    <2>2. Members' = [Members EXCEPT ![r] = [name |-> name[r], live |-> FALSE]]
        BY <2>1 DEF Members
    <2>3. Members[r] = [name |-> name[r], live |-> TRUE]
        BY <2>1 DEF Members
    <2> QED BY <2>1, <2>2, <2>3 DEF Membership!Leave, Offers
<1>7. CASE Tick
    BY <1>0, <1>7, NothingShown DEF Tick, asked
<1> QED BY <1>1, <1>2, <1>3, <1>4, <1>5, <1>6, <1>7 DEF Next, Register, Membership!Next

\* Registration implements Membership for any requests, invitations and failures: what
\* is spread over statements, row locks and a COMMIT happens in one step.
THEOREM ImplementsMembership == Spec => MembershipSpec
BY InitRefines, NextRefines, InitInductive, NextInductive, PTL
   DEF Spec, Membership!Spec, MembershipSpec

-----------------------------------------------------------------------------
(* The pool of connections                                                 *)

\* A caller that waits holds no connection, or the one its list is read with.
PoolShape(r) ==
    LET Nothing == held[r] = {}
        One == \E c \in Conns : held[r] = {c}
        Two == \E c, d \in Conns : c # d /\ held[r] = {c, d}
    IN  /\ stage[r] = "none" => Nothing /\ ~waits[r]
        /\ stage[r] \in {"statement", "rows"} => IF waits[r] THEN Nothing ELSE One
        /\ stage[r] = "tagged" => One /\ ~waits[r]
        /\ stage[r] \in {"tags", "files"} => IF waits[r] THEN One ELSE Two

PoolInv == PoolTypeOK /\ \A r \in Callers : PoolShape(r)

LEMMA PoolInvInit == PoolInit => PoolInv
BY DEF PoolInit, PoolInv, PoolTypeOK, PoolShape, Stages

\* A step of one caller leaves the connections of the others and their wait alone.
LEMMA PoolOthersWait ==
    ASSUME PoolInv, NEW r \in Callers, NEW q \in Callers \ {r},
           held'[q] = held[q], stage'[q] = stage[q], waits'[q] = waits[q]
    PROVE  PoolShape(q)'
BY DEF PoolInv, PoolShape

LEMMA PoolInvNext == PoolInv /\ [PoolNext]_poolVars => PoolInv'
<1> SUFFICES ASSUME PoolInv, [PoolNext]_poolVars PROVE PoolInv'
    OBVIOUS
<1> USE DEF PoolInv, PoolTypeOK
<1>1. CASE UNCHANGED poolVars
    BY <1>1 DEF poolVars, PoolShape
<1>2. ASSUME NEW r \in Callers, NEW next \in Stages, Acquire(r, next),
             \/ stage[r] = "none" /\ next \in {"statement", "rows"}
             \/ stage[r] \in {"rows", "tagged"} /\ next \in {"tags", "files"}
      PROVE  PoolInv'
    <2>1. PoolTypeOK'
        BY <1>2 DEF Acquire
    <2>2. PoolShape(r)'
        BY <1>2 DEF Acquire, PoolShape
    <2>3. \A q \in Callers \ {r} : PoolShape(q)'
        BY <1>2, PoolOthersWait DEF Acquire
    <2> QED BY <2>1, <2>2, <2>3
<1>3. ASSUME NEW r \in Callers, Acquired(r) PROVE PoolInv'
    <2>1. PICK c \in Free : held' = [held EXCEPT ![r] = held[r] \cup {c}]
        BY <1>3 DEF Acquired
    <2>2. c \in Conns /\ c \notin held[r]
        BY DEF Free
    <2>3. waits[r] /\ waits' = [waits EXCEPT ![r] = FALSE] /\ stage' = stage
        BY <1>3 DEF Acquired
    <2>4. PoolTypeOK'
        BY <2>1, <2>2, <2>3
    <2>5. PoolShape(r)'
        BY <2>1, <2>2, <2>3 DEF PoolShape, Stages
    <2>6. \A q \in Callers \ {r} : PoolShape(q)'
        BY <2>1, <2>3, PoolOthersWait
    <2> QED BY <2>4, <2>5, <2>6
<1>4. ASSUME NEW r \in Callers, CloseTags(r) PROVE PoolInv'
    <2>1. PICK c \in held[r] : held' = [held EXCEPT ![r] = held[r] \ {c}]
        BY <1>4 DEF CloseTags, Closed
    <2>2. /\ stage[r] = "tags" /\ ~waits[r] /\ stage' = [stage EXCEPT ![r] = "tagged"]
          /\ waits' = waits
        BY <1>4 DEF CloseTags
    <2>3. PoolTypeOK'
        BY <2>1, <2>2 DEF Stages
    <2>4. PoolShape(r)'
        BY <2>1, <2>2 DEF PoolShape
    <2>5. \A q \in Callers \ {r} : PoolShape(q)'
        BY <2>1, <2>2, PoolOthersWait
    <2> QED BY <2>3, <2>4, <2>5
<1>5. ASSUME NEW r \in Callers, Related(r) PROVE PoolInv'
    <2>1. PICK c \in held[r] : held' = [held EXCEPT ![r] = {c}]
        BY <1>5 DEF Related
    <2>2. /\ ~waits[r] /\ stage' = [stage EXCEPT ![r] = "rows"]
          /\ waits' = waits
        BY <1>5 DEF Related
    <2>3. PoolTypeOK'
        BY <2>1, <2>2 DEF Stages
    <2>4. PoolShape(r)'
        BY <2>1, <2>2 DEF PoolShape
    <2>5. \A q \in Callers \ {r} : PoolShape(q)'
        BY <2>1, <2>2, PoolOthersWait
    <2> QED BY <2>3, <2>4, <2>5
<1>6. ASSUME NEW r \in Callers, Done(r) \/ Leave(r) PROVE PoolInv'
    <2>1. /\ held' = [held EXCEPT ![r] = {}] /\ stage' = [stage EXCEPT ![r] = "none"]
          /\ waits' = [waits EXCEPT ![r] = FALSE]
        BY <1>6 DEF Done, Leave, GivenBack
    <2>2. PoolTypeOK'
        BY <2>1 DEF Stages
    <2>3. PoolShape(r)'
        BY <2>1 DEF PoolShape
    <2>4. \A q \in Callers \ {r} : PoolShape(q)'
        BY <2>1, PoolOthersWait
    <2> QED BY <2>2, <2>3, <2>4
<1>7. ASSUME NEW r \in Callers, Statement(r) \/ List(r) \/ LoadRelations(r) \/ LoadFiles(r)
      PROVE  PoolInv'
    BY <1>2, <1>7 DEF Statement, List, LoadRelations, LoadFiles, Stages
<1> QED BY <1>1, <1>3, <1>4, <1>5, <1>6, <1>7 DEF PoolNext

\* When the pool is stuck every connection is held by a list of its own.
LEMMA StuckIsFull ==
    ASSUME PoolInv, Stuck
    PROVE  Cardinality(Conns) <= Cardinality(Listing)
<1> USE DEF PoolInv, PoolTypeOK
<1> DEFINE f == [r \in Listing |-> CHOOSE c \in held[r] : TRUE]
<1>1. \A r \in Listing : \E c \in Conns : held[r] = {c}
    BY DEF Listing, PoolShape, Stages
<1>2. \A r \in Listing : f[r] \in held[r] /\ f[r] \in Conns
    BY <1>1
<1>3. ASSUME NEW c \in Conns PROVE \E r \in Listing : f[r] = c
    <2>1. PICK r \in Callers : c \in held[r]
        BY DEF Stuck, Free
    <2>2. r \in Listing
        BY <2>1 DEF Stuck, Listing
    <2>3. f[r] = c
        BY <1>1, <1>2, <2>1, <2>2
    <2> QED BY <2>2, <2>3
<1>4. f \in [Listing -> Conns]
    BY <1>2
<1> HIDE DEF f
<1>5. f \in Surjection(Listing, Conns)
    BY <1>3, <1>4 DEF Surjection
<1>6. IsFiniteSet(Listing)
    BY PoolAssumption, FS_Subset DEF Listing
<1> QED BY <1>5, <1>6, FS_Surjection

\* What callers hold and wait for keeps its type, whoever comes and goes.
THEOREM PoolTypesKept == PoolSpec => []PoolTypeOK
<1>1. PoolInv => PoolTypeOK
    BY DEF PoolInv
<1> QED BY <1>1, PoolInvInit, PoolInvNext, PTL DEF PoolSpec

\* For a pool of any size and any number of callers, only lists block it, as many as
\* it has connections, each with one of them.
THEOREM OnlyListsBlock == PoolSpec => []ListsAloneBlock
<1>1. PoolInv => ListsAloneBlock
    BY StuckIsFull DEF ListsAloneBlock
<1> QED BY <1>1, PoolInvInit, PoolInvNext, PTL DEF PoolSpec
=============================================================================
