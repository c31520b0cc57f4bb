----------------------------- MODULE Membership -----------------------------
(***************************************************************************)
(* What registration by invitation promises, whatever transactions, locks  *)
(* and answers it is built from: somebody joins in one step, on an         *)
(* invitation that is open and has a use left, under a name nobody has;    *)
(* that step counts the use, and closes the invitation with its last one.  *)
(* Nothing else makes a member or counts.                                  *)
(***************************************************************************)
EXTENDS Naturals

CONSTANTS
    People,
    Codes,    \* invitations
    Names,    \* usernames
    Limits,   \* how many uses an invitation may allow
    None      \* no limit; no account

VARIABLES
    offer,   \* what each invitation allows and how often it was used
    member   \* whether each person has an account, and under which name

vars == <<offer, member>>

Init ==
    /\ offer = [c \in Codes |-> [status |-> "absent", max |-> None, used |-> 0]]
    /\ member = [p \in People |-> [name |-> None, live |-> FALSE]]

Alter(c, new) == offer' = [offer EXCEPT ![c] = new] /\ UNCHANGED member

Exists(c) == offer[c].status \in {"ACTIVE", "DISABLED"}

Publish(c) ==
    /\ offer[c].status = "absent"
    /\ \E m \in Limits \cup {None} : Alter(c, [status |-> "ACTIVE", max |-> m, used |-> 0])

Amend(c) ==
    /\ Exists(c)
    /\ \E s \in {"ACTIVE", "DISABLED"}, m \in Limits \cup {None} :
        Alter(c, [status |-> s, max |-> m, used |-> offer[c].used])

Withdraw(c) ==
    /\ Exists(c)
    /\ Alter(c, [status |-> "deleted", max |-> offer[c].max, used |-> offer[c].used])

LastUse(c) == offer[c].max # None /\ offer[c].used + 1 >= offer[c].max

Join(p, c, n) ==
    /\ offer[c].status = "ACTIVE" /\ (offer[c].max # None => offer[c].used < offer[c].max)
    /\ member[p].name = None
    /\ \A q \in People : ~(member[q].live /\ member[q].name = n)
    /\ offer' = [offer EXCEPT ![c] = [status |-> IF LastUse(c) THEN "DISABLED" ELSE "ACTIVE",
                                      max |-> offer[c].max, used |-> offer[c].used + 1]]
    /\ member' = [member EXCEPT ![p] = [name |-> n, live |-> TRUE]]

Leave(p) ==
    /\ member[p].live
    /\ member' = [member EXCEPT ![p] = [name |-> member[p].name, live |-> FALSE]]
    /\ UNCHANGED offer

Next ==
    \/ \E c \in Codes : Publish(c) \/ Amend(c) \/ Withdraw(c)
    \/ \E p \in People : Leave(p) \/ \E c \in Codes, n \in Names : Join(p, c, n)

Spec == Init /\ [][Next]_vars
=============================================================================
