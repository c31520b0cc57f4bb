------------------------------ MODULE TeamTree ------------------------------
(***************************************************************************)
(* The team of one user: the rows of team_members, the handler that saves  *)
(* a member under a parent and the one that deletes a member, promoting    *)
(* its children. Saving is a sequence of statements without a transaction; *)
(* deleting is one transaction at READ COMMITTED. A member of Tabs sends   *)
(* one request after the other.                                            *)
(***************************************************************************)
EXTENDS Forest

CONSTANTS
    Members,  \* ids of members
    Root,     \* parent_member_id IS NULL
    Absent,   \* there is no such row
    Tabs      \* browser tabs of the user

ASSUME ConstantsAssumption ==
    Root \notin Members /\ Absent \notin Members /\ Root # Absent

VARIABLES
    parent,  \* parent_member_id of each member
    known,   \* ids that have had a row: a client can only name these
    pc,      \* the statement each request is about to run
    id,      \* the member it saves or deletes
    up,      \* the parent to give it, or the parent its children move to
    new,     \* it creates the member
    promote, \* promote_children, and later: there are children to promote
    stale,   \* history: requests during which another one has changed the team
    raced    \* history: one of those has changed the team itself

request == <<id, up, new, promote>>
vars == <<parent, known, pc, request, stale, raced>>

TypeOK ==
    /\ parent \in [Members -> Members \cup {Root, Absent}]
    /\ known \subseteq Members
    /\ pc \in [Tabs -> {"idle", "parent", "cycle", "upsert", "member", "children", "drop"}]
    /\ id \in [Tabs -> Members]
    /\ up \in [Tabs -> Members \cup {Root}]
    /\ new \in [Tabs -> BOOLEAN] /\ promote \in [Tabs -> BOOLEAN]
    /\ stale \subseteq Tabs /\ raced \in BOOLEAN

Init ==
    /\ parent = [m \in Members |-> Absent]
    /\ known = {}
    /\ pc = [t \in Tabs |-> "idle"]
    /\ id \in [Tabs -> Members] /\ \A t, s \in Tabs : id[t] = id[s]
    /\ up = [t \in Tabs |-> Root]
    /\ new = [t \in Tabs |-> FALSE] /\ promote = [t \in Tabs |-> FALSE]
    /\ stale = {} /\ raced = FALSE

Present(m) == parent[m] # Absent

\* NULL or the id of a row.
Referable(p) == p # Root => Present(p)

\* A step that leaves the rows alone.
Goto(t, place) ==
    /\ pc' = [pc EXCEPT ![t] = place]
    /\ stale' = IF place = "idle" THEN stale \ {t} ELSE stale
    /\ UNCHANGED <<parent, known, raced>>

\* The last step of a request that changes the rows.
Written(t) ==
    /\ pc' = [pc EXCEPT ![t] = "idle"]
    /\ stale' = {s \in Tabs \ {t} : pc[s] # "idle"}
    /\ raced' = (raced \/ t \in stale)

-----------------------------------------------------------------------------
(* Service.SaveMember                                                      *)

\* The id of a new member is drawn in the handler and differs from all others.
Fresh(m) == m \notin known /\ \A t \in Tabs : pc[t] # "idle" /\ new[t] => id[t] # m

\* A parent sends the request to the tests of the hierarchy.
Save(t) ==
    /\ pc[t] = "idle"
    /\ \E m \in Members, p \in Members \cup {Root}, n \in BOOLEAN :
        /\ IF n THEN Fresh(m) ELSE m \in known
        /\ p \in known \cup {Root}
        /\ id' = [id EXCEPT ![t] = m] /\ up' = [up EXCEPT ![t] = p]
        /\ new' = [new EXCEPT ![t] = n]
        /\ Goto(t, IF p = Root THEN "upsert" ELSE "parent")
    /\ UNCHANGED promote

\* "parent member is not in this team"
CheckParent(t) ==
    /\ pc[t] = "parent"
    /\ Goto(t, IF ~Present(up[t]) THEN "idle" ELSE IF new[t] THEN "upsert" ELSE "cycle")
    /\ UNCHANGED request

\* Variant: only the children are looked at, not those further down.
BelowChildren(t) == up[t] \in Children(parent, id[t]) \cup {id[t]}

\* The rows the recursive query finds: the member, when it exists, and all below it.
Below(t) == Present(id[t]) /\ up[t] \in Descendants(parent, id[t])

\* UNION ALL keeps what it has found already: from a member on a cycle the query goes
\* on until it meets the parent, and without end when it never does.
QueryEnds(t) == Below(t) \/ ~\E x \in Children(parent, id[t]) : id[t] \in Descendants(parent, x)

\* "team hierarchy cannot contain a cycle"
CheckCycle(t) ==
    /\ pc[t] = "cycle" /\ QueryEnds(t)
    /\ Goto(t, IF Below(t) THEN "idle" ELSE "upsert")
    /\ UNCHANGED request

\* INSERT ... ON CONFLICT (id) DO UPDATE, whether the member is new or not; the foreign
\* key refuses a parent that has gone.
Upsert(t) ==
    /\ pc[t] = "upsert"
    /\ IF up[t] # id[t] /\ Referable(up[t])
       THEN /\ parent' = [parent EXCEPT ![id[t]] = up[t]]
            /\ known' = known \cup {id[t]}
            /\ Written(t)
       ELSE Goto(t, "idle")
    /\ UNCHANGED request

-----------------------------------------------------------------------------
(* Service.DeleteMember                                                    *)

Delete(t) ==
    /\ pc[t] = "idle"
    /\ \E m \in known, p \in BOOLEAN :
        /\ id' = [id EXCEPT ![t] = m]
        /\ promote' = [promote EXCEPT ![t] = p]
    /\ Goto(t, "member")
    /\ UNCHANGED <<up, new>>

\* "team member not found" ends the request.
ReadMember(t) ==
    /\ pc[t] = "member"
    /\ \/ /\ ~Present(id[t])
          /\ Goto(t, "idle") /\ UNCHANGED up
       \/ /\ Present(id[t])
          /\ Goto(t, "children") /\ up' = [up EXCEPT ![t] = parent[id[t]]]
    /\ UNCHANGED <<id, new, promote>>

\* "member has children; promote them before deleting"
LookForChildren(t) ==
    /\ pc[t] = "children"
    /\ LET has == Children(parent, id[t]) # {} IN
        /\ Goto(t, IF has /\ ~promote[t] THEN "idle" ELSE "drop")
        /\ promote' = [promote EXCEPT ![t] = has]
    /\ UNCHANGED <<id, up, new>>

\* Variant: the children become roots.
PromotedToRoot(t) == Root

\* Where the children go.
PromotedTo(t) == up[t]

\* The children move to the parent that was read; then the member goes. The foreign key
\* and the CHECK on the column may refuse either, and everything rolls back.
Drop(t) ==
    /\ pc[t] = "drop"
    /\ LET moved == IF promote[t] THEN Children(parent, id[t]) ELSE {}
           fails == \/ ~Present(id[t])
                    \/ Children(parent, id[t]) # moved
                    \/ moved # {} /\ ~Referable(PromotedTo(t))
                    \/ PromotedTo(t) \in moved \cup {id[t]}
       IN  IF fails THEN Goto(t, "idle") ELSE
           /\ parent' = [m \in Members |-> IF m = id[t] THEN Absent
                                          ELSE IF m \in moved THEN PromotedTo(t) ELSE parent[m]]
           /\ Written(t) /\ UNCHANGED known
    /\ UNCHANGED request

\* A statement fails, a deadlock is broken, or the client leaves.
Breaks(t) ==
    /\ pc[t] # "idle"
    /\ Goto(t, "idle")
    /\ UNCHANGED request

-----------------------------------------------------------------------------
Next == \E t \in Tabs :
    \/ Save(t) \/ CheckParent(t) \/ CheckCycle(t) \/ Upsert(t)
    \/ Delete(t) \/ ReadMember(t) \/ LookForChildren(t) \/ Drop(t)
    \/ Breaks(t)

Spec == Init /\ [][Next]_vars

-----------------------------------------------------------------------------
(* Properties                                                              *)

\* Nobody is above himself, "team hierarchy cannot contain a cycle" (team/service.go:157),
\* unless a save or a deletion has gone on with what it read before another request
\* changed the team.
TeamIsAcyclic == ~raced => Acyclic(parent)

\* Deleting a member takes nobody else out of the team, also when children come or go
\* meanwhile; and everyone else keeps exactly the others that were above him, unless
\* another request has changed the team in between.
DeletionKeepsTheRest ==
    [][\A t \in Tabs :
        pc[t] = "drop" /\ pc'[t] = "idle" /\ Present(id[t]) /\ parent'[id[t]] = Absent =>
            \A x \in Members \ {id[t]} :
                /\ Present(x) <=> parent'[x] # Absent
                /\ t \notin stale => Ancestors(parent', x) = Ancestors(parent, x) \ {id[t]}]_vars
=============================================================================
