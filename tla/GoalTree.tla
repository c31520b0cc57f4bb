------------------------------ MODULE GoalTree ------------------------------
(***************************************************************************)
(* The goals of one user: the handler that saves a goal under a parent,    *)
(* having walked up from that parent one query at a time, and the one that *)
(* deletes a goal with all below it. The walk runs outside the transaction *)
(* that writes. A member of Tabs sends one request after the other.        *)
(***************************************************************************)
EXTENDS Forest

CONSTANTS
    Goals,   \* ids of goals
    Root,    \* parent_id IS NULL
    Absent,  \* there is no such row
    Tabs     \* browser tabs of the user

ASSUME ConstantsAssumption ==
    Root \notin Goals /\ Absent \notin Goals /\ Root # Absent

VARIABLES
    parent,   \* parent_id of each goal
    known,    \* ids that have had a row: a client can only name these
    pc,       \* what each request is about to do
    id, up,   \* the goal it saves and the parent to give it
    new,      \* it creates the goal
    current,  \* the goal the walk has come to
    visited,  \* those it has met
    stale,    \* history: requests during which another one has changed the goals
    raced     \* history: one of those has changed the goals itself

walk == <<current, visited>>
request == <<id, up, new>>
vars == <<parent, known, pc, request, walk, stale, raced>>

TypeOK ==
    /\ parent \in [Goals -> Goals \cup {Root, Absent}]
    /\ known \subseteq Goals
    /\ pc \in [Tabs -> {"idle", "walk", "write"}]
    /\ id \in [Tabs -> Goals] /\ current \in [Tabs -> Goals]
    /\ up \in [Tabs -> Goals \cup {Root}]
    /\ new \in [Tabs -> BOOLEAN]
    /\ visited \in [Tabs -> SUBSET Goals]
    /\ stale \subseteq Tabs /\ raced \in BOOLEAN

Init ==
    /\ parent = [g \in Goals |-> Absent]
    /\ known = {}
    /\ pc = [t \in Tabs |-> "idle"]
    /\ \E g \in Goals : id = [t \in Tabs |-> g] /\ current = [t \in Tabs |-> g]
    /\ up = [t \in Tabs |-> Root]
    /\ new = [t \in Tabs |-> FALSE]
    /\ visited = [t \in Tabs |-> {}]
    /\ stale = {} /\ raced = FALSE

Present(g) == parent[g] # Absent

\* NULL or the id of a row.
Referable(p) == p # Root => Present(p)

\* A step that leaves the rows alone.
Goto(t, place) ==
    /\ pc' = [pc EXCEPT ![t] = place]
    /\ stale' = IF place = "idle" THEN stale \ {t} ELSE stale
    /\ UNCHANGED <<parent, known, raced>>

\* The last step of a request that changes the rows.
Written(t) ==
    /\ pc' = [pc EXCEPT ![t] = "idle"]
    /\ stale' = {s \in Tabs \ {t} : pc[s] # "idle"}
    /\ raced' = (raced \/ t \in stale)

-----------------------------------------------------------------------------
(* Service.SaveGoal                                                        *)

\* The id of a new goal is drawn in the handler and differs from all others.
Fresh(g) == g \notin known /\ \A t \in Tabs : pc[t] # "idle" /\ new[t] => id[t] # g

\* Variant: the goal itself is not marked.
SeedNothing(g, p, n) == {}

\* Variant: the parent is marked before the walk comes to it.
SeedParent(g, p, n) == {p} \ {Root}

\* What counts as visited before the walk starts.
Seed(g, p, n) == IF n \/ p = Root THEN {} ELSE {g}

\* The id of a new goal is drawn after the walk, which knows it as uuid.Nil; a goal
\* named as its own parent is refused at once.
Save(t) ==
    /\ pc[t] = "idle"
    /\ \E g \in Goals, p \in known \cup {Root}, n \in BOOLEAN :
        /\ IF n THEN Fresh(g) ELSE g \in known \ {p}
        /\ id' = [id EXCEPT ![t] = g]
        /\ up' = [up EXCEPT ![t] = p]
        /\ new' = [new EXCEPT ![t] = n]
        /\ current' = [current EXCEPT ![t] = IF p = Root THEN g ELSE p]
        /\ visited' = [visited EXCEPT ![t] = Seed(g, p, n)]
        /\ Goto(t, IF p = Root THEN "write" ELSE "walk")

\* Variant: what the walk has met is forgotten.
GoUpForgetting(t) ==
    /\ parent[current[t]] \in Goals
    /\ current' = [current EXCEPT ![t] = parent[current[t]]]
    /\ Goto(t, "walk") /\ UNCHANGED visited

\* The walk goes on at the parent of the goal it has come to.
GoUp(t) ==
    /\ parent[current[t]] \in Goals
    /\ current' = [current EXCEPT ![t] = parent[current[t]]]
    /\ visited' = [visited EXCEPT ![t] = @ \cup {current[t]}]
    /\ Goto(t, "walk")

\* The walk returns.
Returns(t) ==
    /\ current' = [current EXCEPT ![t] = id[t]]
    /\ visited' = [visited EXCEPT ![t] = {}]

\* One turn of the loop in validateGoalParent: "goal hierarchy cannot contain a cycle",
\* "goal parent not found", a goal without a parent, or another turn.
Walk(t) ==
    /\ pc[t] = "walk"
    /\ \/ /\ current[t] \in visited[t] \/ ~Present(current[t])
          /\ Goto(t, "idle") /\ Returns(t)
       \/ /\ current[t] \notin visited[t] /\ parent[current[t]] = Root
          /\ Goto(t, "write") /\ Returns(t)
       \/ /\ current[t] \notin visited[t]
          /\ GoUp(t)
    /\ UNCHANGED request

\* Variant: the goal is created when it has gone.
WritableUpsert(t) == Referable(up[t])

\* The foreign key holds, and an UPDATE finds its row, "goal not found".
Writable(t) ==
    /\ Referable(up[t])
    /\ ~new[t] => Present(id[t])

\* The transaction: CreateGoal or UpdateGoal, and the metrics.
Write(t) ==
    /\ pc[t] = "write"
    /\ IF Writable(t)
       THEN /\ parent' = [parent EXCEPT ![id[t]] = up[t]]
            /\ known' = known \cup {id[t]}
            /\ Written(t)
       ELSE Goto(t, "idle")
    /\ UNCHANGED <<request, walk>>

-----------------------------------------------------------------------------
(* Service.DeleteGoal, which never fails for want of a row                 *)

Delete(t) ==
    /\ pc[t] = "idle"
    /\ \E g \in known :
        parent' = [x \in Goals |-> IF x \in Descendants(parent, g) THEN Absent ELSE parent[x]]
    /\ Written(t)
    /\ UNCHANGED <<known, request, walk>>

\* A statement fails, or the client leaves.
Breaks(t) ==
    /\ pc[t] # "idle"
    /\ Goto(t, "idle") /\ Returns(t)
    /\ UNCHANGED request

-----------------------------------------------------------------------------
Next == \E t \in Tabs : Save(t) \/ Walk(t) \/ Write(t) \/ Delete(t) \/ Breaks(t)

Spec == Init /\ [][Next]_vars

\* The handler's loop runs on.
FairSpec == Spec /\ \A t \in Tabs : WF_vars(Walk(t))

-----------------------------------------------------------------------------
(* Properties                                                              *)

\* No goal is above itself, "goal hierarchy cannot contain a cycle"
\* (daily/service.go:768), unless a save has gone on with what its walk saw before
\* another request changed the goals.
GoalsAreAcyclic == ~raced => Acyclic(parent)

\* The walk passes exactly the parents that are not below the goal: while nobody else
\* changes the goals it neither lets a cycle through nor refuses a harmless move.
WalkIsExact ==
    [][\A t \in Tabs \ stale : pc[t] = "walk" /\ ~new[t] /\ ~raced =>
        /\ pc'[t] = "write" => up[t] \notin Descendants(parent, id[t])
        /\ current[t] \in visited[t] => up[t] \in Descendants(parent, id[t])]_vars

\* A goal that has been deleted, itself or with one above it, never comes back,
\* whatever saves of it or below it were under way.
DeletedGoalsStayGone == [][\A g \in known : ~Present(g) => parent'[g] = Absent]_vars

\* The walk ends, also on a cycle and while the goals above it are moved about.
WalksEnd == \A t \in Tabs : pc[t] = "walk" ~> pc[t] # "walk"
=============================================================================
