--------------------------- MODULE GoalTreeProofs ---------------------------
(***************************************************************************)
(* What holds of the goals of a user for any goals and any number of tabs: *)
(* the types, that deleted goals stay gone, that only a request which has  *)
(* gone on with what its walk saw before another one changed the goals can *)
(* bring a cycle, and that a walk nobody has overtaken is exact.           *)
(***************************************************************************)
EXTENDS GoalTree, OperatorProofs

\* What Save(t) does with the goal, the parent and the kind of request it chooses.
Saves(t, g, p, n) ==
    /\ IF n THEN Fresh(g) ELSE g \in known \ {p}
    /\ id' = [id EXCEPT ![t] = g]
    /\ up' = [up EXCEPT ![t] = p]
    /\ new' = [new EXCEPT ![t] = n]
    /\ current' = [current EXCEPT ![t] = IF p = Root THEN g ELSE p]
    /\ visited' = [visited EXCEPT ![t] = Seed(g, p, n)]
    /\ Goto(t, IF p = Root THEN "write" ELSE "walk")

LEMMA SaveChooses ==
    ASSUME NEW t \in Tabs, Save(t)
    PROVE  \E g \in Goals, p \in known \cup {Root}, n \in BOOLEAN : Saves(t, g, p, n)
BY Zenon DEF Save, Saves

\* Rows, requests and walks keep their types, whatever the tabs do.
LEMMA TypeInit == Init => TypeOK
BY DEF Init, TypeOK

LEMMA PlacesKeepTypes ==
    ASSUME TypeOK, NEW t \in Tabs
    PROVE  /\ Written(t) => /\ pc' = [pc EXCEPT ![t] = "idle"]
                            /\ stale' \subseteq Tabs /\ raced' \in BOOLEAN
           /\ \A place : Goto(t, place) =>
                            /\ pc' = [pc EXCEPT ![t] = place] /\ UNCHANGED <<parent, known>>
                            /\ stale' \subseteq Tabs /\ raced' \in BOOLEAN
<1>1. (raced \/ t \in stale) \in BOOLEAN
    OBVIOUS
<1> QED BY <1>1, Zenon DEF TypeOK, Written, Goto

LEMMA TypeNext == TypeOK /\ [Next]_vars => TypeOK'
<1> SUFFICES ASSUME TypeOK, [Next]_vars PROVE TypeOK'
    OBVIOUS
<1> USE PlacesKeepTypes DEF TypeOK, request, walk, Returns
<1>1. CASE UNCHANGED vars
    BY <1>1 DEF vars
<1>2. ASSUME NEW t \in Tabs, Save(t) PROVE TypeOK'
    <2> PICK g \in Goals, p \in known \cup {Root}, n \in BOOLEAN : Saves(t, g, p, n)
        BY <1>2, SaveChooses
    <2>1. Seed(g, p, n) \in SUBSET Goals
        BY DEF Seed
    <2>2. Goto(t, IF p = Root THEN "write" ELSE "walk")
        BY DEF Saves
    <2>3. (IF p = Root THEN g ELSE p) \in Goals /\ p \in Goals \cup {Root}
        OBVIOUS
    <2> QED BY <2>1, <2>2, <2>3 DEF Saves
<1>3. ASSUME NEW t \in Tabs, Walk(t) PROVE TypeOK'
    BY <1>3 DEF Walk, GoUp
<1>4. ASSUME NEW t \in Tabs, Write(t) PROVE TypeOK'
    BY <1>4 DEF Write
<1>5. ASSUME NEW t \in Tabs, Delete(t) PROVE TypeOK'
    BY <1>5 DEF Delete
<1>6. ASSUME NEW t \in Tabs, Breaks(t) PROVE TypeOK'
    BY <1>6 DEF Breaks
<1> QED BY <1>1, <1>2, <1>3, <1>4, <1>5, <1>6 DEF Next

\* Rows, requests and walks keep their types, whatever the tabs do.
THEOREM TypeCorrect == Spec => []TypeOK
BY TypeInit, TypeNext, PTL DEF Spec

-----------------------------------------------------------------------------
(* Ids are drawn once: only a request that creates a goal brings its row,  *)
(* and its id has never had one.                                           *)

Creating(t) == pc[t] # "idle" /\ new[t]

NewIsUnknown == \A t \in Tabs : Creating(t) => id[t] \notin known

NewIsUnique == \A s, t \in Tabs : Creating(s) /\ Creating(t) /\ id[s] = id[t] => s = t

OldIsKnown == \A t \in Tabs : pc[t] # "idle" /\ ~new[t] => id[t] \in known

DrawnOnce == TypeOK /\ NewIsUnknown /\ NewIsUnique /\ OldIsKnown

LEMMA DrawnOnceInit == Init => DrawnOnce
BY TypeInit DEF Init, DrawnOnce, NewIsUnknown, NewIsUnique, OldIsKnown, Creating

LEMMA DrawnOnceNext == DrawnOnce /\ [Next]_vars => DrawnOnce'
<1> SUFFICES ASSUME DrawnOnce, [Next]_vars PROVE DrawnOnce'
    OBVIOUS
<1> USE DEF DrawnOnce, NewIsUnknown, NewIsUnique, OldIsKnown, Creating, TypeOK, request, walk,
        Goto, Written, Returns
<1>0. TypeOK'
    BY TypeNext
<1>1. CASE UNCHANGED vars
    BY <1>1 DEF vars
<1>2. ASSUME NEW t \in Tabs, Save(t) PROVE DrawnOnce'
    <2> PICK g \in Goals, p \in known \cup {Root}, n \in BOOLEAN : Saves(t, g, p, n)
        BY <1>2, SaveChooses
    <2>1. known' = known
        BY DEF Saves
    <2>2. n => g \notin known /\ \A s \in Tabs : Creating(s) => id[s] # g
        BY DEF Saves, Fresh
    <2>3. \A s \in Tabs \ {t} : id'[s] = id[s] /\ new'[s] = new[s] /\ pc'[s] = pc[s]
        BY DEF Saves
    <2>4. /\ id'[t] = g /\ new'[t] = n
          /\ ~n => g \in known
        BY DEF Saves
    <2>5. NewIsUnknown'
        BY <2>1, <2>2, <2>3, <2>4
    <2>6. OldIsKnown'
        BY <2>1, <2>2, <2>3, <2>4
    <2>7. NewIsUnique'
        BY <2>2, <2>3, <2>4
    <2> QED BY <1>0, <2>5, <2>6, <2>7
<1>3. ASSUME NEW t \in Tabs, Walk(t) PROVE DrawnOnce'
    BY <1>0, <1>3 DEF Walk, GoUp
<1>4. ASSUME NEW t \in Tabs, Write(t) PROVE DrawnOnce'
    <2>1. known' \subseteq known \cup {id[t]} /\ known \subseteq known'
        BY <1>4 DEF Write
    <2>2. UNCHANGED <<id, new>> /\ pc' = [pc EXCEPT ![t] = "idle"]
        BY <1>4 DEF Write
    <2>3. NewIsUnknown'
        <3> SUFFICES ASSUME NEW s \in Tabs, Creating(s)' PROVE id[s] \notin known'
            BY <2>2
        <3>1. s # t /\ Creating(s)
            BY <2>2
        <3>2. id[s] # id[t]
            BY <1>4, <3>1 DEF Write
        <3> QED BY <2>1, <3>1, <3>2
    <2> QED BY <1>0, <2>1, <2>2, <2>3
<1>5. ASSUME NEW t \in Tabs, Delete(t) PROVE DrawnOnce'
    BY <1>0, <1>5 DEF Delete
<1>6. ASSUME NEW t \in Tabs, Breaks(t) PROVE DrawnOnce'
    BY <1>0, <1>6 DEF Breaks
<1> QED BY <1>1, <1>2, <1>3, <1>4, <1>5, <1>6 DEF Next

\* However the tabs save and delete at once, a goal that has been deleted never comes
\* back.
THEOREM DeletedStayGone == Spec => DeletedGoalsStayGone
<1>1. DrawnOnce /\ [Next]_vars => [\A g \in known : ~Present(g) => parent'[g] = Absent]_vars
    <2> SUFFICES ASSUME DrawnOnce, Next, NEW g \in known, parent[g] = Absent
                 PROVE  parent'[g] = Absent
        BY DEF Present
    <2> USE DEF DrawnOnce, TypeOK
    <2>1. ASSUME NEW t \in Tabs, Write(t) PROVE parent'[g] = Absent
        <3>1. CASE Goto(t, "idle")
            BY <3>1 DEF Goto
        <3>2. CASE Writable(t) /\ parent' = [parent EXCEPT ![id[t]] = up[t]]
            <4>1. id[t] # g
                BY <2>1, <3>2 DEF Write, Writable, Present, NewIsUnknown, Creating
            <4> QED BY <3>2, <4>1
        <3> QED BY <2>1, <3>1, <3>2 DEF Write
    <2>2. ASSUME NEW t \in Tabs, Delete(t) PROVE parent'[g] = Absent
        BY <2>2 DEF Delete
    <2>3. ASSUME NEW t \in Tabs, Save(t) \/ Walk(t) \/ Breaks(t) PROVE parent'[g] = Absent
        BY <2>3 DEF Save, Walk, GoUp, Breaks, Goto
    <2> QED BY <2>1, <2>2, <2>3 DEF Next
<1> QED BY <1>1, DrawnOnceInit, DrawnOnceNext, PTL DEF Spec, DeletedGoalsStayGone

-----------------------------------------------------------------------------
(* As long as nobody else has changed the goals since a request began,     *)
(* they stand still while its walk goes up.                                *)

\* Only a request that is under way is marked.
StaleIsBusy == \A t \in stale : pc[t] # "idle"

\* The foreign key: a parent has a row.
Intact == \A g \in Goals : parent[g] \in Goals => Present(parent[g])

PresentIsKnown == \A g \in Goals : Present(g) => g \in known

\* Started below the goal, the walk comes to the goal itself, which it has marked.
WalkStaysBelow == \A t \in Tabs \ stale :
    pc[t] = "walk" /\ up[t] \in Descendants(parent, id[t]) =>
        id[t] \in visited[t] /\ current[t] \in Descendants(parent, id[t])

\* Everything the walk has passed, and the parent it started from, is below where it is.
WalkLeavesBelow == \A t \in Tabs \ stale :
    pc[t] = "walk" =>
        /\ up[t] \in Descendants(parent, current[t])
        /\ \A v \in visited[t] \ {id[t]} :
               v \in Descendants(parent, current[t]) /\ v # current[t]

PassedIsNotBelow == \A t \in Tabs \ stale :
    pc[t] = "write" => up[t] \notin Descendants(parent, id[t])

WalkInv == WalkStaysBelow /\ WalkLeavesBelow /\ PassedIsNotBelow

IInv ==
    /\ DrawnOnce
    /\ StaleIsBusy
    /\ Intact
    /\ PresentIsKnown
    /\ ~raced => Acyclic(parent) /\ WalkInv

LEMMA InitInductive == Init => IInv
<1> SUFFICES ASSUME Init PROVE IInv
    OBVIOUS
<1>1. Acyclic(parent)
    BY ConstantsAssumption DEF Init, Acyclic
<1>2. StaleIsBusy /\ Intact /\ PresentIsKnown /\ WalkInv
    BY ConstantsAssumption DEF Init, StaleIsBusy, Intact, PresentIsKnown, WalkInv,
        WalkStaysBelow, WalkLeavesBelow, PassedIsNotBelow, Present
<1> QED BY <1>1, <1>2, DrawnOnceInit DEF IInv

\* A goal that has no row yet has nothing below it.
LEMMA NothingBelowAbsent ==
    ASSUME TypeOK, Intact, NEW g \in Goals, ~Present(g)
    PROVE  Descendants(parent, g) = {g}
<1>1. g \in DOMAIN parent /\ Children(parent, g) = {}
    BY DEF TypeOK, Intact, Children
<1> QED BY <1>1, NothingBelowALeaf

\* After a write every other request under way is marked, so what their walks have seen
\* is of no matter.
LEMMA WrittenWalks ==
    ASSUME TypeOK, NEW t \in Tabs, Written(t)
    PROVE  StaleIsBusy' /\ WalkInv'
BY DEF TypeOK, Written, StaleIsBusy, WalkInv, WalkStaysBelow, WalkLeavesBelow, PassedIsNotBelow

\* A step that leaves the rows alone can only disturb what the request itself has seen.
LEMMA OthersStandStill ==
    ASSUME TypeOK, WalkInv, NEW t \in Tabs, NEW place, Goto(t, place),
           \A s \in Tabs \ {t} : /\ id'[s] = id[s] /\ up'[s] = up[s]
                                 /\ current'[s] = current[s] /\ visited'[s] = visited[s],
           t \notin stale' /\ pc'[t] = "walk" =>
               /\ up'[t] \in Descendants(parent, id'[t]) =>
                      id'[t] \in visited'[t] /\ current'[t] \in Descendants(parent, id'[t])
               /\ up'[t] \in Descendants(parent, current'[t])
               /\ \A v \in visited'[t] \ {id'[t]} :
                      v \in Descendants(parent, current'[t]) /\ v # current'[t],
           t \notin stale' /\ pc'[t] = "write" => up'[t] \notin Descendants(parent, id'[t])
    PROVE  WalkInv'
<1>1. parent' = parent /\ \A s \in Tabs \ {t} : pc'[s] = pc[s] /\ (s \in stale <=> s \in stale')
    BY DEF TypeOK, Goto
<1>2. WalkStaysBelow'
    BY <1>1 DEF WalkInv, WalkStaysBelow
<1>3. WalkLeavesBelow'
    BY <1>1 DEF WalkInv, WalkLeavesBelow
<1>4. PassedIsNotBelow'
    BY <1>1 DEF WalkInv, PassedIsNotBelow
<1> QED BY <1>2, <1>3, <1>4 DEF WalkInv

LEMMA SaveInductive ==
    ASSUME IInv, ~raced, NEW t \in Tabs, Save(t)
    PROVE  WalkInv'
<1> USE DEF IInv, DrawnOnce, TypeOK
<1> PICK g \in Goals, p \in known \cup {Root}, n \in BOOLEAN : Saves(t, g, p, n)
    BY SaveChooses
<1> DEFINE place == IF p = Root THEN "write" ELSE "walk"
<1>1. /\ id'[t] = g /\ up'[t] = p
      /\ current'[t] = IF p = Root THEN g ELSE p
      /\ visited'[t] = Seed(g, p, n)
      /\ pc'[t] = place /\ Goto(t, place)
    BY DEF Saves, Goto
<1>2. \A s \in Tabs \ {t} : /\ id'[s] = id[s] /\ up'[s] = up[s]
                            /\ current'[s] = current[s] /\ visited'[s] = visited[s]
    BY DEF Saves
<1>3. Root \notin Descendants(parent, g)
    BY ConstantsAssumption DEF Descendants
<1>4. n => p \notin Descendants(parent, g)
    <2> SUFFICES ASSUME n PROVE p \notin Descendants(parent, g)
        OBVIOUS
    <2>1. g \notin known
        BY DEF Saves, Fresh
    <2>2. Descendants(parent, g) = {g}
        BY <2>1, NothingBelowAbsent DEF PresentIsKnown
    <2> QED BY <2>1, <2>2, ConstantsAssumption
<1>5. p # Root => p \in Descendants(parent, p)
    BY BelowItself
<1>6. pc'[t] = "walk" =>
          /\ p \in Descendants(parent, g) => g \in visited'[t] /\ current'[t] \in Descendants(parent, g)
          /\ p \in Descendants(parent, current'[t])
          /\ \A v \in visited'[t] \ {g} : v \in Descendants(parent, current'[t]) /\ v # current'[t]
    BY <1>1, <1>4, <1>5 DEF Seed
<1>7. pc'[t] = "write" => p \notin Descendants(parent, g)
    BY <1>1, <1>3
<1>8. WalkInv
    OBVIOUS
<1> QED BY <1>1, <1>2, <1>6, <1>7, <1>8, OthersStandStill

\* A walk that ends at a goal without a parent has not started below the goal.
LEMMA WalkPasses ==
    ASSUME IInv, ~raced, NEW t \in Tabs \ stale, pc[t] = "walk",
           current[t] \notin visited[t], parent[current[t]] = Root
    PROVE  up[t] \notin Descendants(parent, id[t])
<1> SUFFICES ASSUME up[t] \in Descendants(parent, id[t]) PROVE FALSE
    OBVIOUS
<1> USE DEF IInv, DrawnOnce, TypeOK
<1>1. id[t] \in visited[t] /\ current[t] \in Descendants(parent, id[t])
    BY DEF WalkInv, WalkStaysBelow
<1>2. id[t] \in DOMAIN parent
    OBVIOUS
<1>3. Root \in Descendants(parent, id[t])
    BY <1>1, <1>2, BelowIsReachedFromAbove
<1> QED BY <1>3, ConstantsAssumption DEF Descendants

\* One turn of a walk nobody has overtaken: it stays below the goal, if it began there,
\* and leaves everything it has passed below.
LEMMA TurnInductive ==
    ASSUME IInv, ~raced, NEW t \in Tabs \ stale, pc[t] = "walk",
           current[t] \notin visited[t], parent[current[t]] \in Goals
    PROVE  LET c == current[t]
               above == parent[current[t]]
           IN  /\ up[t] \in Descendants(parent, id[t]) =>
                      id[t] \in visited[t] \cup {c} /\ above \in Descendants(parent, id[t])
               /\ up[t] \in Descendants(parent, above)
               /\ \A v \in (visited[t] \cup {c}) \ {id[t]} :
                      v \in Descendants(parent, above) /\ v # above
<1> USE DEF IInv, DrawnOnce, TypeOK
<1> DEFINE c == current[t]
           above == parent[current[t]]
<1>1. c \in DOMAIN parent /\ above \in DOMAIN parent
    OBVIOUS
<1>2. c \in Descendants(parent, above)
    BY <1>1, BelowItself, BelowIsClosedDown DEF ClosedDown
<1>3. Descendants(parent, c) \subseteq Descendants(parent, above)
    BY <1>2, BelowIsTransitive
<1>4. above \notin Descendants(parent, c) /\ c \in Descendants(parent, c)
    BY <1>1, ParentIsNotBelow, BelowItself
<1>5. ASSUME up[t] \in Descendants(parent, id[t])
      PROVE  id[t] \in visited[t] /\ above \in Descendants(parent, id[t])
    <2>1. id[t] \in visited[t] /\ c \in Descendants(parent, id[t])
        BY <1>5 DEF WalkInv, WalkStaysBelow
    <2>2. c # id[t] /\ id[t] \in DOMAIN parent
        BY <2>1
    <2>3. above \in Descendants(parent, id[t])
        BY <2>1, <2>2, BelowIsReachedFromAbove
    <2> QED BY <2>1, <2>3
<1>6. /\ up[t] \in Descendants(parent, c)
      /\ \A v \in visited[t] \ {id[t]} : v \in Descendants(parent, c)
    BY DEF WalkInv, WalkLeavesBelow
<1> QED BY <1>3, <1>4, <1>5, <1>6

LEMMA WalkInductive ==
    ASSUME IInv, ~raced, NEW t \in Tabs, Walk(t)
    PROVE  WalkInv'
<1> USE DEF IInv, DrawnOnce, TypeOK
<1>1. /\ id' = id /\ up' = up /\ pc[t] = "walk"
      /\ \A s \in Tabs \ {t} : current'[s] = current[s] /\ visited'[s] = visited[s]
    BY DEF Walk, GoUp, Returns, request
<1>2. CASE Goto(t, "idle")
    <2>1. pc'[t] = "idle"
        BY <1>2 DEF Goto
    <2> QED BY <1>1, <1>2, <2>1, OthersStandStill
<1>3. CASE current[t] \notin visited[t] /\ parent[current[t]] = Root /\ Goto(t, "write")
    <2>1. pc'[t] = "write" /\ stale' = stale
        BY <1>3 DEF Goto
    <2>2. t \notin stale => up[t] \notin Descendants(parent, id[t])
        BY <1>1, <1>3, WalkPasses
    <2> QED BY <1>1, <1>3, <2>1, <2>2, OthersStandStill
<1>4. CASE current[t] \notin visited[t] /\ GoUp(t)
    <2>1. /\ parent[current[t]] \in Goals /\ current'[t] = parent[current[t]]
          /\ visited'[t] = visited[t] \cup {current[t]}
          /\ Goto(t, "walk") /\ pc'[t] = "walk" /\ stale' = stale
        BY <1>4 DEF GoUp, Goto
    <2>2. t \notin stale =>
              /\ up[t] \in Descendants(parent, id[t]) =>
                     id[t] \in visited'[t] /\ current'[t] \in Descendants(parent, id[t])
              /\ up[t] \in Descendants(parent, current'[t])
              /\ \A v \in visited'[t] \ {id[t]} :
                     v \in Descendants(parent, current'[t]) /\ v # current'[t]
        BY <1>1, <1>4, <2>1, TurnInductive
    <2> QED BY <1>1, <2>1, <2>2, OthersStandStill
<1> QED BY <1>2, <1>3, <1>4 DEF Walk

LEMMA WriteInductive ==
    ASSUME IInv, NEW t \in Tabs, Write(t), Written(t), Writable(t),
           parent' = [parent EXCEPT ![id[t]] = up[t]], known' = known \cup {id[t]}
    PROVE  Intact' /\ PresentIsKnown' /\ (~raced' => Acyclic(parent'))
<1> USE DEF IInv, DrawnOnce, TypeOK
<1>1. Intact' /\ PresentIsKnown'
    BY ConstantsAssumption DEF Intact, PresentIsKnown, Present, Writable, Referable
<1>2. ASSUME ~raced' PROVE Acyclic(parent')
    <2>1. ~raced /\ t \notin stale
        BY <1>2 DEF Written
    <2>2. up[t] \notin Descendants(parent, id[t]) /\ id[t] \in DOMAIN parent /\ Acyclic(parent)
        BY <2>1 DEF Write, WalkInv, PassedIsNotBelow
    <2> QED BY <2>2, MoveKeepsAcyclic
<1> QED BY <1>1, <1>2

LEMMA DeleteInductive ==
    ASSUME IInv, NEW t \in Tabs, Delete(t)
    PROVE  Intact' /\ PresentIsKnown' /\ (~raced' => Acyclic(parent'))
<1> USE DEF IInv, DrawnOnce, TypeOK
<1> PICK g \in known :
        parent' = [x \in Goals |-> IF x \in Descendants(parent, g) THEN Absent ELSE parent[x]]
    BY DEF Delete
<1>1. ASSUME ~raced' PROVE Acyclic(parent')
    <2>1. DOMAIN parent' = DOMAIN parent /\ Acyclic(parent)
        BY <1>1 DEF Delete, Written
    <2>2. \A x \in DOMAIN parent : parent'[x] \in DOMAIN parent => parent'[x] = parent[x]
        BY ConstantsAssumption
    <2> QED BY <2>1, <2>2, CutKeepsAcyclic
<1>2. Intact'
    <2> SUFFICES ASSUME NEW x \in Goals, parent'[x] \in Goals
                 PROVE  parent'[parent'[x]] # Absent
        BY DEF Intact, Present
    <2>1. x \notin Descendants(parent, g) /\ parent'[x] = parent[x]
        BY ConstantsAssumption
    <2>2. parent[x] \notin Descendants(parent, g)
        BY <2>1, BelowIsClosedDown DEF ClosedDown
    <2>3. parent[parent[x]] # Absent
        BY <2>1 DEF Intact, Present
    <2> QED BY <2>1, <2>2, <2>3
<1>3. PresentIsKnown'
    <2>1. known' = known
        BY DEF Delete
    <2> QED BY <2>1 DEF PresentIsKnown, Present
<1> QED BY <1>1, <1>2, <1>3

LEMMA NextInductive == IInv /\ [Next]_vars => IInv'
<1> SUFFICES ASSUME IInv, [Next]_vars PROVE IInv'
    OBVIOUS
<1>0. DrawnOnce' /\ TypeOK
    BY DrawnOnceNext DEF IInv, DrawnOnce
<1>1. CASE UNCHANGED vars
    BY <1>0, <1>1 DEF vars, request, walk, IInv, StaleIsBusy, Intact, PresentIsKnown, Present,
        WalkInv, WalkStaysBelow, WalkLeavesBelow, PassedIsNotBelow
<1>2. ASSUME NEW t \in Tabs, NEW place, Goto(t, place)
      PROVE  /\ Intact' /\ PresentIsKnown' /\ raced' = raced
             /\ ~raced => Acyclic(parent') /\ WalkInv
             /\ pc[t] # "idle" \/ place # "idle" => StaleIsBusy'
    BY <1>0, <1>2 DEF IInv, TypeOK, Goto, Intact, PresentIsKnown, Present, StaleIsBusy
<1>3. ASSUME NEW t \in Tabs, Save(t) PROVE IInv'
    <2>1. PICK place : Goto(t, place) /\ place # "idle"
        BY <1>3 DEF Save
    <2> QED BY <1>0, <1>2, <1>3, <2>1, SaveInductive DEF IInv
<1>4. ASSUME NEW t \in Tabs, Walk(t) PROVE IInv'
    <2>1. PICK place : Goto(t, place) /\ pc[t] # "idle"
        BY <1>4 DEF Walk, GoUp
    <2> QED BY <1>0, <1>2, <1>4, <2>1, WalkInductive DEF IInv
<1>5. ASSUME NEW t \in Tabs, Goto(t, "idle"), pc[t] # "idle", UNCHANGED request,
             UNCHANGED walk \/ Returns(t)
      PROVE  IInv'
    <2>1. \A s \in Tabs \ {t} : /\ id'[s] = id[s] /\ up'[s] = up[s]
                                /\ current'[s] = current[s] /\ visited'[s] = visited[s]
        BY <1>0, <1>5 DEF TypeOK, request, walk, Returns
    <2>2. pc'[t] = "idle"
        BY <1>0, <1>5 DEF TypeOK, Goto
    <2>3. ~raced => WalkInv'
        BY <1>0, <1>2, <1>5, <2>1, <2>2, OthersStandStill
    <2> QED BY <1>0, <1>2, <1>5, <2>3 DEF IInv
<1>6. ASSUME NEW t \in Tabs, Write(t) PROVE IInv'
    <2>1. CASE Goto(t, "idle")
        BY <1>5, <1>6, <2>1 DEF Write
    <2>2. CASE ~Goto(t, "idle")
        <3>1. /\ Written(t) /\ Writable(t) /\ known' = known \cup {id[t]}
              /\ parent' = [parent EXCEPT ![id[t]] = up[t]]
            BY <1>6, <2>2 DEF Write
        <3> QED BY <1>0, <1>6, <3>1, WriteInductive, WrittenWalks DEF IInv
    <2> QED BY <2>1, <2>2
<1>7. ASSUME NEW t \in Tabs, Delete(t) PROVE IInv'
    <2>1. StaleIsBusy' /\ WalkInv'
        BY <1>0, <1>7, WrittenWalks DEF Delete
    <2> QED BY <1>0, <1>7, <2>1, DeleteInductive DEF IInv
<1>8. ASSUME NEW t \in Tabs, Breaks(t) PROVE IInv'
    BY <1>5, <1>8 DEF Breaks
<1> QED BY <1>1, <1>3, <1>4, <1>6, <1>7, <1>8 DEF Next

\* A cycle can only come from a save that another request has overtaken: as long as none
\* has been, the goals stay a forest however they are built, moved about and taken down.
THEOREM OnlyRacesMakeCycles == Spec => []GoalsAreAcyclic
<1>1. IInv => GoalsAreAcyclic
    BY DEF IInv, GoalsAreAcyclic
<1> QED BY <1>1, InitInductive, NextInductive, PTL DEF Spec

\* And a walk nobody has overtaken refuses a parent as a cycle exactly when it is below
\* the goal.
THEOREM UndisturbedWalkIsExact == Spec => WalkIsExact
<1> DEFINE Exact == \A t \in Tabs \ stale : pc[t] = "walk" /\ ~new[t] /\ ~raced =>
                /\ pc'[t] = "write" => up[t] \notin Descendants(parent, id[t])
                /\ current[t] \in visited[t] => up[t] \in Descendants(parent, id[t])
<1>1. IInv /\ [Next]_vars => [Exact]_vars
    <2> SUFFICES ASSUME IInv, Next, NEW t \in Tabs \ stale, pc[t] = "walk", ~raced
                 PROVE  /\ pc'[t] = "write" => up[t] \notin Descendants(parent, id[t])
                        /\ current[t] \in visited[t] => up[t] \in Descendants(parent, id[t])
        BY DEF Exact
    <2> USE DEF IInv, DrawnOnce, TypeOK
    <2>1. current[t] \in visited[t] => up[t] \in Descendants(parent, id[t])
        BY DEF WalkInv, WalkLeavesBelow
    <2>2. ASSUME pc'[t] = "write" PROVE up[t] \notin Descendants(parent, id[t])
        <3>1. Walk(t)
            <4> PICK s \in Tabs : Save(s) \/ Walk(s) \/ Write(s) \/ Delete(s) \/ Breaks(s)
                BY DEF Next
            <4>1. s = t
                BY <2>2 DEF Save, Walk, GoUp, Write, Delete, Breaks, Goto, Written
            <4> QED BY <2>2, <4>1 DEF Save, Write, Delete, Breaks, Goto
        <3>2. current[t] \notin visited[t] /\ parent[current[t]] = Root
            BY <2>2, <3>1 DEF Walk, GoUp, Goto
        <3> QED BY <3>2, WalkPasses
    <2> QED BY <2>1, <2>2
<1> QED BY <1>1, InitInductive, NextInductive, PTL DEF Spec, WalkIsExact
=============================================================================
