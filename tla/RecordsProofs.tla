---------------------------- MODULE RecordsProofs ----------------------------
(***************************************************************************)
(* Three records that several requests write at once.                      *)
(*                                                                         *)
(*   TeamTree, for any members and any number of tabs: the types; only a   *)
(*     request that has gone on with what it read before another one       *)
(*     changed the team can bring a cycle; a deletion that nobody has      *)
(*     overtaken keeps the rest of the hierarchy.                          *)
(*   LearningMinutes, for any number of requests: the minutes of a day     *)
(*     have a worklog, whose total is not less than those of its items.    *)
(*   TeamSnapshots, for any users, requests, jobs and zones: a snapshot is *)
(*     one team, never put back, and a job that ends well has captured all *)
(*     accounts, under a month that follows from their clocks.             *)
(***************************************************************************)
EXTENDS TeamTree, LearningMinutes, TeamSnapshots, OperatorProofs

\* Rows, requests and what they have read keep their types, whatever the tabs do.
LEMMA TypeInit == Init => TypeOK
BY DEF Init, TypeOK

LEMMA PlacesKeepTypes ==
    ASSUME TypeOK, NEW t \in Tabs
    PROVE  /\ Written(t) => /\ pc' = [pc EXCEPT ![t] = "idle"]
                            /\ stale' \subseteq Tabs /\ raced' \in BOOLEAN
           /\ \A place : Goto(t, place) =>
                            /\ pc' = [pc EXCEPT ![t] = place] /\ UNCHANGED <<parent, known>>
                            /\ stale' \subseteq Tabs /\ raced' \in BOOLEAN
<1>1. (raced \/ t \in stale) \in BOOLEAN
    OBVIOUS
<1> QED BY <1>1, Zenon DEF TypeOK, Written, Goto

LEMMA TypeNext == TypeOK /\ [Next]_vars => TypeOK'
<1> SUFFICES ASSUME TypeOK, [Next]_vars PROVE TypeOK'
    OBVIOUS
<1> USE PlacesKeepTypes DEF TypeOK, request
<1>1. CASE UNCHANGED vars
    BY <1>1 DEF vars
<1>2. ASSUME NEW t \in Tabs, Save(t) PROVE TypeOK'
    BY <1>2 DEF Save
<1>3. ASSUME NEW t \in Tabs, CheckParent(t) PROVE TypeOK'
    BY <1>3 DEF CheckParent
<1>4. ASSUME NEW t \in Tabs, CheckCycle(t) PROVE TypeOK'
    BY <1>4 DEF CheckCycle
<1>5. ASSUME NEW t \in Tabs, Upsert(t) PROVE TypeOK'
    BY <1>5 DEF Upsert
<1>6. ASSUME NEW t \in Tabs, Delete(t) PROVE TypeOK'
    BY <1>6 DEF Delete
<1>7. ASSUME NEW t \in Tabs, ReadMember(t) PROVE TypeOK'
    BY <1>7 DEF ReadMember, Present
<1>8. ASSUME NEW t \in Tabs, LookForChildren(t) PROVE TypeOK'
    BY <1>8 DEF LookForChildren
<1>9. ASSUME NEW t \in Tabs, Drop(t) PROVE TypeOK'
    BY <1>9 DEF Drop, PromotedTo
<1>10. ASSUME NEW t \in Tabs, Breaks(t) PROVE TypeOK'
    BY <1>10 DEF Breaks
<1> QED BY <1>1, <1>2, <1>3, <1>4, <1>5, <1>6, <1>7, <1>8, <1>9, <1>10 DEF Next

\* Rows, requests and what they have read keep their types, whatever the tabs do.
THEOREM TypeCorrect == Spec => []TypeOK
BY TypeInit, TypeNext, PTL DEF Spec

-----------------------------------------------------------------------------
(* What a request has read is still so, as long as nobody else has changed *)
(* the team since it began.                                                *)

\* Only a request that is under way is marked.
StaleIsBusy == \A t \in stale : pc[t] # "idle"

\* The foreign key: a parent has a row.
Intact == \A m \in Members : parent[m] \in Members => Present(parent[m])

PresentIsKnown == \A m \in Members : Present(m) => m \in known

Saving == {"parent", "cycle", "upsert"}

NewIsUnknown == \A t \in Tabs \ stale : pc[t] \in Saving /\ new[t] => id[t] \notin known

PassedIsNotBelow == \A t \in Tabs \ stale :
    pc[t] = "upsert" /\ Present(id[t]) => up[t] \notin Descendants(parent, id[t])

ParentIsCurrent == \A t \in Tabs \ stale :
    pc[t] \in {"children", "drop"} => Present(id[t]) /\ up[t] = parent[id[t]]

ReadIsCurrent == NewIsUnknown /\ PassedIsNotBelow /\ ParentIsCurrent

IInv ==
    /\ TypeOK
    /\ StaleIsBusy
    /\ Intact
    /\ PresentIsKnown
    /\ ReadIsCurrent
    /\ ~raced => Acyclic(parent)

LEMMA InitInductive == Init => IInv
<1> SUFFICES ASSUME Init PROVE IInv
    OBVIOUS
<1>1. Acyclic(parent)
    BY ConstantsAssumption DEF Init, Acyclic
<1>2. StaleIsBusy /\ Intact /\ PresentIsKnown /\ ReadIsCurrent
    BY ConstantsAssumption
    DEF Init, StaleIsBusy, Intact, PresentIsKnown, ReadIsCurrent, NewIsUnknown,
        PassedIsNotBelow, ParentIsCurrent, Present, Saving
<1> QED BY <1>1, <1>2, TypeInit DEF IInv

\* After a write every other request under way is marked, so what the rest has read is
\* of no matter.
LEMMA WrittenRead ==
    ASSUME TypeOK, NEW t \in Tabs, Written(t)
    PROVE  StaleIsBusy' /\ ReadIsCurrent'
BY DEF TypeOK, Written, StaleIsBusy, ReadIsCurrent, NewIsUnknown, PassedIsNotBelow,
       ParentIsCurrent, Saving

LEMMA UpsertInductive ==
    ASSUME IInv, NEW t \in Tabs, Upsert(t), Written(t),
           up[t] # id[t], Referable(up[t]),
           parent' = [parent EXCEPT ![id[t]] = up[t]],
           known' = known \cup {id[t]}
    PROVE  Intact' /\ PresentIsKnown' /\ (~raced' => Acyclic(parent'))
<1> USE DEF IInv, TypeOK
<1>1. Intact' /\ PresentIsKnown'
    BY ConstantsAssumption DEF Intact, PresentIsKnown, Present, Referable
<1>2. ASSUME ~raced' PROVE Acyclic(parent')
    <2>1. ~raced /\ t \notin stale
        BY <1>2 DEF Written
    <2>2. up[t] \notin Descendants(parent, id[t])
        <3>1. CASE Present(id[t])
            BY <2>1, <3>1 DEF Upsert, ReadIsCurrent, PassedIsNotBelow
        <3>2. CASE ~Present(id[t])
            <4>1. Children(parent, id[t]) = {}
                BY <3>2 DEF Intact, Children
            <4>2. id[t] \in DOMAIN parent
                OBVIOUS
            <4>3. Descendants(parent, id[t]) = {id[t]}
                BY <4>1, <4>2, NothingBelowALeaf
            <4> QED BY <4>3
        <3> QED BY <3>1, <3>2
    <2>3. Acyclic(parent) /\ id[t] \in DOMAIN parent
        BY <2>1
    <2> QED BY <2>2, <2>3, MoveKeepsAcyclic
<1> QED BY <1>1, <1>2

\* The rows after a deletion, with the children of the member where the request put them.
Dropped(t, kids) ==
    [m \in Members |-> IF m = id[t] THEN Absent ELSE IF m \in kids THEN up[t] ELSE parent[m]]

LEMMA DropInductive ==
    ASSUME IInv, NEW t \in Tabs, Drop(t), Written(t), UNCHANGED known,
           NEW kids, kids = Children(parent, id[t]),
           up[t] \notin kids \cup {id[t]}, kids # {} => Referable(up[t]),
           parent' = Dropped(t, kids)
    PROVE  Intact' /\ PresentIsKnown' /\ (~raced' => Acyclic(parent'))
<1> USE DEF IInv, TypeOK, Dropped
<1>1. ASSUME ~raced' PROVE Acyclic(parent')
    <2>1. ~raced /\ t \notin stale
        BY <1>1 DEF Written
    <2>2. Present(id[t]) /\ up[t] = parent[id[t]]
        BY <2>1 DEF Drop, ReadIsCurrent, ParentIsCurrent
    <2>3. id[t] \in DOMAIN parent /\ DOMAIN parent' = DOMAIN parent
        OBVIOUS
    <2>4. parent'[id[t]] \notin DOMAIN parent
        BY ConstantsAssumption
    <2>5. \A x \in kids \ {id[t]} : parent'[x] = parent[id[t]]
        BY <2>2 DEF Children
    <2>6. \A x \in DOMAIN parent \ (kids \cup {id[t]}) : parent'[x] = parent[x]
        OBVIOUS
    <2> QED BY <2>1, <2>3, <2>4, <2>5, <2>6, PromotionKeepsAcyclic
<1>2. Intact'
    <2> SUFFICES ASSUME NEW m \in Members, parent'[m] \in Members
                 PROVE  parent'[parent'[m]] # Absent
        BY DEF Intact, Present
    <2>1. CASE m \in kids
        <3>1. parent'[m] = up[t] /\ parent[up[t]] # Absent
            BY <2>1, ConstantsAssumption DEF Present, Referable
        <3> QED BY <3>1, ConstantsAssumption
    <2>2. CASE m \notin kids
        <3>1. m # id[t] /\ parent'[m] = parent[m] /\ parent[m] # id[t]
            BY <2>2, ConstantsAssumption DEF Children
        <3>2. parent[parent[m]] # Absent
            BY <3>1 DEF Intact, Present
        <3>3. CASE parent[m] \in kids
            <4>1. up[t] # Absent
                BY ConstantsAssumption
            <4> QED BY <3>1, <3>3, <4>1
        <3>4. CASE parent[m] \notin kids
            BY <3>1, <3>2, <3>4
        <3> QED BY <3>3, <3>4
    <2> QED BY <2>1, <2>2
<1>3. PresentIsKnown'
    <2>1. \A m \in Members : parent'[m] # Absent => parent[m] # Absent
        BY ConstantsAssumption DEF Children
    <2> QED BY <2>1 DEF PresentIsKnown, Present
<1> QED BY <1>1, <1>2, <1>3

LEMMA NextInductive == IInv /\ [Next]_vars => IInv'
<1> SUFFICES ASSUME IInv, [Next]_vars PROVE IInv'
    OBVIOUS
<1>0. TypeOK'
    BY TypeNext DEF IInv
<1>1. CASE UNCHANGED vars
    BY <1>0, <1>1 DEF vars, request, IInv, TypeOK, StaleIsBusy, Intact, PresentIsKnown,
        ReadIsCurrent, NewIsUnknown, PassedIsNotBelow, ParentIsCurrent, Present
<1>2. ASSUME NEW t \in Tabs, NEW place, Goto(t, place)
      PROVE  /\ Intact' /\ PresentIsKnown' /\ (~raced' => Acyclic(parent'))
             /\ pc[t] # "idle" \/ place # "idle" => StaleIsBusy'
    BY <1>2 DEF IInv, TypeOK, Goto, Intact, PresentIsKnown, Present, StaleIsBusy
<1>3. ASSUME NEW t \in Tabs, Goto(t, "idle"), UNCHANGED request PROVE IInv'
    <2>1. ReadIsCurrent'
        BY <1>3 DEF IInv, TypeOK, Goto, request, ReadIsCurrent, NewIsUnknown, PassedIsNotBelow,
            ParentIsCurrent, Present, Saving
    <2>2. StaleIsBusy'
        BY <1>3 DEF IInv, TypeOK, Goto, StaleIsBusy
    <2> QED BY <1>0, <1>2, <1>3, <2>1, <2>2 DEF IInv
<1>4. ASSUME NEW t \in Tabs, Upsert(t) PROVE IInv'
    <2>1. CASE Goto(t, "idle")
        BY <1>3, <1>4, <2>1 DEF Upsert
    <2>2. CASE ~Goto(t, "idle")
        BY <1>0, <1>4, <2>2, UpsertInductive, WrittenRead DEF Upsert, IInv
    <2> QED BY <2>1, <2>2
<1>5. ASSUME NEW t \in Tabs, Drop(t) PROVE IInv'
    <2>1. CASE Goto(t, "idle")
        BY <1>3, <1>5, <2>1 DEF Drop
    <2>2. CASE ~Goto(t, "idle")
        <3> DEFINE kids == Children(parent, id[t])
        <3>1. /\ Written(t) /\ UNCHANGED known
              /\ up[t] \notin kids \cup {id[t]}
              /\ kids # {} => Referable(up[t])
              /\ parent' = Dropped(t, kids)
            BY <1>5, <2>2 DEF Drop, PromotedTo, Dropped
        <3> QED BY <1>0, <1>5, <3>1, DropInductive, WrittenRead DEF IInv
    <2> QED BY <2>1, <2>2
<1>6. ASSUME NEW t \in Tabs,
             \/ Save(t) \/ CheckParent(t) \/ CheckCycle(t)
             \/ Delete(t) \/ ReadMember(t) \/ LookForChildren(t)
      PROVE  IInv'
    <2>0. PICK place : Goto(t, place) /\ (pc[t] # "idle" \/ place # "idle")
        <3>1. CASE Save(t) \/ Delete(t)
            BY <3>1 DEF Save, Delete
        <3>2. CASE CheckParent(t) \/ CheckCycle(t) \/ ReadMember(t) \/ LookForChildren(t)
            BY <3>2 DEF CheckParent, CheckCycle, ReadMember, LookForChildren
        <3> QED BY <1>6, <3>1, <3>2
    <2>1. /\ Intact' /\ PresentIsKnown' /\ (~raced' => Acyclic(parent'))
          /\ StaleIsBusy'
        BY <1>2, <2>0
    <2> USE DEF IInv, TypeOK, Goto, request
    <2>2. CASE Save(t)
        <3>0. Root \notin DOMAIN parent
            BY ConstantsAssumption
        <3>1. NewIsUnknown'
            BY <2>2 DEF Save, Fresh, ReadIsCurrent, NewIsUnknown, Saving
        <3>2. ParentIsCurrent'
            BY <2>2 DEF Save, ReadIsCurrent, ParentIsCurrent, Present
        <3>3. PassedIsNotBelow'
            BY <2>2, <3>0 DEF Save, ReadIsCurrent, PassedIsNotBelow, Present, Descendants
        <3> QED BY <1>0, <2>1, <3>1, <3>2, <3>3 DEF ReadIsCurrent
    <2>3. CASE CheckParent(t)
        BY <1>0, <2>1, <2>3 DEF CheckParent, PresentIsKnown, ReadIsCurrent, NewIsUnknown,
            PassedIsNotBelow, ParentIsCurrent, Present, Saving
    <2>4. CASE CheckCycle(t)
        BY <1>0, <2>1, <2>4 DEF CheckCycle, Below, ReadIsCurrent, NewIsUnknown, PassedIsNotBelow,
            ParentIsCurrent, Present, Saving
    <2>5. CASE Delete(t)
        BY <1>0, <2>1, <2>5 DEF Delete, ReadIsCurrent, NewIsUnknown, PassedIsNotBelow,
            ParentIsCurrent, Present, Saving
    <2>6. CASE ReadMember(t)
        BY <1>0, <2>1, <2>6 DEF ReadMember, ReadIsCurrent, NewIsUnknown, PassedIsNotBelow,
            ParentIsCurrent, Present, Saving
    <2>7. CASE LookForChildren(t)
        BY <1>0, <2>1, <2>7 DEF LookForChildren, ReadIsCurrent, NewIsUnknown, PassedIsNotBelow,
            ParentIsCurrent, Present, Saving
    <2> QED BY <1>6, <2>2, <2>3, <2>4, <2>5, <2>6, <2>7
<1>7. ASSUME NEW t \in Tabs, Breaks(t) PROVE IInv'
    BY <1>3, <1>7 DEF Breaks
<1> QED BY <1>1, <1>4, <1>5, <1>6, <1>7 DEF Next

\* A cycle can only come from a request that another one has overtaken: as long as none
\* has, the team stays a forest however it is built, moved about and taken down.
THEOREM OnlyRacesMakeCycles == Spec => []TeamIsAcyclic
<1>1. IInv => TeamIsAcyclic
    BY DEF IInv, TeamIsAcyclic
<1> QED BY <1>1, InitInductive, NextInductive, PTL DEF Spec

\* The step that takes a member out is the last one of his deletion.
LEMMA MemberDropped ==
    ASSUME TypeOK, [Next]_vars, NEW t \in Tabs, pc[t] = "drop", pc'[t] = "idle",
           Present(id[t]), parent'[id[t]] = Absent
    PROVE  /\ up[t] \notin Children(parent, id[t]) \cup {id[t]}
           /\ parent' = Dropped(t, Children(parent, id[t]))
<1>1. PICK s \in Tabs :
        \/ Save(s) \/ CheckParent(s) \/ CheckCycle(s) \/ Upsert(s)
        \/ Delete(s) \/ ReadMember(s) \/ LookForChildren(s) \/ Drop(s)
        \/ Breaks(s)
    BY DEF Next, vars
<1>2. Written(s) \/ \E place : Goto(s, place)
    BY <1>1 DEF Save, CheckParent, CheckCycle, Upsert, Delete, ReadMember, LookForChildren, Drop,
               Breaks
<1>3. s = t
    BY <1>2 DEF TypeOK, Written, Goto
<1>4. parent' # parent
    BY DEF Present
<1>5. Drop(t) /\ ~Goto(t, "idle")
    BY <1>1, <1>3, <1>4
    DEF Save, CheckParent, CheckCycle, Upsert, Delete, ReadMember, LookForChildren, Drop, Breaks,
        Goto
<1> QED BY <1>5 DEF Drop, PromotedTo, Dropped

\* Deleting a member takes nobody else out; and everyone else keeps exactly the
\* others above him, unless the deletion was overtaken by another change.
THEOREM DeletionsKeepTheRest == Spec => DeletionKeepsTheRest
<1>1. IInv /\ [Next]_vars =>
        [\A t \in Tabs :
            pc[t] = "drop" /\ pc'[t] = "idle" /\ Present(id[t]) /\ parent'[id[t]] = Absent =>
                \A x \in Members \ {id[t]} :
                    /\ Present(x) <=> parent'[x] # Absent
                    /\ t \notin stale => Ancestors(parent', x) = Ancestors(parent, x) \ {id[t]}]_vars
    <2> SUFFICES ASSUME IInv, [Next]_vars, NEW t \in Tabs, pc[t] = "drop", pc'[t] = "idle",
                        Present(id[t]), parent'[id[t]] = Absent, NEW x \in Members \ {id[t]}
                 PROVE  /\ Present(x) <=> parent'[x] # Absent
                        /\ t \notin stale =>
                             Ancestors(parent', x) = Ancestors(parent, x) \ {id[t]}
        OBVIOUS
    <2>1. /\ up[t] \notin Children(parent, id[t]) \cup {id[t]}
          /\ parent' = Dropped(t, Children(parent, id[t]))
        BY MemberDropped DEF IInv
    <2>2. /\ id[t] \in Members /\ up[t] \in Members \cup {Root}
          /\ parent \in [Members -> Members \cup {Root, Absent}]
        BY DEF IInv, TypeOK
    <2>3. Present(x) <=> parent'[x] # Absent
        BY <2>1, <2>2, ConstantsAssumption DEF Dropped, Children, Present
    <2>4. ASSUME t \notin stale
          PROVE  Ancestors(parent', x) = Ancestors(parent, x) \ {id[t]}
        <3>1. up[t] = parent[id[t]]
            BY <2>4 DEF IInv, ReadIsCurrent, ParentIsCurrent
        <3>2. /\ DOMAIN parent' = DOMAIN parent /\ DOMAIN parent = Members
              /\ parent'[id[t]] \notin Members
              /\ \A y \in Children(parent, id[t]) : parent'[y] = parent[id[t]]
              /\ \A y \in Members \ (Children(parent, id[t]) \cup {id[t]}) : parent'[y] = parent[y]
            BY <2>1, <2>2, <3>1, ConstantsAssumption DEF Dropped, Children
        <3> QED BY <2>1, <2>2, <3>1, <3>2, PromotionKeepsAbove
    <2> QED BY <2>3, <2>4
<1> QED BY <1>1, InitInductive, NextInductive, PTL DEF Spec, DeletionKeepsTheRest

-----------------------------------------------------------------------------
(* LearningMinutes: the day of a worklog                                   *)

WritesTypeOK ==
    /\ DOMAIN writes = Clients
    /\ \A c \in Clients :
        /\ Day \in DOMAIN writes[c] => writes[c][Day] \in {NoRow} \cup Totals
        /\ \A type \in Types \cap DOMAIN writes[c] : writes[c][type] \in {NoRow} \cup Minutes

\* A row is written by one transaction at a time, and deleted only if it is there.
LocksHold ==
    \A c \in Clients : \A key \in DOMAIN writes[c] :
        /\ \A d \in Clients \ {c} : key \notin DOMAIN writes[d]
        /\ writes[c][key] = NoRow => rows[key] # NoRow

\* Where a request stands.
StageOK(c) ==
    /\ stage[c] \in {"idle", "day", "total"} => DOMAIN writes[c] = {}
    /\ stage[c] = "day" => asks[c].left = Types /\ ~asks[c].missed
    /\ stage[c] = "total" => asks[c].kind = "total"
    /\ stage[c] \in {"day", "next", "write"} => asks[c].kind \in {"save", "delete"}
    /\ stage[c] = "write" => asks[c].kind = "save" /\ asks[c].type \in asks[c].left
    /\ asks[c].kind = "save" => ~asks[c].missed
    /\ asks[c].left \cap DOMAIN writes[c] = {}

\* What a request leaves of the day.
Meant(c) == IF asks[c].kind = "save" THEN asks[c].totals ELSE NoRow
MeantFor(c, type) ==
    IF asks[c].kind = "save" /\ asks[c].totals[type] # 0 THEN asks[c].totals[type] ELSE NoRow

\* A request that holds the worklog has written what it means the day to be, or
\* has found the row gone that it would delete, which nobody has brought back.
HolderIsWhole(c) ==
    /\ Day \in DOMAIN writes[c]
    /\ writes[c][Day] = Meant(c)
    /\ \A type \in Types \ asks[c].left :
        /\ type \in DOMAIN writes[c] => writes[c][type] = MeantFor(c, type)
        /\ type \notin DOMAIN writes[c] =>
            /\ MeantFor(c, type) = NoRow
            /\ c \notin overtaken \/ ~loose => rows[type] = NoRow

\* A deletion that found no worklog only takes away totals without one.
MissedIsLoose(c) ==
    /\ Day \notin DOMAIN writes[c]
    /\ \A type \in DOMAIN writes[c] : writes[c][type] = NoRow /\ loose

RequestIsWhole(c) ==
    stage[c] \in {"next", "write"} => IF asks[c].missed THEN MissedIsLoose(c) ELSE HolderIsWhole(c)

\* Minutes that a request writes are not less than those of the items it has
\* compared them with.
RequestSuffices(c) ==
    \A type \in Types \ late[c] :
        /\ type \in DOMAIN writes[c] =>
            (writes[c][type] # NoRow => writes[c][type] >= items[type])
        /\ stage[c] \in {"write", "total"} /\ asks[c].type = type =>
            asks[c].totals[type] >= items[type]

RequestOK(c) == StageOK(c) /\ RequestIsWhole(c) /\ RequestSuffices(c)

\* The first half of DayIsWhole.
DayAgrees ==
    ~loose => \A type \in Types :
        rows[type] = IF rows[Day] = NoRow \/ rows[Day][type] = 0 THEN NoRow ELSE rows[Day][type]

LearningInv ==
    /\ LearningTypeOK /\ WritesTypeOK /\ LocksHold
    /\ \A c \in Clients : RequestOK(c)
    /\ DayIsWhole


LEMMA MinutesData ==
    /\ Day \notin Types /\ Keys = Types \cup {Day} /\ "READING" \in Types
    /\ NoRow \notin Minutes /\ NoRow \notin Totals /\ Minutes \subseteq Nat /\ 0 \in Minutes
    /\ Nothing.totals \in Totals /\ \A totals \in Totals : \A type \in Types : totals[type] \in Minutes
    /\ \A left \in SUBSET Types : left # {} =>
           (IF "READING" \in left THEN "READING" ELSE "AUDIO") \in left
<1>1. Nothing.totals = [type \in Types |-> 0]
    BY DEF Nothing, Ask
<1>2. NoRow \notin Minutes /\ NoRow \notin Totals /\ Minutes \subseteq Nat /\ 0 \in Minutes
    BY MinutesAssumption DEF Minutes
<1>3. Nothing.totals \in Totals /\ \A totals \in Totals : \A type \in Types : totals[type] \in Minutes
    BY <1>1, <1>2 DEF Totals
<1> QED BY <1>2, <1>3 DEF Day, Types, Keys

\* A statement adds one row to what its transaction has written.
LEMMA PutsOne ==
    ASSUME DOMAIN writes = Clients, NEW c \in Clients, NEW key, NEW value, Puts(c, key, value)
    PROVE  /\ DOMAIN writes' = Clients
           /\ \A d \in Clients \ {c} : writes'[d] = writes[d]
           /\ DOMAIN writes'[c] = DOMAIN writes[c] \cup {key} /\ writes'[c][key] = value
           /\ \A k \in DOMAIN writes[c] \ {key} : writes'[c][k] = writes[c][k]
<1>1. /\ writes'[c] = Over([k \in {key} |-> value], writes[c])
      /\ DOMAIN writes' = Clients /\ \A d \in Clients \ {c} : writes'[d] = writes[d]
    BY DEF Puts
<1> QED BY <1>1 DEF Over

\* The end of a transaction leaves its locks.
LEMMA LeavesLocks ==
    ASSUME DOMAIN writes = Clients, NEW c \in Clients, writes' = [writes EXCEPT ![c] = <<>>]
    PROVE  /\ DOMAIN writes' = Clients /\ DOMAIN writes'[c] = {}
           /\ \A d \in Clients \ {c} : writes'[d] = writes[d]
<1>1. DOMAIN <<>> = {}
    OBVIOUS
<1> QED BY <1>1

\* A commit replaces the rows that the transaction has written.
LEMMA CommittedRows ==
    ASSUME LearningTypeOK, NEW c \in Clients, rows' = Over(writes[c], rows)
    PROVE  /\ DOMAIN rows' = Keys
           /\ \A key \in Keys : rows'[key] = IF key \in DOMAIN writes[c] THEN writes[c][key]
                                                                        ELSE rows[key]
<1>1. DOMAIN rows = Keys /\ DOMAIN writes[c] \subseteq Keys
    BY DEF LearningTypeOK
<1> QED BY <1>1 DEF Over

\* A request ends where the next one begins.
LEMMA EndsIdle ==
    ASSUME LearningTypeOK, NEW c \in Clients, Ends(c)
    PROVE  /\ stage'[c] = "idle" /\ asks'[c] = Nothing /\ late'[c] = {}
           /\ \A d \in Clients \ {c} : stage'[d] = stage[d] /\ asks'[d] = asks[d] /\ late'[d] = late[d]
           /\ stage' \in [Clients -> {"idle", "day", "next", "write", "total"}]
           /\ asks' \in [Clients -> [kind : {"save", "delete", "total"}, totals : Totals,
                                     left : SUBSET Types, type : Types, missed : BOOLEAN]]
           /\ late' \in [Clients -> SUBSET Types]
<1>1. Nothing \in [kind : {"save", "delete", "total"}, totals : Totals,
                   left : SUBSET Types, type : Types, missed : BOOLEAN]
    BY MinutesData DEF Nothing, Ask
<1> HIDE DEF Nothing
<1> QED BY <1>1 DEF LearningTypeOK, Ends, Goes


\* A step of one request does not disturb another, unless it changes the rows.
LEMMA OthersStay ==
    ASSUME LearningInv, UNCHANGED <<rows, items>>, loose => loose',
           NEW d \in Clients, d \in overtaken' <=> d \in overtaken,
           stage'[d] = stage[d], asks'[d] = asks[d], writes'[d] = writes[d], late'[d] = late[d]
    PROVE  RequestOK(d)'
<1>1. RequestOK(d)
    BY DEF LearningInv
<1>2. StageOK(d)'
    BY <1>1 DEF RequestOK, StageOK
<1>3. RequestIsWhole(d)'
    BY <1>1 DEF RequestOK, RequestIsWhole, MissedIsLoose, HolderIsWhole, Meant, MeantFor
<1>4. RequestSuffices(d)'
    BY <1>1 DEF RequestOK, RequestSuffices
<1> QED BY <1>2, <1>3, <1>4 DEF RequestOK

\* An idle request has nothing to answer for.
LEMMA IdleIsOK ==
    ASSUME NEW c \in Clients, stage'[c] = "idle", asks'[c] = Nothing, DOMAIN writes'[c] = {}
    PROVE  RequestOK(c)'
<1>1. Nothing.kind = "save" /\ ~Nothing.missed
    BY DEF Nothing, Ask
<1> QED BY <1>1 DEF RequestOK, StageOK, RequestIsWhole, RequestSuffices

LEMMA StartsWhole == LearningInit => LearningInv
<1> SUFFICES ASSUME LearningInit PROVE LearningInv
    OBVIOUS
<1>1. Nothing \in [kind : {"save", "delete", "total"}, totals : Totals,
                   left : SUBSET Types, type : Types, missed : BOOLEAN]
      /\ Nothing.kind = "save" /\ ~Nothing.missed
    BY MinutesData DEF Nothing, Ask
<1>2. DOMAIN <<>> = {}
    OBVIOUS
<1>3. LearningTypeOK /\ WritesTypeOK /\ LocksHold
    <2> HIDE DEF Nothing
    <2> QED BY <1>1, <1>2, MinutesData DEF LearningInit, LearningTypeOK, WritesTypeOK, LocksHold
<1>4. \A c \in Clients : RequestOK(c)
    <2> HIDE DEF Nothing
    <2> QED BY <1>1, <1>2 DEF LearningInit, RequestOK, StageOK, RequestIsWhole, RequestSuffices
<1>5. DayIsWhole
    BY MinutesData DEF LearningInit, DayIsWhole
<1> QED BY <1>3, <1>4, <1>5 DEF LearningInv

LEMMA BeginKeeps ==
    ASSUME LearningInv, NEW c \in Clients, NEW asked, NEW place \in {"day", "total"},
           asked \in [kind : {"save", "delete", "total"}, totals : Totals,
                      left : SUBSET Types, type : Types, missed : BOOLEAN],
           asked.left = Types, ~asked.missed,
           place = "day" <=> asked.kind # "total",
           place = "total" => asked.totals[asked.type] >= items[asked.type],
           Begin(c, asked, place)
    PROVE  LearningInv'
<1>1. LearningTypeOK /\ WritesTypeOK /\ LocksHold /\ DayIsWhole /\ RequestOK(c)
    BY DEF LearningInv
<1>2. /\ stage[c] = "idle" /\ stage'[c] = place /\ asks'[c] = asked
      /\ \A d \in Clients \ {c} : stage'[d] = stage[d] /\ asks'[d] = asks[d]
      /\ UNCHANGED <<rows, items, writes, late, overtaken, loose, outgrown>>
    BY <1>1 DEF Begin, Goes, LearningTypeOK
<1>3. LearningTypeOK'
    BY <1>1 DEF Begin, Goes, LearningTypeOK
<1>4. WritesTypeOK' /\ LocksHold' /\ DayIsWhole'
    BY <1>1, <1>2 DEF WritesTypeOK, LocksHold, DayIsWhole
<1>5. DOMAIN writes[c] = {}
    BY <1>1, <1>2 DEF RequestOK, StageOK
<1>6. RequestOK(c)'
    <2>1. StageOK(c)'
        BY <1>2, <1>5 DEF StageOK
    <2>2. RequestIsWhole(c)'
        BY <1>2 DEF RequestIsWhole
    <2>3. RequestSuffices(c)'
        BY <1>2, <1>5 DEF RequestSuffices
    <2> QED BY <2>1, <2>2, <2>3 DEF RequestOK
<1>7. \A d \in Clients \ {c} : RequestOK(d)'
    BY <1>2, OthersStay
<1> QED BY <1>3, <1>4, <1>6, <1>7 DEF LearningInv

LEMMA GivingUpKeeps == ASSUME LearningInv, NEW c \in Clients, GivesUp(c) PROVE LearningInv'
<1>1. LearningTypeOK /\ WritesTypeOK /\ LocksHold /\ DayIsWhole
    BY DEF LearningInv
<1>2. /\ Ends(c) /\ writes' = [writes EXCEPT ![c] = <<>>] /\ overtaken' = overtaken \ {c}
      /\ UNCHANGED <<rows, items, loose, outgrown>>
    BY DEF GivesUp
<1>3. /\ DOMAIN writes' = Clients /\ DOMAIN writes'[c] = {}
      /\ \A d \in Clients \ {c} : writes'[d] = writes[d]
    BY <1>1, <1>2, LeavesLocks DEF WritesTypeOK
<1>4. LearningTypeOK'
    BY <1>1, <1>2, <1>3, EndsIdle DEF LearningTypeOK
<1>5. WritesTypeOK' /\ LocksHold'
    BY <1>1, <1>2, <1>3 DEF WritesTypeOK, LocksHold
<1>6. DayIsWhole'
    BY <1>1, <1>2 DEF DayIsWhole
<1>7. RequestOK(c)'
    BY <1>1, <1>2, <1>3, EndsIdle, IdleIsOK
<1>8. \A d \in Clients \ {c} : RequestOK(d)'
    BY <1>1, <1>2, <1>3, EndsIdle, OthersStay
<1> QED BY <1>4, <1>5, <1>6, <1>7, <1>8 DEF LearningInv

LEMMA UpsertWorklogKeeps ==
    ASSUME LearningInv, NEW c \in Clients, UpsertWorklog(c) PROVE LearningInv'
<1>1. LearningTypeOK /\ WritesTypeOK /\ LocksHold /\ DayIsWhole /\ RequestOK(c)
    BY DEF LearningInv
<1>2. /\ stage[c] = "day" /\ asks[c].kind = "save" /\ ~Locked(c, Day)
      /\ Puts(c, Day, asks[c].totals)
      /\ stage'[c] = "next" /\ \A d \in Clients \ {c} : stage'[d] = stage[d]
      /\ stage' \in [Clients -> {"idle", "day", "next", "write", "total"}]
      /\ UNCHANGED <<rows, items, asks, late, overtaken, loose, outgrown>>
    BY <1>1 DEF UpsertWorklog, Goes, LearningTypeOK
<1>3. /\ DOMAIN writes' = Clients
      /\ \A d \in Clients \ {c} : writes'[d] = writes[d]
      /\ DOMAIN writes'[c] = DOMAIN writes[c] \cup {Day} /\ writes'[c][Day] = asks[c].totals
    BY <1>1, <1>2, PutsOne DEF WritesTypeOK
<1>4. /\ DOMAIN writes[c] = {} /\ asks[c].left = Types /\ ~asks[c].missed
      /\ asks[c].totals \in Totals
    BY <1>1, <1>2 DEF RequestOK, StageOK, LearningTypeOK
<1>5. LearningTypeOK'
    BY <1>1, <1>2, <1>3, MinutesData DEF LearningTypeOK
<1>6. WritesTypeOK'
    BY <1>1, <1>2, <1>3, <1>4, MinutesData DEF WritesTypeOK
<1>7. LocksHold'
    BY <1>1, <1>2, <1>3, <1>4, MinutesData DEF LocksHold, Locked
<1>8. DayIsWhole'
    BY <1>1, <1>2 DEF DayIsWhole
<1>9. RequestOK(c)'
    <2>1. StageOK(c)'
        BY <1>2, <1>3, <1>4, MinutesData DEF StageOK
    <2>2. RequestIsWhole(c)'
        BY <1>2, <1>3, <1>4 DEF RequestIsWhole, HolderIsWhole, Meant
    <2>3. RequestSuffices(c)'
        BY <1>2, <1>3, <1>4, MinutesData DEF RequestSuffices
    <2> QED BY <2>1, <2>2, <2>3 DEF RequestOK
<1>10. \A d \in Clients \ {c} : RequestOK(d)'
    BY <1>2, <1>3, OthersStay
<1> QED BY <1>5, <1>6, <1>7, <1>8, <1>9, <1>10 DEF LearningInv


LEMMA CompareItemsKeeps ==
    ASSUME LearningInv, NEW c \in Clients, CompareItems(c) PROVE LearningInv'
<1>1. LearningTypeOK /\ WritesTypeOK /\ LocksHold /\ DayIsWhole /\ RequestOK(c)
    BY DEF LearningInv
<1>2. PICK type \in asks[c].left :
        IF asks[c].totals[type] < items[type] THEN GivesUp(c)
        ELSE /\ asks' = [asks EXCEPT ![c].type = type]
             /\ Goes(c, "write")
             /\ UNCHANGED <<rows, items, writes, late, overtaken, loose, outgrown>>
    BY DEF CompareItems
<1>3. CASE asks[c].totals[type] < items[type]
    BY <1>2, <1>3, GivingUpKeeps
<1>4. CASE ~(asks[c].totals[type] < items[type])
    <2>1. /\ stage[c] = "next" /\ asks[c].kind = "save" /\ type \in Types
          /\ asks[c].totals \in Totals /\ asks[c].totals[type] >= items[type]
        BY <1>1, <1>2, <1>4, MinutesData DEF CompareItems, LearningTypeOK
    <2>2. /\ asks' = [asks EXCEPT ![c].type = type] /\ Goes(c, "write")
          /\ UNCHANGED <<rows, items, writes, late, overtaken, loose, outgrown>>
        BY <1>2, <1>4
    <2>3. /\ stage'[c] = "write" /\ asks'[c] = [asks[c] EXCEPT !.type = type]
          /\ \A d \in Clients \ {c} : stage'[d] = stage[d] /\ asks'[d] = asks[d]
        BY <1>1, <2>2 DEF Goes, LearningTypeOK
    <2>4. LearningTypeOK'
        BY <1>1, <2>1, <2>2 DEF Goes, LearningTypeOK
    <2>5. WritesTypeOK' /\ LocksHold' /\ DayIsWhole'
        BY <1>1, <2>2 DEF WritesTypeOK, LocksHold, DayIsWhole
    <2>6. /\ asks'[c].kind = "save" /\ asks'[c].totals = asks[c].totals /\ asks'[c].type = type
          /\ asks'[c].left = asks[c].left /\ asks'[c].missed = asks[c].missed
        BY <1>1, <2>1, <2>3 DEF LearningTypeOK
    <2>7. RequestOK(c)'
        <3>1. StageOK(c)'
            BY <1>1, <1>2, <2>1, <2>2, <2>3, <2>6 DEF RequestOK, StageOK
        <3>2. RequestIsWhole(c)'
            BY <1>1, <2>1, <2>2, <2>3, <2>6
            DEF RequestOK, RequestIsWhole, HolderIsWhole, MissedIsLoose, Meant, MeantFor
        <3>3. RequestSuffices(c)'
            BY <1>1, <2>1, <2>2, <2>3, <2>6 DEF RequestOK, RequestSuffices
        <3> QED BY <3>1, <3>2, <3>3 DEF RequestOK
    <2>8. \A d \in Clients \ {c} : RequestOK(d)'
        BY <2>2, <2>3, OthersStay
    <2> QED BY <2>4, <2>5, <2>7, <2>8 DEF LearningInv
<1> QED BY <1>3, <1>4

\* What a statement that may find nothing to delete leaves.
LEMMA TakesOne ==
    ASSUME WritesTypeOK, NEW c \in Clients, NEW key, Takes(c, key)
    PROVE  /\ DOMAIN writes' = Clients
           /\ \A d \in Clients \ {c} : writes'[d] = writes[d]
           /\ rows[key] = NoRow => writes' = writes
           /\ rows[key] # NoRow =>
                /\ ~Locked(c, key)
                /\ DOMAIN writes'[c] = DOMAIN writes[c] \cup {key} /\ writes'[c][key] = NoRow
                /\ \A k \in DOMAIN writes[c] \ {key} : writes'[c][k] = writes[c][k]
<1>1. CASE rows[key] = NoRow
    BY <1>1 DEF Takes, WritesTypeOK
<1>2. CASE rows[key] # NoRow
    <2>1. ~Locked(c, key) /\ Puts(c, key, NoRow)
        BY <1>2 DEF Takes
    <2> QED BY <1>2, <2>1, PutsOne DEF WritesTypeOK
<1> QED BY <1>1, <1>2

LEMMA WriteMinutesKeeps ==
    ASSUME LearningInv, NEW c \in Clients, WriteMinutes(c) PROVE LearningInv'
<1> DEFINE type == asks[c].type
           minutes == asks[c].totals[type]
           value == IF minutes = 0 THEN NoRow ELSE minutes
<1>1. LearningTypeOK /\ WritesTypeOK /\ LocksHold /\ DayIsWhole /\ RequestOK(c)
    BY DEF LearningInv
<1>2. /\ stage[c] = "write"
      /\ IF minutes = 0 THEN Takes(c, type) ELSE ~Locked(c, type) /\ Puts(c, type, minutes)
      /\ asks' = [asks EXCEPT ![c].left = @ \ {type}, ![c].type = "READING"]
      /\ Goes(c, "next")
      /\ UNCHANGED <<rows, items, late, overtaken, loose, outgrown>>
    BY DEF WriteMinutes
<1>3. /\ type \in Types /\ type \in asks[c].left /\ asks[c].left \subseteq Types
      /\ asks[c].totals \in Totals /\ minutes \in Minutes
      /\ asks[c].kind = "save" /\ ~asks[c].missed /\ type \notin DOMAIN writes[c]
    BY <1>1, <1>2, MinutesData DEF LearningTypeOK, RequestOK, StageOK
<1>4. /\ stage'[c] = "next" /\ asks'[c] = [asks[c] EXCEPT !.left = @ \ {type}, !.type = "READING"]
      /\ \A d \in Clients \ {c} : stage'[d] = stage[d] /\ asks'[d] = asks[d]
      /\ stage' \in [Clients -> {"idle", "day", "next", "write", "total"}]
    BY <1>1, <1>2 DEF Goes, LearningTypeOK
<1>5. /\ asks'[c].kind = "save" /\ asks'[c].totals = asks[c].totals
      /\ asks'[c].left = asks[c].left \ {type} /\ ~asks'[c].missed
    BY <1>1, <1>3, <1>4 DEF LearningTypeOK
<1>6. asks' \in [Clients -> [kind : {"save", "delete", "total"}, totals : Totals,
                             left : SUBSET Types, type : Types, missed : BOOLEAN]]
    <2> DEFINE mid == [asks EXCEPT ![c].left = @ \ {type}]
    <2>1. /\ mid \in [Clients -> [kind : {"save", "delete", "total"}, totals : Totals,
                                  left : SUBSET Types, type : Types, missed : BOOLEAN]]
          /\ asks' = [mid EXCEPT ![c].type = "READING"]
        BY <1>1, <1>2, <1>3 DEF LearningTypeOK
    <2> HIDE DEF mid
    <2> QED BY <2>1, MinutesData
<1> HIDE DEF minutes
<1>7. \* Either there is no such row to delete, or one row is written.
      /\ DOMAIN writes' = Clients
      /\ \A d \in Clients \ {c} : writes'[d] = writes[d]
      /\ \/ value = NoRow /\ rows[type] = NoRow /\ writes' = writes
         \/ /\ ~Locked(c, type) /\ (value = NoRow => rows[type] # NoRow)
            /\ DOMAIN writes'[c] = DOMAIN writes[c] \cup {type} /\ writes'[c][type] = value
            /\ \A k \in DOMAIN writes[c] : writes'[c][k] = writes[c][k]
    <2>1. CASE minutes = 0
        BY <1>1, <1>2, <1>3, <2>1, TakesOne
    <2>2. CASE minutes # 0
        <3>1. ~Locked(c, type) /\ Puts(c, type, minutes) /\ value = minutes /\ value # NoRow
            BY <1>2, <1>3, <2>2, MinutesData
        <3> QED BY <1>1, <1>3, <3>1, PutsOne DEF WritesTypeOK
    <2> QED BY <2>1, <2>2
<1>8. value \in {NoRow} \cup Minutes
    BY <1>3
<1> HIDE DEF value, type
<1>9. LearningTypeOK'
    <2>1. \A d \in Clients : DOMAIN writes'[d] \subseteq Keys
        BY <1>1, <1>3, <1>7, MinutesData DEF LearningTypeOK
    <2> QED BY <2>1, <1>1, <1>2, <1>3, <1>4, <1>6, <1>7, MinutesData DEF LearningTypeOK
<1>10. WritesTypeOK'
    BY <1>1, <1>3, <1>7, <1>8, MinutesData DEF WritesTypeOK
<1>11. LocksHold'
    BY <1>1, <1>2, <1>3, <1>7 DEF LocksHold, Locked
<1>12. DayIsWhole'
    BY <1>1, <1>2 DEF DayIsWhole
<1>13. RequestOK(c)'
    <2>1. StageOK(c)'
        BY <1>1, <1>3, <1>4, <1>5, <1>7 DEF RequestOK, StageOK
    <2>2. HolderIsWhole(c)
        BY <1>1, <1>2, <1>3 DEF RequestOK, RequestIsWhole
    <2>3. value = MeantFor(c, type)
        BY <1>3 DEF value, minutes, MeantFor
    <2>4. RequestIsWhole(c)'
        <3>1. Day \in DOMAIN writes'[c] /\ writes'[c][Day] = Meant(c)'
            BY <1>3, <1>5, <1>7, <2>2, MinutesData DEF HolderIsWhole, Meant
        <3>2. \A k \in Types : MeantFor(c, k)' = MeantFor(c, k)
            BY <1>3, <1>5 DEF MeantFor
        <3>3. ASSUME NEW k \in Types \ asks'[c].left
              PROVE  /\ k \in DOMAIN writes'[c] => writes'[c][k] = MeantFor(c, k)
                     /\ k \notin DOMAIN writes'[c] =>
                        /\ MeantFor(c, k) = NoRow
                        /\ c \notin overtaken \/ ~loose => rows[k] = NoRow
            <4>1. CASE k = type
                BY <1>3, <1>7, <2>3, <4>1
            <4>2. CASE k # type
                BY <1>3, <1>5, <1>7, <2>2, <4>2 DEF HolderIsWhole
            <4> QED BY <4>1, <4>2
        <3>4. HolderIsWhole(c)'
            BY <1>2, <3>1, <3>2, <3>3 DEF HolderIsWhole
        <3> QED BY <1>5, <3>4 DEF RequestIsWhole
    <2>5. RequestSuffices(c)'
        <3>1. type \notin late[c] /\ value # NoRow => value >= items[type]
            BY <1>1, <1>2, <1>3 DEF RequestOK, RequestSuffices, value, minutes, type
        <3> QED BY <1>1, <1>2, <1>3, <1>4, <1>7, <3>1 DEF RequestOK, RequestSuffices
    <2> QED BY <2>1, <2>4, <2>5 DEF RequestOK
<1>14. \A d \in Clients \ {c} : RequestOK(d)'
    BY <1>2, <1>4, <1>7, OthersStay
<1> QED BY <1>9, <1>10, <1>11, <1>12, <1>13, <1>14 DEF LearningInv

LEMMA DropWorklogKeeps ==
    ASSUME LearningInv, NEW c \in Clients, DropWorklog(c) PROVE LearningInv'
<1>1. LearningTypeOK /\ WritesTypeOK /\ LocksHold /\ DayIsWhole /\ RequestOK(c)
    BY DEF LearningInv
<1>2. /\ stage[c] = "day" /\ asks[c].kind = "delete" /\ Takes(c, Day)
      /\ asks' = [asks EXCEPT ![c].missed = (rows[Day] = NoRow)]
      /\ Goes(c, "next")
      /\ UNCHANGED <<rows, items, late, overtaken, loose, outgrown>>
    BY DEF DropWorklog
<1>3. DOMAIN writes[c] = {} /\ asks[c].left = Types /\ ~asks[c].missed
    BY <1>1, <1>2 DEF RequestOK, StageOK
<1>4. /\ DOMAIN writes' = Clients
      /\ \A d \in Clients \ {c} : writes'[d] = writes[d]
      /\ rows[Day] = NoRow => DOMAIN writes'[c] = {}
      /\ rows[Day] # NoRow =>
            ~Locked(c, Day) /\ DOMAIN writes'[c] = {Day} /\ writes'[c][Day] = NoRow
    BY <1>1, <1>2, <1>3, TakesOne
<1>5. (rows[Day] = NoRow) \in BOOLEAN
    OBVIOUS
<1>6. /\ stage'[c] = "next" /\ asks'[c] = [asks[c] EXCEPT !.missed = (rows[Day] = NoRow)]
      /\ \A d \in Clients \ {c} : stage'[d] = stage[d] /\ asks'[d] = asks[d]
      /\ stage' \in [Clients -> {"idle", "day", "next", "write", "total"}]
    BY <1>1, <1>2 DEF Goes, LearningTypeOK
<1>7. asks' \in [Clients -> [kind : {"save", "delete", "total"}, totals : Totals,
                             left : SUBSET Types, type : Types, missed : BOOLEAN]]
    <2> DEFINE gone == rows[Day] = NoRow
    <2> HIDE DEF gone
    <2>1. gone \in BOOLEAN /\ asks' = [asks EXCEPT ![c].missed = gone]
        BY <1>2, <1>5 DEF gone
    <2> QED BY <1>1, <2>1 DEF LearningTypeOK
<1>8. /\ asks'[c].kind = "delete" /\ asks'[c].left = Types
      /\ asks'[c].missed <=> rows[Day] = NoRow
    <2> DEFINE gone == rows[Day] = NoRow
    <2> HIDE DEF gone
    <2>1. gone \in BOOLEAN /\ asks'[c] = [asks[c] EXCEPT !.missed = gone]
        BY <1>5, <1>6 DEF gone
    <2>2. asks'[c].kind = "delete" /\ asks'[c].left = Types /\ asks'[c].missed = gone
        BY <1>1, <1>2, <1>3, <2>1 DEF LearningTypeOK
    <2> QED BY <2>2 DEF gone
<1>9. LearningTypeOK'
    <2>1. \A d \in Clients : DOMAIN writes'[d] \subseteq Keys
        BY <1>1, <1>3, <1>4, MinutesData DEF LearningTypeOK
    <2> QED BY <2>1, <1>1, <1>2, <1>4, <1>6, <1>7, MinutesData DEF LearningTypeOK
<1>10. WritesTypeOK'
    BY <1>1, <1>4, MinutesData DEF WritesTypeOK
<1>11. LocksHold'
    BY <1>1, <1>2, <1>4 DEF LocksHold, Locked
<1>12. DayIsWhole'
    BY <1>1, <1>2 DEF DayIsWhole
<1>13. RequestOK(c)'
    <2>1. StageOK(c)'
        BY <1>4, <1>6, <1>8, MinutesData DEF StageOK
    <2>2. RequestIsWhole(c)'
        BY <1>4, <1>8 DEF RequestIsWhole, MissedIsLoose, HolderIsWhole, Meant
    <2>3. RequestSuffices(c)'
        BY <1>4, <1>6, MinutesData DEF RequestSuffices
    <2> QED BY <2>1, <2>2, <2>3 DEF RequestOK
<1>14. \A d \in Clients \ {c} : RequestOK(d)'
    BY <1>2, <1>4, <1>6, OthersStay
<1> QED BY <1>9, <1>10, <1>11, <1>12, <1>13, <1>14 DEF LearningInv


LEMMA DropMinutesKeeps ==
    ASSUME LearningInv, NEW c \in Clients, DropMinutes(c) PROVE LearningInv'
<1> DEFINE type == IF "READING" \in asks[c].left THEN "READING" ELSE "AUDIO"
<1>1. LearningTypeOK /\ WritesTypeOK /\ LocksHold /\ DayIsWhole /\ RequestOK(c)
    BY DEF LearningInv
<1>2. /\ stage[c] = "next" /\ asks[c].kind = "delete" /\ asks[c].left # {}
      /\ Takes(c, type)
      /\ asks' = [asks EXCEPT ![c].left = @ \ {type}]
      /\ loose' = (loose \/ (asks[c].missed /\ rows[type] # NoRow))
      /\ UNCHANGED <<rows, items, stage, late, overtaken, outgrown>>
    BY DEF DropMinutes
<1>3. /\ asks[c].left \subseteq Types /\ type \in asks[c].left /\ type \in Types
      /\ type \notin DOMAIN writes[c]
    BY <1>1, <1>2, MinutesData DEF LearningTypeOK, RequestOK, StageOK
<1> HIDE DEF type
<1>4. /\ DOMAIN writes' = Clients
      /\ \A d \in Clients \ {c} : writes'[d] = writes[d]
      /\ rows[type] = NoRow => writes' = writes
      /\ rows[type] # NoRow =>
            /\ ~Locked(c, type)
            /\ DOMAIN writes'[c] = DOMAIN writes[c] \cup {type} /\ writes'[c][type] = NoRow
            /\ \A k \in DOMAIN writes[c] : writes'[c][k] = writes[c][k]
    BY <1>1, <1>2, <1>3, TakesOne
<1>5. /\ asks'[c].kind = "delete" /\ asks'[c].left = asks[c].left \ {type}
      /\ asks'[c].missed = asks[c].missed
      /\ \A d \in Clients \ {c} : asks'[d] = asks[d]
      /\ asks' \in [Clients -> [kind : {"save", "delete", "total"}, totals : Totals,
                                left : SUBSET Types, type : Types, missed : BOOLEAN]]
    BY <1>1, <1>2, <1>3 DEF LearningTypeOK
<1>6. LearningTypeOK'
    <2>1. \A d \in Clients : DOMAIN writes'[d] \subseteq Keys
        BY <1>1, <1>3, <1>4, MinutesData DEF LearningTypeOK
    <2>2. loose' \in BOOLEAN
        BY <1>2
    <2> QED BY <2>1, <2>2, <1>1, <1>2, <1>5 DEF LearningTypeOK
<1>7. WritesTypeOK'
    BY <1>1, <1>3, <1>4, MinutesData DEF WritesTypeOK
<1>8. LocksHold'
    BY <1>1, <1>2, <1>3, <1>4 DEF LocksHold, Locked
<1>9. DayIsWhole'
    BY <1>1, <1>2 DEF DayIsWhole
<1>10. RequestOK(c)'
    <2>1. StageOK(c)'
        BY <1>1, <1>2, <1>3, <1>4, <1>5 DEF RequestOK, StageOK
    <2>2. RequestIsWhole(c)'
        <3>1. CASE asks[c].missed
            <4>1. MissedIsLoose(c)
                BY <1>1, <1>2, <3>1 DEF RequestOK, RequestIsWhole
            <4>2. MissedIsLoose(c)'
                BY <1>2, <1>3, <1>4, <3>1, <4>1, MinutesData DEF MissedIsLoose
            <4> QED BY <1>5, <3>1, <4>2 DEF RequestIsWhole
        <3>2. CASE ~asks[c].missed
            <4>1. HolderIsWhole(c)
                BY <1>1, <1>2, <3>2 DEF RequestOK, RequestIsWhole
            <4>2. loose' = loose
                BY <1>1, <1>2, <3>2 DEF LearningTypeOK
            <4>3. HolderIsWhole(c)'
                BY <1>2, <1>3, <1>4, <1>5, <4>1, <4>2, MinutesData
                DEF HolderIsWhole, Meant, MeantFor
            <4> QED BY <1>5, <3>2, <4>3 DEF RequestIsWhole
        <3> QED BY <3>1, <3>2
    <2>3. RequestSuffices(c)'
        BY <1>1, <1>2, <1>3, <1>4 DEF RequestOK, RequestSuffices
    <2> QED BY <2>1, <2>2, <2>3 DEF RequestOK
<1>11. \A d \in Clients \ {c} : RequestOK(d)'
    BY <1>2, <1>4, <1>5, OthersStay
<1> QED BY <1>6, <1>7, <1>8, <1>9, <1>10, <1>11 DEF LearningInv

\* A commit leaves the day as its request means it, or as it was, and nothing
\* that another request has found is undone.
LEMMA CommitKeeps == ASSUME LearningInv, NEW c \in Clients, Commit(c) PROVE LearningInv'
<1>1. LearningTypeOK /\ WritesTypeOK /\ LocksHold /\ DayIsWhole /\ \A d \in Clients : RequestOK(d)
    BY DEF LearningInv
<1>2. /\ stage[c] = "next" /\ asks[c].left = {}
      /\ rows' = Over(writes[c], rows)
      /\ writes' = [writes EXCEPT ![c] = <<>>]
      /\ outgrown' = (outgrown \ DOMAIN writes[c]) \cup (late[c] \cap DOMAIN writes[c])
      /\ loose' = (loose /\ (c \in overtaken \/ asks[c].missed))
      /\ overtaken' = Busy(c) /\ Ends(c) /\ UNCHANGED items
    BY DEF Commit
<1>3. /\ DOMAIN writes' = Clients /\ DOMAIN writes'[c] = {}
      /\ \A d \in Clients \ {c} : writes'[d] = writes[d]
    BY <1>1, <1>2, LeavesLocks DEF WritesTypeOK
<1>4. /\ DOMAIN rows' = Keys
      /\ \A key \in Keys : rows'[key] = IF key \in DOMAIN writes[c] THEN writes[c][key]
                                                                   ELSE rows[key]
    BY <1>1, <1>2, CommittedRows
<1>5. /\ stage'[c] = "idle" /\ asks'[c] = Nothing /\ late'[c] = {}
      /\ \A d \in Clients \ {c} : stage'[d] = stage[d] /\ asks'[d] = asks[d] /\ late'[d] = late[d]
      /\ stage' \in [Clients -> {"idle", "day", "next", "write", "total"}]
      /\ asks' \in [Clients -> [kind : {"save", "delete", "total"}, totals : Totals,
                                left : SUBSET Types, type : Types, missed : BOOLEAN]]
      /\ late' \in [Clients -> SUBSET Types]
    BY <1>1, <1>2, EndsIdle
<1>6. LearningTypeOK'
    <2>1. \A d \in Clients : DOMAIN writes'[d] \subseteq Keys
        BY <1>1, <1>3, MinutesData DEF LearningTypeOK
    <2>2. loose' \in BOOLEAN /\ overtaken' \subseteq Clients /\ outgrown' \subseteq Types
        BY <1>1, <1>2 DEF LearningTypeOK, Busy
    <2>3. rows'[Day] \in {NoRow} \cup Totals
        BY <1>1, <1>4, MinutesData DEF LearningTypeOK, WritesTypeOK
    <2>4. \A type \in Types : rows'[type] \in {NoRow} \cup Minutes
        BY <1>1, <1>4, MinutesData DEF LearningTypeOK, WritesTypeOK
    <2>5. items' \in [Types -> Minutes]
        BY <1>1, <1>2 DEF LearningTypeOK
    <2> QED BY <2>1, <2>2, <2>3, <2>4, <2>5, <1>4, <1>5 DEF LearningTypeOK
<1>7. WritesTypeOK'
    BY <1>1, <1>3 DEF WritesTypeOK
<1>8. \A d \in Clients : DOMAIN writes[d] \subseteq Keys
    BY <1>1 DEF LearningTypeOK
<1>9. LocksHold'
    BY <1>1, <1>3, <1>4, <1>8 DEF LocksHold
<1>10. ASSUME asks[c].missed PROVE DayAgrees' /\ \A d \in Clients \ {c} : RequestIsWhole(d)'
    <2>1. MissedIsLoose(c) /\ loose' = loose
        BY <1>1, <1>2, <1>10 DEF RequestOK, RequestIsWhole, LearningTypeOK
    <2>2. ~loose => \A key \in Keys : rows'[key] = rows[key]
        BY <1>4, <1>8, <2>1, MinutesData DEF MissedIsLoose
    <2>3. DayAgrees'
        BY <1>1, <2>1, <2>2, MinutesData DEF DayIsWhole, DayAgrees
    <2>4. ASSUME NEW d \in Clients \ {c} PROVE RequestIsWhole(d)'
        <3>1. RequestIsWhole(d)
            BY <1>1 DEF RequestOK
        <3>2. stage[d] # "idle" => d \in overtaken'
            BY <1>2 DEF Busy
        <3>3. CASE stage[d] \in {"next", "write"} /\ asks[d].missed
            BY <1>3, <1>5, <2>1, <3>1, <3>3 DEF RequestIsWhole, MissedIsLoose
        <3>4. CASE stage[d] \in {"next", "write"} /\ ~asks[d].missed
            <4>1. HolderIsWhole(d)
                BY <3>1, <3>4 DEF RequestIsWhole
            <4>2. d \in overtaken'
                BY <3>2, <3>4
            <4>3. ASSUME NEW type \in Types \ asks[d].left, type \notin DOMAIN writes[d], ~loose
                  PROVE  rows'[type] = NoRow
                BY <2>2, <4>1, <4>3, MinutesData DEF HolderIsWhole
            <4>4. HolderIsWhole(d)'
                BY <1>3, <1>5, <2>1, <4>1, <4>2, <4>3 DEF HolderIsWhole, Meant, MeantFor
            <4> QED BY <1>5, <3>4, <4>4 DEF RequestIsWhole
        <3> QED BY <1>5, <3>3, <3>4 DEF RequestIsWhole
    <2> QED BY <2>3, <2>4
<1>11. ASSUME ~asks[c].missed PROVE DayAgrees' /\ \A d \in Clients \ {c} : RequestIsWhole(d)'
    <2>1. HolderIsWhole(c) /\ loose' = (loose /\ c \in overtaken)
        BY <1>1, <1>2, <1>11 DEF RequestOK, RequestIsWhole
    <2>2. rows'[Day] = Meant(c)
        BY <1>4, <2>1, MinutesData DEF HolderIsWhole
    <2>3. ASSUME ~loose', NEW type \in Types PROVE rows'[type] = MeantFor(c, type)
        BY <1>2, <1>4, <2>1, <2>3, MinutesData DEF HolderIsWhole
    <2>4. asks[c].kind = "save" => asks[c].totals \in Totals
        BY <1>1 DEF LearningTypeOK
    <2>5. DayAgrees'
        BY <2>2, <2>3, <2>4, MinutesData DEF DayAgrees, Meant, MeantFor
    <2>6. ASSUME NEW d \in Clients \ {c} PROVE RequestIsWhole(d)'
        <3>1. RequestIsWhole(d) /\ Day \notin DOMAIN writes[d]
            BY <1>1, <2>1 DEF RequestOK, LocksHold, HolderIsWhole
        <3>2. stage[d] \in {"next", "write"} => asks[d].missed /\ MissedIsLoose(d)
            BY <3>1 DEF RequestIsWhole, HolderIsWhole
        \* A total that the other one deletes is there, and so was overlooked.
        <3>3. ASSUME stage[d] \in {"next", "write"}, NEW type \in DOMAIN writes[d]
              PROVE  loose'
            <4>1. /\ loose /\ rows[type] # NoRow /\ type \notin DOMAIN writes[c]
                  /\ type \in Types
                BY <1>1, <1>8, <3>2, <3>3, MinutesData DEF MissedIsLoose, LocksHold
            <4>2. c \in overtaken
                BY <1>2, <2>1, <4>1 DEF HolderIsWhole
            <4> QED BY <2>1, <4>1, <4>2
        <3> QED BY <1>3, <1>5, <3>2, <3>3 DEF RequestIsWhole, MissedIsLoose
    <2> QED BY <2>5, <2>6
<1>12. \A type \in Types \ outgrown' : rows'[type] # NoRow => rows'[type] >= items'[type]
    BY <1>1, <1>2, <1>4, MinutesData DEF DayIsWhole, RequestOK, RequestSuffices
<1>13. DayIsWhole'
    BY <1>10, <1>11, <1>12 DEF DayIsWhole, DayAgrees
<1>14. \A d \in Clients \ {c} : StageOK(d)' /\ RequestSuffices(d)'
    BY <1>1, <1>2, <1>3, <1>5 DEF RequestOK, StageOK, RequestSuffices
<1>15. RequestOK(c)'
    BY <1>3, <1>5, IdleIsOK
<1>16. \A d \in Clients \ {c} : RequestOK(d)'
    BY <1>10, <1>11, <1>14 DEF RequestOK
<1> QED BY <1>6, <1>7, <1>9, <1>13, <1>15, <1>16 DEF LearningInv


LEMMA SaveTotalKeeps == ASSUME LearningInv, NEW c \in Clients, SaveTotal(c) PROVE LearningInv'
<1>1. PICK type \in Types : \E minutes \in items[type]..MaxMinutes :
        Begin(c, [Ask("total", [Nothing.totals EXCEPT ![type] = minutes]) EXCEPT !.type = type],
              "total")
    BY DEF SaveTotal
<1>2. PICK minutes \in items[type]..MaxMinutes :
        Begin(c, [Ask("total", [Nothing.totals EXCEPT ![type] = minutes]) EXCEPT !.type = type],
              "total")
    BY <1>1
<1> DEFINE totals == [Nothing.totals EXCEPT ![type] = minutes]
           asked == [Ask("total", totals) EXCEPT !.type = type]
<1>3. items[type] \in Minutes /\ MaxMinutes \in Nat
    BY MinutesAssumption DEF LearningInv, LearningTypeOK
<1>4. minutes \in Minutes /\ minutes >= items[type]
    BY <1>3 DEF Minutes
<1>5. totals \in Totals /\ totals[type] = minutes
    BY <1>4, MinutesData DEF Totals
<1> HIDE DEF totals
<1>6. /\ asked \in [kind : {"save", "delete", "total"}, totals : Totals,
                    left : SUBSET Types, type : Types, missed : BOOLEAN]
      /\ asked.left = Types /\ ~asked.missed /\ asked.kind = "total"
      /\ asked.type = type /\ asked.totals = totals
    BY <1>5, MinutesData DEF Ask
<1>7. Begin(c, asked, "total")
    BY <1>2 DEF totals
<1> HIDE DEF asked
<1> QED BY <1>4, <1>5, <1>6, <1>7, BeginKeeps

LEMMA WorklogBeginsKeep ==
    ASSUME LearningInv, NEW c \in Clients, SaveWorklog(c) \/ DeleteWorklog(c) PROVE LearningInv'
<1>1. PICK kind \in {"save", "delete"}, totals \in Totals : Begin(c, Ask(kind, totals), "day")
    BY MinutesData DEF SaveWorklog, DeleteWorklog
<1>2. /\ Ask(kind, totals) \in [kind : {"save", "delete", "total"}, totals : Totals,
                                left : SUBSET Types, type : Types, missed : BOOLEAN]
      /\ Ask(kind, totals).left = Types /\ ~Ask(kind, totals).missed
      /\ Ask(kind, totals).kind = kind
    BY MinutesData DEF Ask
<1> QED BY <1>1, <1>2, BeginKeeps

\* Where rows change apart from a commit, the day is given up as a whole, and
\* what others have found gone may be there again.
LEMMA WriteTotalKeeps == ASSUME LearningInv, NEW c \in Clients, WriteTotal(c) PROVE LearningInv'
<1> DEFINE type == asks[c].type
           minutes == asks[c].totals[type]
<1>1. LearningTypeOK /\ WritesTypeOK /\ LocksHold /\ DayIsWhole /\ \A d \in Clients : RequestOK(d)
    BY DEF LearningInv
<1>2. /\ stage[c] = "total" /\ ~Locked(c, type)
      /\ rows' = [rows EXCEPT ![type] = minutes]
      /\ outgrown' = (outgrown \ {type}) \cup (late[c] \cap {type})
      /\ loose' /\ overtaken' = Busy(c) /\ Ends(c)
      /\ UNCHANGED <<items, writes>>
    BY DEF WriteTotal
<1>3. type \in Types /\ minutes \in Minutes /\ asks[c].kind = "total" /\ DOMAIN writes[c] = {}
    BY <1>1, <1>2, MinutesData DEF LearningTypeOK, RequestOK, StageOK
<1>4. type \notin late[c] => minutes >= items[type]
    BY <1>1, <1>2, <1>3 DEF RequestOK, RequestSuffices
<1> HIDE DEF type, minutes
<1>5. /\ stage'[c] = "idle" /\ asks'[c] = Nothing /\ late'[c] = {}
      /\ \A d \in Clients \ {c} : stage'[d] = stage[d] /\ asks'[d] = asks[d] /\ late'[d] = late[d]
      /\ stage' \in [Clients -> {"idle", "day", "next", "write", "total"}]
      /\ asks' \in [Clients -> [kind : {"save", "delete", "total"}, totals : Totals,
                                left : SUBSET Types, type : Types, missed : BOOLEAN]]
      /\ late' \in [Clients -> SUBSET Types]
    BY <1>1, <1>2, EndsIdle
<1>6. /\ DOMAIN rows' = Keys /\ rows'[type] = minutes
      /\ \A key \in Keys \ {type} : rows'[key] = rows[key]
    BY <1>1, <1>2, <1>3, MinutesData DEF LearningTypeOK
<1>7. LearningTypeOK'
    <2>1. loose' \in BOOLEAN /\ overtaken' \subseteq Clients /\ outgrown' \subseteq Types
        BY <1>1, <1>2, <1>3 DEF LearningTypeOK, Busy
    <2>2. rows'[Day] \in {NoRow} \cup Totals
        BY <1>1, <1>3, <1>6, MinutesData DEF LearningTypeOK
    <2>3. \A k \in Types : rows'[k] \in {NoRow} \cup Minutes
        BY <1>1, <1>3, <1>6, MinutesData DEF LearningTypeOK
    <2> QED BY <2>1, <2>2, <2>3, <1>1, <1>2, <1>5, <1>6 DEF LearningTypeOK
<1>8. WritesTypeOK'
    BY <1>1, <1>2 DEF WritesTypeOK
<1>9. \A d \in Clients : DOMAIN writes[d] \subseteq Keys /\ type \notin DOMAIN writes[d]
    BY <1>1, <1>2, <1>3 DEF LearningTypeOK, Locked
<1>10. LocksHold'
    BY <1>1, <1>2, <1>6, <1>9 DEF LocksHold
<1>11. DayIsWhole'
    BY <1>1, <1>2, <1>4, <1>6, MinutesData DEF DayIsWhole
<1>12. \A d \in Clients \ {c} : StageOK(d)' /\ RequestSuffices(d)'
    BY <1>1, <1>2, <1>5 DEF RequestOK, StageOK, RequestSuffices
<1>13. ASSUME NEW d \in Clients \ {c} PROVE RequestIsWhole(d)'
    <2>1. stage[d] # "idle" => d \in overtaken'
        BY <1>2 DEF Busy
    <2> QED BY <1>1, <1>2, <1>5, <2>1
        DEF RequestOK, RequestIsWhole, MissedIsLoose, HolderIsWhole, Meant, MeantFor
<1>14. RequestOK(c)'
    BY <1>2, <1>3, <1>5, IdleIsOK
<1> QED BY <1>7, <1>8, <1>10, <1>11, <1>12, <1>13, <1>14 DEF LearningInv, RequestOK

LEMMA DeleteTotalKeeps ==
    ASSUME LearningInv, NEW type \in Types, DeleteTotal(type) PROVE LearningInv'
<1>1. LearningTypeOK /\ WritesTypeOK /\ LocksHold /\ DayIsWhole /\ \A d \in Clients : RequestOK(d)
    BY DEF LearningInv
<1>2. /\ \A d \in Clients : type \notin DOMAIN writes[d]
      /\ rows' = [rows EXCEPT ![type] = NoRow]
      /\ loose' /\ overtaken' = {d \in Clients : stage[d] # "idle"}
      /\ UNCHANGED <<items, stage, asks, writes, late, outgrown>>
    BY DEF DeleteTotal
<1>3. /\ DOMAIN rows' = Keys /\ rows'[type] = NoRow
      /\ \A key \in Keys \ {type} : rows'[key] = rows[key]
    BY <1>1, <1>2, MinutesData DEF LearningTypeOK
<1>4. LearningTypeOK'
    <2>1. loose' \in BOOLEAN /\ overtaken' \subseteq Clients
        BY <1>2
    <2>2. rows'[Day] \in {NoRow} \cup Totals
        BY <1>1, <1>3, MinutesData DEF LearningTypeOK
    <2>3. \A k \in Types : rows'[k] \in {NoRow} \cup Minutes
        BY <1>1, <1>3, MinutesData DEF LearningTypeOK
    <2> QED BY <2>1, <2>2, <2>3, <1>1, <1>2, <1>3 DEF LearningTypeOK
<1>5. WritesTypeOK'
    BY <1>1, <1>2 DEF WritesTypeOK
<1>6. LocksHold'
    <2>1. \A d \in Clients : DOMAIN writes[d] \subseteq Keys
        BY <1>1 DEF LearningTypeOK
    <2> QED BY <1>1, <1>2, <1>3, <2>1 DEF LocksHold
<1>7. DayIsWhole'
    BY <1>1, <1>2, <1>3, MinutesData DEF DayIsWhole
<1>8. \A d \in Clients : StageOK(d)' /\ RequestSuffices(d)'
    BY <1>1, <1>2 DEF RequestOK, StageOK, RequestSuffices
<1>9. \A d \in Clients : RequestIsWhole(d)'
    BY <1>1, <1>2 DEF RequestOK, RequestIsWhole, MissedIsLoose, HolderIsWhole, Meant, MeantFor
<1> QED BY <1>4, <1>5, <1>6, <1>7, <1>8, <1>9 DEF LearningInv, RequestOK

\* Minutes that grow mark all that was compared with them; fewer minutes of
\* items are never too many.
LEMMA SessionsKeep ==
    ASSUME LearningInv, ForgetSessions \/ \E type \in Types : RecordSession(type)
    PROVE  LearningInv'
<1>1. LearningTypeOK /\ WritesTypeOK /\ LocksHold /\ DayIsWhole /\ \A d \in Clients : RequestOK(d)
    BY DEF LearningInv
<1>2. UNCHANGED <<rows, stage, asks, writes, overtaken, loose>>
    BY DEF ForgetSessions, RecordSession
<1>3. ASSUME items' \in [Types -> Minutes], late' \in [Clients -> SUBSET Types],
             outgrown' \subseteq Types,
             \A type \in Types \ outgrown' : type \notin outgrown /\ items'[type] <= items[type],
             \A c \in Clients : \A type \in Types \ late'[c] :
                type \notin late[c] /\ (Compared(c, type) => items'[type] <= items[type])
      PROVE  LearningInv'
    <2>1. LearningTypeOK'
        BY <1>1, <1>2, <1>3 DEF LearningTypeOK
    <2>2. WritesTypeOK' /\ LocksHold'
        BY <1>1, <1>2 DEF WritesTypeOK, LocksHold
    <2>3. \A type \in Types : /\ items[type] \in Nat /\ items'[type] \in Nat
                              /\ rows[type] \in {NoRow} \cup Nat
        BY <1>1, <1>3, MinutesData DEF LearningTypeOK
    <2>4. DayIsWhole'
        BY <1>1, <1>2, <1>3, <2>3 DEF DayIsWhole
    <2>5. \A c \in Clients : StageOK(c)' /\ RequestIsWhole(c)'
        BY <1>1, <1>2
        DEF RequestOK, StageOK, RequestIsWhole, MissedIsLoose, HolderIsWhole, Meant, MeantFor
    <2>6. ASSUME NEW c \in Clients PROVE RequestSuffices(c)'
        <3>1. RequestSuffices(c)
            BY <1>1 DEF RequestOK
        <3>2. \A type \in Types : /\ asks[c].totals[type] \in Nat
                                  /\ type \in DOMAIN writes[c] => writes[c][type] \in {NoRow} \cup Nat
            BY <1>1, MinutesData DEF LearningTypeOK, WritesTypeOK
        <3> QED BY <1>2, <1>3, <2>3, <3>1, <3>2 DEF RequestSuffices, Compared
    <2> QED BY <2>1, <2>2, <2>4, <2>5, <2>6 DEF LearningInv, RequestOK
<1>4. CASE ForgetSessions
    <2>1. /\ items' \in Totals /\ \A type \in Types : items'[type] <= items[type]
          /\ UNCHANGED <<late, outgrown>>
        BY <1>4 DEF ForgetSessions
    <2> QED BY <1>1, <1>3, <2>1 DEF LearningTypeOK, Totals
<1>5. ASSUME NEW type \in Types, RecordSession(type) PROVE LearningInv'
    <2>1. PICK minutes \in 1..MaxMinutes :
            /\ items[type] + minutes <= MaxMinutes
            /\ items' = [items EXCEPT ![type] = @ + minutes]
        BY <1>5 DEF RecordSession
    <2>2. late' = [c \in Clients |-> IF Compared(c, type) THEN late[c] \cup {type} ELSE late[c]]
          /\ outgrown' = outgrown \cup {type}
        BY <1>5 DEF RecordSession
    <2>3. items' \in [Types -> Minutes] /\ \A k \in Types \ {type} : items'[k] = items[k]
        BY <1>1, <2>1, MinutesAssumption DEF LearningTypeOK, Minutes
    <2>4. \A k \in Types : items[k] \in Nat
        BY <1>1, MinutesData DEF LearningTypeOK
    <2>5. late' \in [Clients -> SUBSET Types] /\ outgrown' \subseteq Types
        BY <1>1, <2>2 DEF LearningTypeOK
    <2>6. \A k \in Types \ outgrown' : k \notin outgrown /\ items'[k] <= items[k]
        BY <2>2, <2>3, <2>4
    <2>7. \A c \in Clients : \A k \in Types \ late'[c] :
             k \notin late[c] /\ (Compared(c, k) => items'[k] <= items[k])
        BY <2>2, <2>3, <2>4
    <2> QED BY <1>3, <2>3, <2>5, <2>6, <2>7
<1> QED BY <1>4, <1>5

LEMMA LearningKeeps == LearningInv /\ [LearningNext]_learningVars => LearningInv'
<1> SUFFICES ASSUME LearningInv, [LearningNext]_learningVars PROVE LearningInv'
    OBVIOUS
<1>1. CASE UNCHANGED learningVars
    BY <1>1 DEF learningVars, LearningInv, LearningTypeOK, WritesTypeOK, LocksHold, DayIsWhole,
                RequestOK, StageOK, RequestIsWhole, MissedIsLoose, HolderIsWhole, Meant, MeantFor,
                RequestSuffices
<1>2. ASSUME NEW c \in Clients,
             \/ SaveWorklog(c) \/ UpsertWorklog(c) \/ CompareItems(c) \/ WriteMinutes(c)
             \/ DeleteWorklog(c) \/ DropWorklog(c) \/ DropMinutes(c) \/ Commit(c)
             \/ SaveTotal(c) \/ WriteTotal(c) \/ Aborts(c)
      PROVE  LearningInv'
    BY <1>2, WorklogBeginsKeep, UpsertWorklogKeeps, CompareItemsKeeps, WriteMinutesKeeps,
       DropWorklogKeeps, DropMinutesKeeps, CommitKeeps, SaveTotalKeeps, WriteTotalKeeps,
       GivingUpKeeps DEF Aborts
<1>3. CASE ForgetSessions \/ \E type \in Recorded : RecordSession(type)
    BY <1>3, SessionsKeep, MinutesAssumption
<1>4. CASE \E type \in Types : DeleteTotal(type)
    BY <1>4, DeleteTotalKeeps
<1> QED BY <1>1, <1>2, <1>3, <1>4 DEF LearningNext

\* Whatever the requests of a user do to a day at once, its minutes are those of
\* the worklog, unless one was written apart from it, and are not less than those
\* of the items they were compared with.
THEOREM DaysAreWhole == LearningSpec => []DayIsWhole
<1>1. LearningInv => DayIsWhole
    BY DEF LearningInv
<1> QED BY <1>1, StartsWhole, LearningKeeps, PTL DEF LearningSpec

-----------------------------------------------------------------------------
(* Snapshots of a team: their months.                                      *)

\* Months begin on days, and a day that is not in one month is in the next.
LEMMA MonthStarts ==
    ASSUME NEW day \in Int
    PROVE  /\ MonthStart(day) \in Int /\ MonthStart(day) <= day
           /\ MonthStart(day) = FirstOf(YearOf(day), MonthOf(day))
           /\ \A x \in Int : MonthStart(day) <= x /\ x < MonthStart(day) + 28 => MonthStart(x) = MonthStart(day)
<1>1. /\ YearOf(day) \in Int /\ MonthOf(day) \in 0..11
      /\ FirstOf(YearOf(day), MonthOf(day)) <= day
    BY MonthFound
<1>2. MonthOf(day) \in Int /\ MonthOf(day) + 1 \in Int
    BY <1>1
<1>3. /\ FirstOf(YearOf(day), MonthOf(day)) \in Int
      /\ FirstOf(YearOf(day), MonthOf(day)) + 28 <= FirstOf(YearOf(day), MonthOf(day) + 1)
    BY <1>1, <1>2, MonthsFollow
<1>4. FirstOf(YearOf(day), MonthOf(day) + 1) \in Int
    BY <1>1, <1>2, MonthsFollow
<1>5. MonthStart(day) = FirstOf(YearOf(day), MonthOf(day))
    BY DEF MonthStart, FirstOf
<1>6. ASSUME NEW x \in Int, MonthStart(day) <= x, x < MonthStart(day) + 28
      PROVE  MonthStart(x) = MonthStart(day)
    <2>1. FirstOf(YearOf(day), MonthOf(day)) <= x /\ x < FirstOf(YearOf(day), MonthOf(day) + 1)
        BY <1>3, <1>4, <1>5, <1>6
    <2>2. YearOf(x) = YearOf(day) /\ MonthOf(x) = MonthOf(day)
        BY <1>1, <2>1, MonthFound
    <2> QED BY <2>2 DEF MonthStart
<1> QED BY <1>1, <1>3, <1>5, <1>6

\* A month back from its first day is the first day of the month before.
LEMMA BackFromTheFirst ==
    ASSUME NEW day \in Int
    PROVE  LET first == MonthStart(day) IN MonthBack(first) = MonthStart(first - 1)
<1> DEFINE first == MonthStart(day)
           y == YearOf(first)
           m == MonthOf(first)
<1>1. first \in Int /\ MonthStart(first) = first
    <2>1. first \in Int /\ first < first + 28
        BY MonthStarts
    <2> QED BY <2>1, MonthStarts
<1> HIDE DEF first
<1>2. y \in Int /\ m \in 0..11 /\ FirstOf(y, m) = first
    BY <1>1, MonthFound, MonthStarts
<1>3. MonthBack(first) = FirstOf(y, m - 1)
    <2>1. first - MonthStart(first) + 1 = 1
        BY <1>1
    <2> QED BY <2>1 DEF MonthBack, FirstOf
<1>4. /\ FirstOf(y, m - 1) \in Int
      /\ FirstOf(y, m - 1) + 28 <= first /\ first <= FirstOf(y, m - 1) + 31
    <2>1. m - 1 \in Int /\ m - 1 + 1 = m
        BY <1>2
    <2> QED BY <1>2, <2>1, MonthsFollow
<1>5. CASE m > 0
    <2>1. m - 1 \in 0..11 /\ m - 1 + 1 = m
        BY <1>2, <1>5
    <2>2. FirstOf(y, m - 1) <= first - 1 /\ first - 1 < FirstOf(y, m - 1 + 1) /\ first - 1 \in Int
        BY <1>1, <1>2, <1>4, <2>1
    <2>3. YearOf(first - 1) = y /\ MonthOf(first - 1) = m - 1
        BY <1>2, <2>1, <2>2, MonthFound
    <2> QED BY <1>3, <2>3 DEF MonthStart, FirstOf, first
<1>6. CASE m = 0
    <2>1. y - 1 \in Int /\ 11 \in 0..11 /\ 0 - 1 = -1 /\ -1 \in Int /\ -1 + 12 = 11 /\ y - 1 + 1 = y
        BY <1>2
    <2>2. FirstOf(y, -1) = FirstOf(y - 1, 11)
        <3>1. FirstOf(y - 1, -1 + 12) = FirstOf(y - 1 + 1, -1)
            BY <2>1, MonthsFollow
        <3> QED BY <2>1, <3>1
    <2>3. FirstOf(y - 1, 11 + 1) = first
        <3>1. FirstOf(y - 1, 0 + 12) = FirstOf(y - 1 + 1, 0)
            BY <2>1, MonthsFollow
        <3> QED BY <1>2, <1>6, <2>1, <3>1
    <2>4. FirstOf(y, m - 1) = FirstOf(y - 1, 11)
        BY <1>6, <2>1, <2>2
    <2>5. FirstOf(y - 1, 11) <= first - 1 /\ first - 1 < FirstOf(y - 1, 11 + 1) /\ first - 1 \in Int
        BY <1>1, <1>4, <2>3, <2>4
    <2>6. YearOf(first - 1) = y - 1 /\ MonthOf(first - 1) = 11
        BY <2>1, <2>5, MonthFound
    <2> QED BY <1>3, <2>4, <2>6 DEF MonthStart, FirstOf, first
<1> QED BY <1>2, <1>5, <1>6 DEF first

IsZone(zone) == zone.at \in Int /\ {zone.before, zone.after} \subseteq (-HalfHours)..HalfHours

\* What the clocks are to show, and the instant when they do, are less than
\* a day apart.
LEMMA LocalDates ==
    ASSUME NEW zone, IsZone(zone), NEW wall \in Int
    PROVE  /\ LocalDate(zone, wall) \in Int
           /\ wall - 48 <= LocalDate(zone, wall) /\ LocalDate(zone, wall) <= wall + 48
<1> USE DEF IsZone, HalfHours
<1>1. \A i \in Int : Offset(zone, i) \in (-48)..48
    BY DEF Offset
<1>2. Offset(zone, wall) \in (-48)..48 /\ wall - Offset(zone, wall) \in Int
    BY <1>1
<1>3. Offset(zone, wall - Offset(zone, wall)) \in (-48)..48
    BY <1>1, <1>2
<1> QED BY <1>3 DEF LocalDate

\* The numbers of days
LEMMA MonthsAreDays ==
    ASSUME NEW zone, IsZone(zone), NEW now \in Int
    PROVE  /\ LocalMonth(now, zone) \in Int
           /\ SnapshotMonthFor(now, zone) \in Int
           /\ SnapshotMonthFor(now, zone) \div HalfHours \in Int
<1>1. \A i \in Int : WallTime(zone, i) \in Int
    BY DEF WallTime, Offset, IsZone, HalfHours
<1>2. \A i \in Int : i \div HalfHours \in Int /\ i % HalfHours \in Int /\ i * HalfHours \in Int
    BY DEF HalfHours
<1>3. LocalMonth(now, zone) \in Int
    <2>1. WallTime(zone, now) \div HalfHours \in Int
        BY <1>1, <1>2
    <2> QED BY <2>1, MonthStarts DEF LocalMonth
<1>4. \A day \in Int : MonthBack(day) \in Int
    <2> SUFFICES ASSUME NEW day \in Int PROVE MonthBack(day) \in Int
        OBVIOUS
    <2>1. YearOf(day) \in Int /\ MonthOf(day) - 1 \in Int /\ day - MonthStart(day) + 1 \in Int
        <3>1. MonthOf(day) \in 0..11 /\ YearOf(day) \in Int
            BY MonthFound
        <3>2. MonthStart(day) \in Int
            BY MonthStarts
        <3> QED BY <3>1, <3>2
    <2>2. /\ FirstOf(YearOf(day), MonthOf(day) - 1) \in Int
          /\ \A d \in Int : DateUTC(YearOf(day), MonthOf(day) - 1, d)
                                = FirstOf(YearOf(day), MonthOf(day) - 1) + d - 1
        BY <2>1, MonthsFollow
    <2> QED BY <2>1, <2>2 DEF MonthBack
<1> DEFINE shown == WallTime(zone, LocalDate(zone, LocalMonth(now, zone) * HalfHours))
           wall == (MonthBack(shown \div HalfHours) * HalfHours) + (shown % HalfHours)
<1>5. shown \in Int
    BY <1>1, <1>2, <1>3, LocalDates
<1>6. wall \in Int
    <2>1. MonthBack(shown \div HalfHours) * HalfHours \in Int /\ shown % HalfHours \in Int
        BY <1>2, <1>4, <1>5
    <2> QED BY <2>1
<1>7. SnapshotMonthFor(now, zone) = LocalDate(zone, wall)
    BY DEF SnapshotMonthFor
<1> HIDE DEF wall
<1> QED BY <1>2, <1>3, <1>6, <1>7, LocalDates

\* For every instant and every zone with one change of its offset
LEMMA MonthExplained ==
    ASSUME NEW zone, IsZone(zone), NEW now \in Int, ShowsMidnight(zone, LocalMonth(now, zone))
    PROVE  MonthStart(SnapshotMonthFor(now, zone) \div HalfHours) = ExplainedMonth(now, zone)
<1> DEFINE first == LocalMonth(now, zone)
           finished == MonthStart(first - 1)
           instant == LocalDate(zone, finished * HalfHours)
<1>1. first \in Int /\ first = MonthStart(WallTime(zone, now) \div HalfHours)
    BY MonthsAreDays DEF LocalMonth
<1>2. finished \in Int /\ finished = MonthStart(finished)
    <2>1. first - 1 \in Int
        BY <1>1
    <2>2. /\ finished \in Int
          /\ \A x \in Int : finished <= x /\ x < finished + 28 => MonthStart(x) = finished
        BY <2>1, MonthStarts
    <2>3. finished <= finished /\ finished < finished + 28
        BY <2>2
    <2> QED BY <2>2, <2>3
<1>3. MonthBack(first) = finished
    <2>1. WallTime(zone, now) \div HalfHours \in Int
        BY DEF WallTime, Offset, IsZone, HalfHours
    <2> QED BY <1>1, <2>1, BackFromTheFirst
<1>4. SnapshotMonthFor(now, zone) = instant
    <2>1. WallTime(zone, LocalDate(zone, first * HalfHours)) = first * HalfHours
        BY DEF ShowsMidnight
    <2>2. (first * HalfHours) \div HalfHours = first /\ (first * HalfHours) % HalfHours = 0
        BY <1>1 DEF HalfHours
    <2>3. SnapshotMonthFor(now, zone) = LocalDate(zone, (MonthBack(first) * HalfHours) + 0)
        BY <2>1, <2>2 DEF SnapshotMonthFor
    <2>4. (MonthBack(first) * HalfHours) + 0 = finished * HalfHours
        BY <1>2, <1>3 DEF HalfHours
    <2> QED BY <2>3, <2>4
<1>5. instant \in Int /\ finished * 48 - 48 <= instant /\ instant <= finished * 48 + 48
    <2>1. finished * HalfHours \in Int /\ finished * HalfHours = finished * 48
        BY <1>2 DEF HalfHours
    <2> QED BY <2>1, LocalDates
<1> HIDE DEF first, finished, instant
<1>6. CASE instant < finished * HalfHours
    <2>1. instant \div HalfHours = finished - 1
        BY <1>2, <1>5, <1>6 DEF HalfHours
    <2> QED BY <1>4, <1>6, <2>1 DEF ExplainedMonth, first, finished, instant
<1>7. CASE ~(instant < finished * HalfHours)
    <2>1. instant \div HalfHours \in Int
        BY <1>5 DEF HalfHours
    <2>2. finished <= instant \div HalfHours /\ instant \div HalfHours <= finished + 1
        BY <1>2, <1>5, <1>7 DEF HalfHours
    <2>3. MonthStart(instant \div HalfHours) = finished
        BY <1>2, <2>1, <2>2, MonthStarts
    <2> QED BY <1>4, <1>7, <2>3 DEF ExplainedMonth, first, finished, instant
<1> QED BY <1>6, <1>7

-----------------------------------------------------------------------------
(* Snapshots of a team: the captures and the jobs.                         *)

\* Two transactions never have the row of one label.
RowsAreExclusive == \A c, d \in Captures :
    Holds(c) /\ Holds(d) /\ captures[c].label = captures[d].label => c = d

\* Only the one that has the row changes it: what it has cleared is what is
\* seen, and what it has read is not older.
CaptureKnows(c) ==
    /\ captures[c].label \in Labels
    /\ captures[c].began <= editions[captures[c].label.user]
    /\ captures[c].next \in {"read", "commit"} => captures[c].cleared = MembersOf(captures[c].label)
    /\ captures[c].next = "commit" =>
        /\ captures[c].team \in captures[c].began..editions[captures[c].label.user]
        /\ \A old \in MembersOf(captures[c].label) : old <= captures[c].team

CapturesKnow == \A c \in Captures : captures[c].next # "idle" => CaptureKnows(c)

\* The job is at an account that is left, and began before that account's capture.
JobKnows(j) ==
    /\ jobs[j].state = "running"
    /\ captures[j].label.user \in jobs[j].left
    /\ captures[j].label = LabelOf(j, captures[j].label.user)
    /\ jobs[j].since[captures[j].label.user] <= captures[j].began

JobsKnow == \A j \in Jobs : captures[j].next # "idle" => JobKnows(j)

Captured(j, user) ==
    /\ LabelOf(j, user) \in DOMAIN snapshots
    /\ \A team \in snapshots[LabelOf(j, user)].members : jobs[j].since[user] <= team

JobsProgress == \A j \in Jobs :
    /\ jobs[j].left \subseteq DOMAIN jobs[j].zones
    /\ \A user \in DOMAIN jobs[j].zones : jobs[j].since[user] <= editions[user]
    /\ \A user \in DOMAIN jobs[j].zones \ jobs[j].left : Captured(j, user)
    /\ jobs[j].state = "ended" => jobs[j].left = {}

SnapshotInv ==
    /\ SnapshotTypeOK
    /\ RowsAreExclusive
    /\ CapturesKnow
    /\ JobsKnow
    /\ JobsProgress
    /\ SnapshotsAreWhole

CaptureRecords ==
    [next : {"idle", "upsert", "clear", "read", "commit"}, label : Labels \cup {NoLabel},
     began : Nat, cleared : SUBSET Nat, team : Nat]

ZoneChoices == UNION {[active -> Zones] : active \in SUBSET Users}

JobRecords ==
    [state : {"running", "ended", "failed"}, now : Int, left : SUBSET Users,
     zones : ZoneChoices, since : [Users -> Nat]]

LEMMA ZonesChosen ==
    ASSUME NEW zones \in ZoneChoices
    PROVE  /\ DOMAIN zones \subseteq Users
           /\ \A user \in DOMAIN zones : zones[user] \in Zones /\ IsZone(zones[user])
BY SnapshotAssumption DEF ZoneChoices, IsZone

LEMMA SnapshotsTyped ==
    SnapshotTypeOK <=>
        /\ editions \in [Users -> Nat]
        /\ DOMAIN snapshots \subseteq Labels
        /\ \A l \in DOMAIN snapshots : snapshots[l] \in [captured : Nat, members : SUBSET Nat]
        /\ captures \in [Captures -> CaptureRecords]
        /\ jobs \in [Jobs -> JobRecords]
BY DEF SnapshotTypeOK, CaptureRecords, JobRecords, ZoneChoices

LEMMA IdleTyped == NoCapture \in CaptureRecords /\ NoCapture.next = "idle"
BY DEF NoCapture, CaptureRecords

\* What a job captures has a label.
LEMMA LabelsTyped ==
    ASSUME SnapshotTypeOK, NEW j \in Jobs, NEW user \in DOMAIN jobs[j].zones
    PROVE  JobMonth(j, user) \in Int /\ LabelOf(j, user) \in Labels
<1>1. jobs[j].now \in Int /\ jobs[j].zones \in ZoneChoices
    BY SnapshotsTyped DEF JobRecords
<1>2. user \in Users /\ IsZone(jobs[j].zones[user])
    BY <1>1, ZonesChosen
<1>3. JobMonth(j, user) \in Int
    BY <1>1, <1>2, MonthsAreDays DEF JobMonth
<1>4. MonthStart(JobMonth(j, user)) \in Int
    BY <1>3, MonthStarts
<1> QED BY <1>2, <1>3, <1>4 DEF LabelOf, Labels, SnapshotTypes

LEMMA SnapshotInitially == SnapshotInit => SnapshotInv
<1> SUFFICES ASSUME SnapshotInit PROVE SnapshotInv
    OBVIOUS
<1>1. [u \in {} |-> {}] \in ZoneChoices
    <2>1. [u \in {} |-> {}] \in [{} -> Zones] /\ {} \in SUBSET Users
        OBVIOUS
    <2> QED BY <2>1 DEF ZoneChoices
<1>2. DOMAIN snapshots = {}
    BY DEF SnapshotInit
<1>3. SnapshotTypeOK
    <2>1. captures \in [Captures -> CaptureRecords]
        BY IdleTyped DEF SnapshotInit
    <2>2. jobs \in [Jobs -> JobRecords]
        BY <1>1 DEF SnapshotInit, JobRecords
    <2> QED BY <1>2, <2>1, <2>2, SnapshotsTyped DEF SnapshotInit
<1>4. \A c \in Captures : captures[c].next = "idle"
    BY IdleTyped DEF SnapshotInit
<1>5. RowsAreExclusive /\ CapturesKnow /\ JobsKnow
    BY <1>4 DEF RowsAreExclusive, CapturesKnow, JobsKnow, Holds, Captures
<1>6. JobsProgress
    <2>1. \A j \in Jobs : DOMAIN jobs[j].zones = {} /\ jobs[j].left = {}
        BY DEF SnapshotInit
    <2> QED BY <2>1 DEF JobsProgress
<1>7. SnapshotsAreWhole
    BY <1>2 DEF SnapshotsAreWhole
<1> QED BY <1>3, <1>5, <1>6, <1>7 DEF SnapshotInv

\* The team changes: what was read and captured is not newer than it was.
LEMMA TeamChanges ==
    ASSUME SnapshotInv, NEW u \in Users, ChangeTeam(u)
    PROVE  SnapshotInv'
<1>1. /\ editions \in [Users -> Nat] /\ editions' = [editions EXCEPT ![u] = @ + 1]
      /\ UNCHANGED <<snapshots, captures, jobs>>
    BY SnapshotsTyped DEF SnapshotInv, ChangeTeam
<1>2. editions' \in [Users -> Nat] /\ \A v \in Users : editions[v] <= editions'[v]
    BY <1>1
<1>3. SnapshotTypeOK'
    BY <1>1, <1>2 DEF SnapshotInv, SnapshotTypeOK
<1>4. RowsAreExclusive'
    BY <1>1 DEF SnapshotInv, RowsAreExclusive, Holds
<1>5. CapturesKnow'
    <2> SUFFICES ASSUME NEW c \in Captures, captures[c].next # "idle" PROVE CaptureKnows(c)'
        BY <1>1 DEF CapturesKnow
    <2>1. CaptureKnows(c)
        BY DEF SnapshotInv, CapturesKnow
    <2>2. captures[c].label.user \in Users /\ captures[c].began \in Nat /\ captures[c].team \in Nat
        BY <2>1, SnapshotsTyped DEF SnapshotInv, CaptureKnows, Labels, CaptureRecords
    <2> QED BY <1>1, <1>2, <2>1, <2>2 DEF CaptureKnows, MembersOf
<1>6. JobsKnow'
    BY <1>1 DEF SnapshotInv, JobsKnow, JobKnows, LabelOf, JobMonth
<1>7. JobsProgress'
    <2> SUFFICES ASSUME NEW j \in Jobs
                 PROVE  /\ jobs[j].left \subseteq DOMAIN jobs[j].zones
                        /\ \A user \in DOMAIN jobs[j].zones : jobs[j].since[user] <= editions'[user]
                        /\ \A user \in DOMAIN jobs[j].zones \ jobs[j].left : Captured(j, user)'
                        /\ jobs[j].state = "ended" => jobs[j].left = {}
        BY <1>1 DEF JobsProgress
    <2>1. jobs[j] \in JobRecords
        BY SnapshotsTyped DEF SnapshotInv
    <2>2. DOMAIN jobs[j].zones \subseteq Users /\ jobs[j].since \in [Users -> Nat]
        BY <2>1, ZonesChosen DEF JobRecords
    <2>3. \A user : Captured(j, user)' <=> Captured(j, user)
        BY <1>1 DEF Captured, LabelOf, JobMonth
    <2> QED BY <1>1, <1>2, <2>2, <2>3 DEF SnapshotInv, JobsProgress
<1>8. SnapshotsAreWhole'
    <2> SUFFICES ASSUME NEW l \in DOMAIN snapshots
                 PROVE  \E team \in snapshots[l].captured..editions'[l.user] : snapshots[l].members = {team}
        BY <1>1 DEF SnapshotsAreWhole
    <2>1. l.user \in Users /\ snapshots[l].captured \in Nat
        BY SnapshotsTyped DEF SnapshotInv, Labels
    <2> QED BY <1>1, <1>2, <2>1 DEF SnapshotInv, SnapshotsAreWhole
<1> QED BY <1>3, <1>4, <1>5, <1>6, <1>7, <1>8 DEF SnapshotInv

\* A transaction begins.
LEMMA CaptureBegins ==
    ASSUME SnapshotInv, NEW c \in Captures, NEW user \in Users, NEW day \in Int,
           NEW type \in SnapshotTypes, CreateSnapshot(c, user, day, type),
           UNCHANGED <<editions, snapshots, jobs>>,
           c \in Jobs => /\ jobs[c].state = "running" /\ user \in jobs[c].left
                         /\ user \in DOMAIN jobs[c].zones
                         /\ day = JobMonth(c, user) /\ type = "AUTO"
    PROVE  SnapshotInv'
<1> DEFINE label == [user |-> user, month |-> MonthStart(day), type |-> type]
           begun == [NoCapture EXCEPT !.next = "upsert", !.began = editions[user], !.label = label]
<1>1. captures' = [captures EXCEPT ![c] = begun] /\ captures[c].next = "idle"
    BY DEF CreateSnapshot
<1>2. /\ captures \in [Captures -> CaptureRecords] /\ editions \in [Users -> Nat]
      /\ jobs \in [Jobs -> JobRecords]
    BY SnapshotsTyped DEF SnapshotInv
<1>3. label \in Labels
    BY MonthStarts DEF Labels
<1> HIDE DEF label
<1>4. /\ begun \in CaptureRecords /\ begun.next = "upsert" /\ begun.label = label
      /\ begun.began = editions[user] /\ label.user = user
    BY <1>2, <1>3 DEF CaptureRecords, NoCapture, label
<1> HIDE DEF begun
<1>5. /\ captures' \in [Captures -> CaptureRecords] /\ captures'[c] = begun
      /\ \A d \in Captures \ {c} : captures'[d] = captures[d]
    BY <1>1, <1>2, <1>4
<1>6. SnapshotTypeOK'
    BY <1>5 DEF SnapshotInv, SnapshotTypeOK, CaptureRecords
<1>7. RowsAreExclusive'
    BY <1>4, <1>5 DEF SnapshotInv, RowsAreExclusive, Holds
<1>8. CapturesKnow'
    <2>1. CaptureKnows(c)'
        BY <1>2, <1>3, <1>4, <1>5 DEF CaptureKnows
    <2>2. ASSUME NEW d \in Captures \ {c}, captures[d].next # "idle" PROVE CaptureKnows(d)'
        BY <1>5, <2>2 DEF SnapshotInv, CapturesKnow, CaptureKnows, MembersOf
    <2> QED BY <1>5, <2>1, <2>2 DEF CapturesKnow
<1>9. JobsKnow'
    <2>1. ASSUME c \in Jobs PROVE JobKnows(c)'
        <3>1. label = LabelOf(c, user)
            BY <2>1 DEF label, LabelOf
        <3>2. LabelOf(c, user)' = LabelOf(c, user)
            BY DEF LabelOf, JobMonth
        <3>3. jobs[c].since[user] <= editions[user]
            BY <2>1 DEF SnapshotInv, JobsProgress
        <3> QED BY <1>4, <1>5, <2>1, <3>1, <3>2, <3>3 DEF JobKnows
    <2>2. ASSUME NEW d \in Jobs, d # c, captures[d].next # "idle" PROVE JobKnows(d)'
        <3>1. captures'[d] = captures[d]
            BY <1>5, <2>2 DEF Captures
        <3> QED BY <3>1, <2>2 DEF SnapshotInv, JobsKnow, JobKnows, LabelOf, JobMonth
    <2>3. \A d \in Jobs \ {c} : captures'[d] = captures[d]
        BY <1>5 DEF Captures
    <2> QED BY <2>1, <2>2, <2>3 DEF JobsKnow
<1>10. JobsProgress'
    BY DEF SnapshotInv, JobsProgress, Captured, LabelOf, JobMonth
<1>11. SnapshotsAreWhole'
    BY DEF SnapshotInv, SnapshotsAreWhole
<1> QED BY <1>6, <1>7, <1>8, <1>9, <1>10, <1>11 DEF SnapshotInv

\* A transaction goes on: only what it knows itself is to be shown.
LEMMA CaptureGoesOn ==
    ASSUME SnapshotInv, NEW c \in Captures, captures[c].next # "idle",
           UNCHANGED <<editions, snapshots, jobs>>, NEW record \in CaptureRecords,
           captures' = [captures EXCEPT ![c] = record],
           record.label = captures[c].label, record.began = captures[c].began,
           \A d \in Captures \ {c} : Holds(d) => captures[d].label # captures[c].label,
           CaptureKnows(c)'
    PROVE  SnapshotInv'
<1>1. captures \in [Captures -> CaptureRecords]
    BY SnapshotsTyped DEF SnapshotInv
<1>2. /\ captures' \in [Captures -> CaptureRecords] /\ captures'[c] = record
      /\ \A d \in Captures \ {c} : captures'[d] = captures[d]
    BY <1>1
<1>3. SnapshotTypeOK'
    BY <1>2 DEF SnapshotInv, SnapshotTypeOK, CaptureRecords
<1>4. RowsAreExclusive'
    BY <1>2 DEF SnapshotInv, RowsAreExclusive, Holds
<1>5. CapturesKnow'
    <2>1. ASSUME NEW d \in Captures \ {c}, captures[d].next # "idle" PROVE CaptureKnows(d)'
        BY <1>2, <2>1 DEF SnapshotInv, CapturesKnow, CaptureKnows, MembersOf
    <2> QED BY <1>2, <2>1 DEF CapturesKnow
<1>6. JobsKnow'
    <2> SUFFICES ASSUME NEW j \in Jobs, captures[j].next # "idle" PROVE JobKnows(j)'
        BY <1>2 DEF JobsKnow, Captures
    <2>1. captures'[j].label = captures[j].label /\ captures'[j].began = captures[j].began
        BY <1>2 DEF Captures
    <2>2. JobKnows(j)
        BY DEF SnapshotInv, JobsKnow
    <2>3. LabelOf(j, captures[j].label.user)' = LabelOf(j, captures[j].label.user)
        BY <2>1 DEF LabelOf, JobMonth
    <2> QED BY <2>1, <2>2, <2>3 DEF JobKnows
<1>7. JobsProgress'
    BY DEF SnapshotInv, JobsProgress, Captured, LabelOf, JobMonth
<1>8. SnapshotsAreWhole'
    BY DEF SnapshotInv, SnapshotsAreWhole
<1> QED BY <1>3, <1>4, <1>5, <1>6, <1>7, <1>8 DEF SnapshotInv

LEMMA StatementsPreserve ==
    ASSUME SnapshotInv, NEW c \in Captures,
           UpsertSnapshot(c) \/ ClearMembers(c) \/ ReadTeam(c)
    PROVE  SnapshotInv'
<1>1. /\ captures \in [Captures -> CaptureRecords] /\ captures[c] \in CaptureRecords
      /\ editions \in [Users -> Nat]
    BY SnapshotsTyped DEF SnapshotInv
<1>2. captures[c].next # "idle" /\ UNCHANGED <<editions, snapshots, jobs>>
    BY DEF UpsertSnapshot, ClearMembers, ReadTeam
<1>3. CaptureKnows(c) /\ captures[c].label.user \in Users
    BY <1>2 DEF SnapshotInv, CapturesKnow, CaptureKnows, Labels
<1>5. Holds(c) => \A d \in Captures \ {c} : Holds(d) => captures[d].label # captures[c].label
    BY DEF SnapshotInv, RowsAreExclusive
<1>6. CASE UpsertSnapshot(c)
    <2> DEFINE record == [captures[c] EXCEPT !.next = "clear"]
    <2>1. captures' = [captures EXCEPT ![c] = record]
        BY <1>1, <1>6 DEF UpsertSnapshot, Continue
    <2>2. /\ record \in CaptureRecords /\ record.next = "clear" /\ record.label = captures[c].label
          /\ record.began = captures[c].began
        BY <1>1 DEF CaptureRecords
    <2> HIDE DEF record
    <2>3. captures'[c] = record
        BY <1>1, <2>1
    <2>4. CaptureKnows(c)'
        BY <1>2, <1>3, <2>2, <2>3 DEF CaptureKnows
    <2> QED BY <1>2, <1>6, <2>1, <2>2, <2>4, CaptureGoesOn DEF UpsertSnapshot
<1>7. CASE ClearMembers(c)
    <2> DEFINE record == [captures[c] EXCEPT !.next = "read", !.cleared = MembersCleared(c)]
    <2>1. captures' = [captures EXCEPT ![c] = record]
        BY <1>1, <1>7 DEF ClearMembers
    <2>2. MembersOf(captures[c].label) \in SUBSET Nat
        BY SnapshotsTyped DEF SnapshotInv, MembersOf
    <2>3. /\ record \in CaptureRecords /\ record.next = "read" /\ record.label = captures[c].label
          /\ record.began = captures[c].began /\ record.cleared = MembersOf(captures[c].label)
        BY <1>1, <2>2 DEF CaptureRecords, MembersCleared
    <2> HIDE DEF record
    <2>4. captures'[c] = record
        BY <1>1, <2>1
    <2>5. CaptureKnows(c)'
        BY <1>2, <1>3, <2>3, <2>4 DEF CaptureKnows, MembersOf
    <2>6. Holds(c)
        BY <1>7 DEF ClearMembers, Holds
    <2> QED BY <1>2, <1>5, <2>1, <2>3, <2>5, <2>6, CaptureGoesOn
<1>8. CASE ReadTeam(c)
    <2> DEFINE record == [captures[c] EXCEPT !.next = "commit", !.team = TeamRead(c)]
    <2>1. captures' = [captures EXCEPT ![c] = record]
        BY <1>1, <1>8 DEF ReadTeam
    <2>2. TeamRead(c) \in Nat /\ TeamRead(c) = editions[captures[c].label.user]
        BY <1>1, <1>3 DEF TeamRead
    <2>3. /\ record \in CaptureRecords /\ record.next = "commit" /\ record.label = captures[c].label
          /\ record.began = captures[c].began /\ record.cleared = captures[c].cleared
          /\ record.team = editions[captures[c].label.user]
        BY <1>1, <2>2 DEF CaptureRecords
    <2> HIDE DEF record
    <2>4. captures'[c] = record
        BY <1>1, <2>1
    <2>5. \A old \in MembersOf(captures[c].label) : old <= editions[captures[c].label.user]
        <3>1. ASSUME captures[c].label \in DOMAIN snapshots
              PROVE  \A old \in snapshots[captures[c].label].members : old <= editions[captures[c].label.user]
            <4>1. PICK team \in snapshots[captures[c].label].captured..editions[captures[c].label.user] :
                        snapshots[captures[c].label].members = {team}
                BY <3>1 DEF SnapshotInv, SnapshotsAreWhole
            <4> QED BY <4>1
        <3> QED BY <3>1 DEF MembersOf
    <2>6. record.began \in Nat /\ editions[captures[c].label.user] \in Nat
        BY <1>1, <1>3, <2>3 DEF CaptureRecords
    <2>7. captures[c].cleared = MembersOf(captures[c].label)
        BY <1>3, <1>8 DEF CaptureKnows, ReadTeam
    <2>8. CaptureKnows(c)'
        BY <1>2, <1>3, <2>3, <2>4, <2>5, <2>6, <2>7 DEF CaptureKnows, MembersOf
    <2>9. Holds(c)
        BY <1>8 DEF ReadTeam, Holds
    <2> QED BY <1>2, <1>5, <2>1, <2>3, <2>8, <2>9, CaptureGoesOn
<1> QED BY <1>6, <1>7, <1>8

\* A transaction or a job is over without a commit: nobody else knows less.
LEMMA CaptureEnds ==
    ASSUME SnapshotInv, NEW c \in Captures, UNCHANGED <<editions, snapshots>>, FailsJob(c),
           captures' \in [Captures -> CaptureRecords], captures'[c].next = "idle",
           \A d \in Captures \ {c} : captures'[d] = captures[d]
    PROVE  SnapshotInv'
<1>1. captures \in [Captures -> CaptureRecords] /\ jobs \in [Jobs -> JobRecords]
    BY SnapshotsTyped DEF SnapshotInv
<1>2. /\ captures' \in [Captures -> CaptureRecords] /\ captures'[c].next = "idle"
      /\ \A d \in Captures \ {c} : captures'[d] = captures[d]
    OBVIOUS
<1>3. \A j \in Jobs \ {c} : jobs'[j] = jobs[j]
    BY DEF FailsJob
<1>4. ASSUME c \in Jobs
      PROVE  /\ jobs'[c] \in JobRecords /\ jobs'[c].state = "failed"
             /\ jobs'[c].zones = jobs[c].zones /\ jobs'[c].left = jobs[c].left
             /\ jobs'[c].since = jobs[c].since /\ jobs'[c].now = jobs[c].now
    <2>1. jobs'[c] = [jobs[c] EXCEPT !.state = "failed"] /\ jobs[c] \in JobRecords
        BY <1>1, <1>4 DEF FailsJob
    <2> QED BY <2>1 DEF JobRecords
<1>5. jobs' \in [Jobs -> JobRecords]
    <2>1. \A j \in Jobs : jobs'[j] \in JobRecords
        BY <1>1, <1>3, <1>4
    <2>2. jobs' = [j \in Jobs |-> jobs'[j]]
        BY DEF FailsJob
    <2> QED BY <2>1, <2>2
<1>6. SnapshotTypeOK'
    BY <1>2, <1>5 DEF SnapshotInv, SnapshotTypeOK, CaptureRecords, JobRecords, ZoneChoices
<1>7. \A j \in Jobs : /\ jobs'[j].zones = jobs[j].zones /\ jobs'[j].left = jobs[j].left
                      /\ jobs'[j].since = jobs[j].since /\ jobs'[j].now = jobs[j].now
    BY <1>3, <1>4
<1>8. \A j \in Jobs : \A user : LabelOf(j, user)' = LabelOf(j, user)
    BY <1>7 DEF LabelOf, JobMonth
<1>9. RowsAreExclusive'
    BY <1>2 DEF SnapshotInv, RowsAreExclusive, Holds
<1>10. CapturesKnow'
    <2> SUFFICES ASSUME NEW d \in Captures \ {c}, captures[d].next # "idle" PROVE CaptureKnows(d)'
        BY <1>2 DEF CapturesKnow
    <2> QED BY <1>2 DEF SnapshotInv, CapturesKnow, CaptureKnows, MembersOf
<1>11. JobsKnow'
    <2> SUFFICES ASSUME NEW j \in Jobs, captures'[j].next # "idle" PROVE JobKnows(j)'
        BY DEF JobsKnow
    <2>1. j # c /\ captures'[j] = captures[j] /\ jobs'[j] = jobs[j]
        BY <1>2, <1>3 DEF Captures
    <2>2. JobKnows(j)
        BY <2>1 DEF SnapshotInv, JobsKnow
    <2> QED BY <1>8, <2>1, <2>2 DEF JobKnows
<1>12. JobsProgress'
    <2> SUFFICES ASSUME NEW j \in Jobs
                 PROVE  /\ jobs[j].left \subseteq DOMAIN jobs[j].zones
                        /\ \A user \in DOMAIN jobs[j].zones : jobs[j].since[user] <= editions[user]
                        /\ \A user \in DOMAIN jobs[j].zones \ jobs[j].left : Captured(j, user)'
                        /\ jobs'[j].state = "ended" => jobs[j].left = {}
        BY <1>7 DEF JobsProgress
    <2>1. \A user : Captured(j, user)' <=> Captured(j, user)
        BY <1>7, <1>8 DEF Captured
    <2>2. jobs'[j].state = "ended" => jobs[j].state = "ended"
        BY <1>3, <1>4
    <2> QED BY <2>1, <2>2 DEF SnapshotInv, JobsProgress
<1>13. SnapshotsAreWhole'
    BY DEF SnapshotInv, SnapshotsAreWhole
<1> QED BY <1>6, <1>9, <1>10, <1>11, <1>12, <1>13 DEF SnapshotInv

\* What a commit leaves of the label: the team it has read alone.
LEMMA CommitIsWhole ==
    ASSUME SnapshotInv, NEW c \in Captures, CommitSnapshot(c)
    PROVE  LET label == captures[c].label
           IN /\ DOMAIN snapshots' = DOMAIN snapshots \cup {label}
              /\ snapshots'[label] = [captured |-> captures[c].began, members |-> {captures[c].team}]
              /\ \A l \in DOMAIN snapshots \ {label} : snapshots'[l] = snapshots[l]
              /\ label \in Labels /\ captures[c].began \in Nat /\ captures[c].team \in Nat
              /\ captures[c].team \in captures[c].began..editions[label.user]
              /\ \A old \in MembersOf(label) : old <= captures[c].team
<1> DEFINE label == captures[c].label
<1>1. CaptureKnows(c) /\ captures[c] \in CaptureRecords
    BY SnapshotsTyped DEF SnapshotInv, CapturesKnow, CommitSnapshot
<1>2. /\ label \in Labels /\ captures[c].began \in Nat /\ captures[c].team \in Nat
      /\ captures[c].cleared = MembersOf(label)
      /\ captures[c].team \in captures[c].began..editions[label.user]
      /\ \A old \in MembersOf(label) : old <= captures[c].team
    BY <1>1 DEF CaptureKnows, CaptureRecords, CommitSnapshot
<1>3. (MembersOf(label) \ captures[c].cleared) \cup {captures[c].team} = {captures[c].team}
    BY <1>2
<1>4. snapshots' = [l \in DOMAIN snapshots \cup {label} |->
                        IF l = label THEN [captured |-> captures[c].began,
                                           members |-> {captures[c].team}]
                        ELSE snapshots[l]]
    BY <1>3 DEF CommitSnapshot
<1> HIDE DEF label
<1> QED BY <1>2, <1>4 DEF label

LEMMA CommitPreserves ==
    ASSUME SnapshotInv, NEW c \in Captures, CommitSnapshot(c)
    PROVE  SnapshotInv'
<1> DEFINE label == captures[c].label
           team == captures[c].team
<1>1. /\ captures \in [Captures -> CaptureRecords] /\ jobs \in [Jobs -> JobRecords]
      /\ editions \in [Users -> Nat] /\ editions' = editions
    BY SnapshotsTyped DEF SnapshotInv, CommitSnapshot
<1>2. /\ DOMAIN snapshots' = DOMAIN snapshots \cup {label}
      /\ snapshots'[label] = [captured |-> captures[c].began, members |-> {team}]
      /\ \A l \in DOMAIN snapshots \ {label} : snapshots'[l] = snapshots[l]
      /\ label \in Labels /\ captures[c].began \in Nat /\ team \in Nat
      /\ team \in captures[c].began..editions[label.user]
      /\ \A old \in MembersOf(label) : old <= team
    BY CommitIsWhole
<1>3. /\ captures' \in [Captures -> CaptureRecords] /\ captures'[c].next = "idle"
      /\ \A d \in Captures \ {c} : captures'[d] = captures[d]
    BY <1>1, IdleTyped DEF CommitSnapshot
<1>4. captures[c].next = "commit" /\ Holds(c)
    BY DEF CommitSnapshot, Holds
<1>5. \A j \in Jobs \ {c} : jobs'[j] = jobs[j]
    BY DEF CommitSnapshot, FailsJob
<1>6. ASSUME c \in Jobs
      PROVE  /\ jobs'[c] \in JobRecords /\ jobs'[c].state \in {"running", "failed"}
             /\ jobs'[c].zones = jobs[c].zones /\ jobs[c].left \ {label.user} \subseteq jobs'[c].left
             /\ jobs'[c].left \subseteq jobs[c].left
             /\ jobs'[c].since = jobs[c].since /\ jobs'[c].now = jobs[c].now
    <2>1. jobs[c].state = "running" /\ jobs[c] \in JobRecords
        BY <1>1, <1>4, <1>6 DEF SnapshotInv, JobsKnow, JobKnows
    <2>2. \/ jobs'[c] = [jobs[c] EXCEPT !.state = "failed"]
          \/ jobs'[c] = [jobs[c] EXCEPT !.left = @ \ {label.user}]
        BY <1>6 DEF CommitSnapshot, FailsJob
    <2> QED BY <2>1, <2>2 DEF JobRecords
<1>7. jobs' \in [Jobs -> JobRecords]
    <2>1. \A j \in Jobs : jobs'[j] \in JobRecords
        BY <1>1, <1>5, <1>6
    <2>2. jobs' = [j \in Jobs |-> jobs'[j]]
        BY DEF CommitSnapshot, FailsJob
    <2> QED BY <2>1, <2>2
<1> HIDE DEF label, team
<1>8. SnapshotTypeOK'
    <2>1. \A l \in DOMAIN snapshots' : snapshots'[l] \in [captured : Nat, members : SUBSET Nat]
        BY <1>2, SnapshotsTyped DEF SnapshotInv
    <2>2. DOMAIN snapshots' \subseteq Labels
        BY <1>2, SnapshotsTyped DEF SnapshotInv
    <2>3. editions' \in [Users -> Nat]
        BY <1>1
    <2> QED BY <1>3, <1>7, <2>1, <2>2, <2>3 DEF SnapshotTypeOK, CaptureRecords, JobRecords, ZoneChoices
<1>9. \A j \in Jobs : /\ jobs'[j].zones = jobs[j].zones /\ jobs'[j].since = jobs[j].since
                      /\ jobs'[j].now = jobs[j].now
    BY <1>5, <1>6
<1>10. \A j \in Jobs : \A user : LabelOf(j, user)' = LabelOf(j, user)
    BY <1>9 DEF LabelOf, JobMonth
<1>11. RowsAreExclusive'
    BY <1>3 DEF SnapshotInv, RowsAreExclusive, Holds
<1>12. CapturesKnow'
    <2> SUFFICES ASSUME NEW d \in Captures \ {c}, captures[d].next # "idle" PROVE CaptureKnows(d)'
        BY <1>3 DEF CapturesKnow
    <2>1. CaptureKnows(d) /\ captures'[d] = captures[d]
        BY <1>3 DEF SnapshotInv, CapturesKnow
    <2>2. captures[d].next \in {"read", "commit"} => captures[d].label # label
        BY <1>4 DEF SnapshotInv, RowsAreExclusive, Holds, label
    <2>3. captures[d].label # label => MembersOf(captures[d].label)' = MembersOf(captures[d].label)
        BY <1>2, <2>1 DEF MembersOf
    <2> QED BY <1>1, <2>1, <2>2, <2>3 DEF CaptureKnows
<1>13. JobsKnow'
    <2> SUFFICES ASSUME NEW j \in Jobs, captures'[j].next # "idle" PROVE JobKnows(j)'
        BY DEF JobsKnow
    <2>1. j # c /\ captures'[j] = captures[j] /\ jobs'[j] = jobs[j]
        BY <1>3, <1>5 DEF Captures
    <2>2. JobKnows(j)
        BY <2>1 DEF SnapshotInv, JobsKnow
    <2> QED BY <1>10, <2>1, <2>2 DEF JobKnows
<1>14. ASSUME NEW j \in Jobs, NEW user \in DOMAIN jobs[j].zones, Captured(j, user)
       PROVE  Captured(j, user)'
    <2>1. user \in Users /\ jobs[j].since[user] \in Nat
        <3>1. jobs[j] \in JobRecords
            BY <1>1
        <3> QED BY <3>1, ZonesChosen DEF JobRecords
    <2>2. CASE LabelOf(j, user) = label
        <3>1. PICK old \in snapshots[label].captured..editions[label.user] :
                    snapshots[label].members = {old}
            BY <1>14, <2>2 DEF SnapshotInv, SnapshotsAreWhole, Captured
        <3>2. jobs[j].since[user] <= old /\ old <= team
            BY <1>2, <1>14, <2>2, <3>1 DEF Captured, MembersOf
        <3>3. snapshots[label].captured \in Nat
            BY <1>14, <2>2, SnapshotsTyped DEF SnapshotInv, Captured
        <3>4. old \in Int /\ team \in Int
            BY <1>2, <3>1, <3>3
        <3>5. jobs[j].since[user] <= team
            BY <2>1, <3>2, <3>4
        <3> QED BY <1>2, <1>9, <1>10, <2>2, <3>5 DEF Captured
    <2>3. CASE LabelOf(j, user) # label
        BY <1>2, <1>9, <1>10, <1>14, <2>3 DEF Captured
    <2> QED BY <2>2, <2>3
<1>15. ASSUME c \in Jobs, NEW user, user = label.user PROVE Captured(c, user)'
    <2>1. JobKnows(c)
        BY <1>4, <1>15 DEF SnapshotInv, JobsKnow
    <2>2. label = LabelOf(c, user) /\ jobs[c].since[user] <= captures[c].began
        BY <1>15, <2>1 DEF JobKnows, label
    <2>3. jobs[c].since[user] \in Nat
        <3>1. jobs[c] \in JobRecords /\ user \in Users
            BY <1>1, <1>2, <1>15 DEF Labels
        <3> QED BY <3>1 DEF JobRecords
    <2>4. jobs[c].since[user] <= team
        BY <1>2, <2>2, <2>3
    <2> QED BY <1>2, <1>9, <1>10, <1>15, <2>2, <2>4 DEF Captured
<1>16. JobsProgress'
    <2> SUFFICES ASSUME NEW j \in Jobs
                 PROVE  /\ jobs'[j].left \subseteq DOMAIN jobs[j].zones
                        /\ \A user \in DOMAIN jobs[j].zones : jobs[j].since[user] <= editions[user]
                        /\ \A user \in DOMAIN jobs[j].zones \ jobs'[j].left : Captured(j, user)'
                        /\ jobs'[j].state = "ended" => jobs'[j].left = {}
        BY <1>1, <1>9 DEF JobsProgress
    <2>1. ASSUME NEW user \in DOMAIN jobs[j].zones \ jobs'[j].left PROVE Captured(j, user)'
        <3>1. CASE j = c /\ user = label.user
            <4>1. c \in Jobs /\ user = label.user
                BY <3>1
            <4> QED BY <1>15, <3>1, <4>1
        <3>2. CASE ~(j = c /\ user = label.user)
            <4>1. user \notin jobs[j].left
                BY <1>5, <1>6, <2>1, <3>2
            <4>2. Captured(j, user)
                BY <2>1, <4>1 DEF SnapshotInv, JobsProgress
            <4> QED BY <1>14, <2>1, <4>2
        <3> QED BY <3>1, <3>2
    <2>2. jobs'[j].state = "ended" => jobs'[j].left = {}
        <3>1. CASE j = c
            BY <1>6, <3>1
        <3>2. CASE j # c
            BY <1>5, <3>2 DEF SnapshotInv, JobsProgress
        <3> QED BY <3>1, <3>2
    <2>3. jobs'[j].left \subseteq jobs[j].left
        BY <1>5, <1>6
    <2> QED BY <2>1, <2>2, <2>3 DEF SnapshotInv, JobsProgress
<1>17. SnapshotsAreWhole'
    <2> SUFFICES ASSUME NEW l \in DOMAIN snapshots'
                 PROVE  \E t \in snapshots'[l].captured..editions[l.user] : snapshots'[l].members = {t}
        BY <1>1 DEF SnapshotsAreWhole
    <2>1. CASE l = label
        BY <1>2, <2>1
    <2>2. CASE l # label
        BY <1>2, <2>2 DEF SnapshotInv, SnapshotsAreWhole
    <2> QED BY <2>1, <2>2
<1> QED BY <1>8, <1>11, <1>12, <1>13, <1>16, <1>17 DEF SnapshotInv

\* A job begins with what there is, and ends when no account is left.
LEMMA JobsPreserve ==
    ASSUME SnapshotInv, NEW j \in Jobs, StartJob(j) \/ EndJob(j)
    PROVE  SnapshotInv'
<1>1. /\ jobs \in [Jobs -> JobRecords] /\ editions \in [Users -> Nat]
      /\ UNCHANGED <<editions, snapshots, captures>>
    BY SnapshotsTyped DEF SnapshotInv, StartJob, EndJob
<1>2. captures[j].next = "idle"
    BY DEF StartJob, EndJob, SnapshotInv, JobsKnow, JobKnows
<1>3. /\ jobs'[j] \in JobRecords /\ jobs'[j].left \subseteq DOMAIN jobs'[j].zones
      /\ \A user \in DOMAIN jobs'[j].zones : jobs'[j].since[user] <= editions[user]
      /\ \A user \in DOMAIN jobs'[j].zones \ jobs'[j].left : Captured(j, user)'
      /\ jobs'[j].state = "ended" => jobs'[j].left = {}
      /\ jobs' = [jobs EXCEPT ![j] = jobs'[j]]
    <2>1. CASE StartJob(j)
        <3>1. PICK now \in Instants, active \in SUBSET Users :
                \E zones \in [active -> Zones] :
                jobs' = [jobs EXCEPT ![j] = [state |-> "running", now |-> now, left |-> active,
                                             zones |-> zones, since |-> editions]]
            BY <2>1 DEF StartJob
        <3>2. PICK zones \in [active -> Zones] :
                jobs' = [jobs EXCEPT ![j] = [state |-> "running", now |-> now, left |-> active,
                                             zones |-> zones, since |-> editions]]
            BY <3>1
        <3> DEFINE begun == [state |-> "running", now |-> now, left |-> active,
                             zones |-> zones, since |-> editions]
        <3>3. zones \in ZoneChoices /\ now \in Int
            BY SnapshotAssumption DEF ZoneChoices
        <3>4. begun \in JobRecords
            BY <1>1, <3>3 DEF JobRecords
        <3>5. jobs'[j] = begun
            BY <1>1, <3>2
        <3>6. DOMAIN zones = active
            OBVIOUS
        <3>7. /\ begun.zones = zones /\ begun.left = active /\ begun.since = editions
              /\ begun.state = "running" /\ \A user \in active : editions[user] <= editions[user]
            BY <1>1
        <3>8. jobs' = [jobs EXCEPT ![j] = begun]
            BY <3>2
        <3> HIDE DEF begun
        <3> QED BY <3>4, <3>5, <3>6, <3>7, <3>8
    <2>2. CASE EndJob(j)
        <3>1. jobs'[j] = [jobs[j] EXCEPT !.state = "ended"] /\ jobs[j] \in JobRecords
              /\ jobs' = [jobs EXCEPT ![j] = jobs'[j]]
            BY <1>1, <2>2 DEF EndJob
        <3>2. /\ jobs'[j] \in JobRecords /\ jobs'[j].zones = jobs[j].zones /\ jobs'[j].left = {}
              /\ jobs'[j].since = jobs[j].since /\ jobs'[j].now = jobs[j].now /\ jobs[j].left = {}
            BY <2>2, <3>1 DEF JobRecords, EndJob
        <3>3. \A user : Captured(j, user)' <=> Captured(j, user)
            BY <1>1, <3>2 DEF Captured, LabelOf, JobMonth
        <3> QED BY <3>1, <3>2, <3>3 DEF SnapshotInv, JobsProgress
    <2> QED BY <2>1, <2>2
<1>4. jobs' \in [Jobs -> JobRecords] /\ \A i \in Jobs \ {j} : jobs'[i] = jobs[i]
    BY <1>1, <1>3
<1>5. SnapshotTypeOK'
    BY <1>1, <1>4 DEF SnapshotInv, SnapshotTypeOK, JobRecords, ZoneChoices
<1>6. RowsAreExclusive' /\ CapturesKnow' /\ SnapshotsAreWhole'
    BY <1>1 DEF SnapshotInv, RowsAreExclusive, Holds, CapturesKnow, CaptureKnows, MembersOf, SnapshotsAreWhole
<1>7. JobsKnow'
    <2> SUFFICES ASSUME NEW i \in Jobs, captures[i].next # "idle" PROVE JobKnows(i)'
        BY <1>1 DEF JobsKnow
    <2>1. i # j /\ jobs'[i] = jobs[i]
        BY <1>2, <1>4
    <2> QED BY <1>1, <2>1 DEF SnapshotInv, JobsKnow, JobKnows, LabelOf, JobMonth
<1>8. JobsProgress'
    <2> SUFFICES ASSUME NEW i \in Jobs, i # j
                 PROVE  /\ jobs[i].left \subseteq DOMAIN jobs[i].zones
                        /\ \A user \in DOMAIN jobs[i].zones : jobs[i].since[user] <= editions[user]
                        /\ \A user \in DOMAIN jobs[i].zones \ jobs[i].left : Captured(i, user)'
                        /\ jobs[i].state = "ended" => jobs[i].left = {}
        BY <1>1, <1>3, <1>4 DEF JobsProgress
    <2>1. \A user : Captured(i, user)' <=> Captured(i, user)
        BY <1>1, <1>4 DEF Captured, LabelOf, JobMonth
    <2> QED BY <2>1 DEF SnapshotInv, JobsProgress
<1> QED BY <1>5, <1>6, <1>7, <1>8 DEF SnapshotInv

LEMMA SnapshotInductive == SnapshotInv /\ [SnapshotNext]_snapshotVars => SnapshotInv'
<1> SUFFICES ASSUME SnapshotInv, [SnapshotNext]_snapshotVars PROVE SnapshotInv'
    OBVIOUS
<1>1. CASE UNCHANGED snapshotVars
    <2>1. UNCHANGED <<editions, snapshots, captures, jobs>>
        BY <1>1 DEF snapshotVars
    <2> QED BY <2>1 DEF SnapshotInv, SnapshotTypeOK, RowsAreExclusive, Holds, CapturesKnow, CaptureKnows,
                        MembersOf, JobsKnow, JobKnows, LabelOf, JobMonth, JobsProgress, Captured,
                        SnapshotsAreWhole
<1>2. ASSUME NEW c \in Captures, FailSnapshot(c) PROVE SnapshotInv'
    <2>1. /\ captures' \in [Captures -> CaptureRecords] /\ captures'[c].next = "idle"
          /\ \A d \in Captures \ {c} : captures'[d] = captures[d]
        BY <1>2, SnapshotsTyped, IdleTyped DEF FailSnapshot, SnapshotInv
    <2> QED BY <1>2, <2>1, CaptureEnds DEF FailSnapshot
<1>3. ASSUME NEW j \in Jobs, FailJob(j) PROVE SnapshotInv'
    <2>1. /\ captures' \in [Captures -> CaptureRecords] /\ captures'[j].next = "idle"
          /\ \A d \in Captures \ {j} : captures'[d] = captures[d]
        BY <1>3, SnapshotsTyped DEF FailJob, SnapshotInv
    <2> QED BY <1>3, <2>1, CaptureEnds DEF FailJob, Captures
<1>4. ASSUME NEW c \in Captors, RequestSnapshot(c) PROVE SnapshotInv'
    <2>1. PICK user \in Users, day \in Chosen, type \in SnapshotTypes : CreateSnapshot(c, user, day, type)
        BY <1>4 DEF RequestSnapshot
    <2>2. day \in Int /\ c \in Captures /\ c \notin Jobs
        BY SnapshotAssumption DEF Captures
    <2> QED BY <1>4, <2>1, <2>2, CaptureBegins DEF RequestSnapshot
<1>5. ASSUME NEW j \in Jobs, CaptureNext(j) PROVE SnapshotInv'
    <2>1. PICK user \in jobs[j].left : CreateSnapshot(j, user, JobMonth(j, user), "AUTO")
        BY <1>5 DEF CaptureNext
    <2>2. jobs[j] \in JobRecords
        BY SnapshotsTyped DEF SnapshotInv
    <2>3. user \in DOMAIN jobs[j].zones /\ user \in Users
        BY <2>2, ZonesChosen DEF SnapshotInv, JobsProgress, JobRecords
    <2>4. JobMonth(j, user) \in Int
        BY <2>3, LabelsTyped DEF SnapshotInv
    <2> QED BY <1>5, <2>1, <2>3, <2>4, CaptureBegins DEF CaptureNext, Captures, SnapshotTypes
<1> QED BY <1>1, <1>2, <1>3, <1>4, <1>5, TeamChanges, StatementsPreserve, CommitPreserves, JobsPreserve
        DEF SnapshotNext

\* Teams, snapshots, transactions and jobs keep their types.
THEOREM SnapshotTypesKept == SnapshotSpec => []SnapshotTypeOK
<1>1. SnapshotInv => SnapshotTypeOK
    BY DEF SnapshotInv
<1> QED BY <1>1, SnapshotInitially, SnapshotInductive, PTL DEF SnapshotSpec

\* A snapshot is one team, as it was at one moment that is not before the time
\* it was captured at, whatever captures of the same month overlap or fail.
THEOREM SnapshotsStayWhole == SnapshotSpec => []SnapshotsAreWhole
<1>1. SnapshotInv => SnapshotsAreWhole
    BY DEF SnapshotInv
<1> QED BY <1>1, SnapshotInitially, SnapshotInductive, PTL DEF SnapshotSpec

\* A capture that waited for another one of the same month does not put back
\* an older team, and no snapshot is lost.
THEOREM CapturesAreInOrder == SnapshotSpec => SnapshotsGrowNewer
<1>1. SnapshotInv /\ [SnapshotNext]_snapshotVars
      => [\A l \in DOMAIN snapshots :
            /\ l \in DOMAIN snapshots'
            /\ \A old \in snapshots[l].members, fresh \in snapshots'[l].members : old <= fresh]_snapshotVars
    <2> SUFFICES ASSUME SnapshotInv, [SnapshotNext]_snapshotVars
                 PROVE  \A l \in DOMAIN snapshots :
                          /\ l \in DOMAIN snapshots'
                          /\ \A old \in snapshots[l].members, fresh \in snapshots'[l].members : old <= fresh
        OBVIOUS
    <2>1. CASE \E c \in Captures : CommitSnapshot(c)
        <3>1. PICK c \in Captures : CommitSnapshot(c)
            BY <2>1
        <3>2. ASSUME NEW l \in DOMAIN snapshots
              PROVE  /\ l \in DOMAIN snapshots'
                     /\ \A old \in snapshots[l].members, fresh \in snapshots'[l].members : old <= fresh
            <4>1. l \in DOMAIN snapshots'
                BY <3>1, CommitIsWhole
            <4>2. CASE l = captures[c].label
                <5>1. snapshots'[l] = [captured |-> captures[c].began, members |-> {captures[c].team}]
                    BY <3>1, <4>2, CommitIsWhole
                <5>2. MembersOf(l) = snapshots[l].members
                    BY DEF MembersOf
                <5>3. \A old \in MembersOf(l) : old <= captures[c].team
                    BY <3>1, <4>2, CommitIsWhole
                <5> QED BY <4>1, <5>1, <5>2, <5>3
            <4>3. CASE l # captures[c].label
                <5>1. snapshots'[l] = snapshots[l]
                    BY <3>1, <4>3, CommitIsWhole
                <5>2. PICK team \in snapshots[l].captured..editions[l.user] : snapshots[l].members = {team}
                    BY DEF SnapshotInv, SnapshotsAreWhole
                <5> QED BY <4>1, <5>1, <5>2
            <4> QED BY <4>2, <4>3
        <3> QED BY <3>2
    <2>2. CASE snapshots' = snapshots
        <3>1. ASSUME NEW l \in DOMAIN snapshots, NEW old \in snapshots[l].members, NEW fresh \in snapshots[l].members
              PROVE  old <= fresh
            <4>1. PICK team \in snapshots[l].captured..editions[l.user] : snapshots[l].members = {team}
                BY DEF SnapshotInv, SnapshotsAreWhole
            <4> QED BY <4>1
        <3> QED BY <2>2, <3>1
    <2>3. (\E c \in Captures : CommitSnapshot(c)) \/ snapshots' = snapshots
        BY DEF SnapshotNext, snapshotVars, ChangeTeam, UpsertSnapshot, ClearMembers, ReadTeam,
                    FailSnapshot, RequestSnapshot, StartJob, CaptureNext, EndJob, FailJob
    <2> QED BY <2>1, <2>2, <2>3
<1> QED BY <1>1, SnapshotInitially, SnapshotInductive, PTL DEF SnapshotSpec, SnapshotsGrowNewer

\* A job that ended well has a snapshot of the team of every account that was
\* active at its start, none of them older than the job.
THEOREM JobsCaptureAll == SnapshotSpec => []JobsAreComplete
<1>1. SnapshotInv => JobsAreComplete
    BY DEF SnapshotInv, JobsProgress, JobsAreComplete, Captured
<1> QED BY <1>1, SnapshotInitially, SnapshotInductive, PTL DEF SnapshotSpec

\* The month of the job's snapshots is the one just finished west of Greenwich
\* and the one before it to the east, for every account whose month began at
\* midnight.
THEOREM MonthsAreExplained == SnapshotSpec => []LabelsAreExplained
<1>1. SnapshotInv => LabelsAreExplained
    <2> SUFFICES ASSUME SnapshotInv, NEW j \in Jobs, NEW user \in DOMAIN jobs[j].zones,
                        ShowsMidnight(jobs[j].zones[user], LocalMonth(jobs[j].now, jobs[j].zones[user]))
                 PROVE  MonthStart(JobMonth(j, user)) = ExplainedMonth(jobs[j].now, jobs[j].zones[user])
        BY DEF LabelsAreExplained
    <2>1. jobs[j].now \in Int /\ jobs[j].zones \in ZoneChoices
        BY SnapshotsTyped DEF SnapshotInv, JobRecords
    <2>2. IsZone(jobs[j].zones[user])
        BY <2>1, ZonesChosen
    <2> QED BY <2>1, <2>2, MonthExplained DEF JobMonth
<1> QED BY <1>1, SnapshotInitially, SnapshotInductive, PTL DEF SnapshotSpec
=============================================================================
