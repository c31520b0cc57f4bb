------------------------------- MODULE Forest -------------------------------
(***************************************************************************)
(* Rows with a parent column, as team_members and goals have it. A table   *)
(* is a function from ids to the parent, to Root (NULL), or to Absent when *)
(* there is no such row; neither Root nor Absent is an id.                 *)
(***************************************************************************)

Children(parent, m) == {x \in DOMAIN parent : parent[x] = m}

\* With a row, the set holds those under it.
ClosedDown(parent, S) == \A x \in DOMAIN parent : parent[x] \in S => x \in S

\* The fixed point of the recursive query, and what ON DELETE CASCADE reaches.
Descendants(parent, m) ==
    {x \in DOMAIN parent : \A S \in SUBSET DOMAIN parent :
                                m \in S /\ ClosedDown(parent, S) => x \in S}

\* Going up from any row ends: no set of rows has all its parents inside.
Acyclic(parent) ==
    \A S \in SUBSET DOMAIN parent : S # {} => \E x \in S : parent[x] \notin S

\* Those above a row.
Ancestors(parent, m) == {x \in DOMAIN parent : x # m /\ m \in Descendants(parent, x)}
=============================================================================
