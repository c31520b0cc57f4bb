---------------------------- MODULE OperatorProofs ---------------------------
(***************************************************************************)
(* Facts about the operators that several modules are built from.          *)
(*                                                                         *)
(*   Forest: tables with a parent column, for any set of ids: what the set *)
(*     below a row contains, and which changes keep it free of cycles.     *)
(*   Calendar: months and years follow one another without a gap, and      *)
(*     YearOf and MonthOf find those of every day, before 1970 too.        *)
(***************************************************************************)
EXTENDS Forest, Calendar, TLAPS

-----------------------------------------------------------------------------
(* Forest                                                                  *)

\* A row is counted among those below it.
LEMMA BelowItself ==
    ASSUME NEW parent, NEW m \in DOMAIN parent
    PROVE  m \in Descendants(parent, m)
BY DEF Descendants

\* Whoever has a parent below a row is below that row.
LEMMA BelowIsClosedDown ==
    ASSUME NEW parent, NEW m
    PROVE  ClosedDown(parent, Descendants(parent, m))
<1> SUFFICES ASSUME NEW x \in DOMAIN parent, parent[x] \in Descendants(parent, m)
             PROVE  x \in Descendants(parent, m)
    BY DEF ClosedDown
<1> SUFFICES ASSUME NEW S \in SUBSET DOMAIN parent, m \in S, ClosedDown(parent, S)
             PROVE  x \in S
    BY DEF Descendants
<1>1. parent[x] \in S
    BY DEF Descendants
<1> QED BY <1>1 DEF ClosedDown

\* Going one step up from below a row stays below it, unless it starts at the row.
LEMMA BelowIsReachedFromAbove ==
    ASSUME NEW parent, NEW m \in DOMAIN parent,
           NEW x \in Descendants(parent, m), x # m
    PROVE  parent[x] \in Descendants(parent, m)
<1> DEFINE D == Descendants(parent, m)
           S == {y \in D : y = m \/ parent[y] \in D}
<1>1. m \in S
    BY BelowItself
<1>2. ClosedDown(parent, S)
    BY BelowIsClosedDown DEF ClosedDown
<1>3. S \in SUBSET DOMAIN parent
    BY DEF Descendants
<1>4. x \in S
    BY <1>1, <1>2, <1>3 DEF Descendants
<1> QED BY <1>4

\* What is below one that is below a row is below that row.
LEMMA BelowIsTransitive ==
    ASSUME NEW parent, NEW m, NEW c \in Descendants(parent, m)
    PROVE  Descendants(parent, c) \subseteq Descendants(parent, m)
<1>1. ClosedDown(parent, Descendants(parent, m))
    BY BelowIsClosedDown
<1>2. Descendants(parent, m) \in SUBSET DOMAIN parent
    BY DEF Descendants
<1> SUFFICES ASSUME NEW x \in Descendants(parent, c) PROVE x \in Descendants(parent, m)
    OBVIOUS
<1> DEFINE D == Descendants(parent, m)
<1>3. D \in SUBSET DOMAIN parent /\ c \in D /\ ClosedDown(parent, D)
    BY <1>1, <1>2
<1> HIDE DEF D
<1>4. x \in D
    BY <1>3 DEF Descendants
<1> QED BY <1>4 DEF D

\* Without cycles, the parent of a row is not below it.
LEMMA ParentIsNotBelow ==
    ASSUME NEW parent, NEW m \in DOMAIN parent, Acyclic(parent)
    PROVE  parent[m] \notin Descendants(parent, m)
<1> SUFFICES ASSUME parent[m] \in Descendants(parent, m) PROVE FALSE
    OBVIOUS
<1>1. \A x \in Descendants(parent, m) : parent[x] \in Descendants(parent, m)
    BY BelowIsReachedFromAbove
<1>2. Descendants(parent, m) \in SUBSET DOMAIN parent /\ Descendants(parent, m) # {}
    BY BelowItself DEF Descendants
<1> QED BY <1>1, <1>2 DEF Acyclic

\* A row without children has nobody else below it.
LEMMA NothingBelowALeaf ==
    ASSUME NEW parent, NEW m \in DOMAIN parent, Children(parent, m) = {}
    PROVE  Descendants(parent, m) = {m}
<1>1. ClosedDown(parent, {m})
    BY DEF ClosedDown, Children
<1>2. Descendants(parent, m) \subseteq {m}
    BY <1>1 DEF Descendants
<1> QED BY <1>2, BelowItself

\* A row may move under any row that is not below it.
LEMMA MoveKeepsAcyclic ==
    ASSUME NEW parent, NEW m \in DOMAIN parent, NEW p,
           Acyclic(parent), p \notin Descendants(parent, m)
    PROVE  Acyclic([parent EXCEPT ![m] = p])
<1> DEFINE moved == [parent EXCEPT ![m] = p]
           D == Descendants(parent, m)
<1> SUFFICES ASSUME NEW S \in SUBSET DOMAIN parent, S # {}, \A x \in S : moved[x] \in S
             PROVE  FALSE
    BY DEF Acyclic
<1>1. CASE m \notin S
    <2>1. \A x \in S : parent[x] \in S
        BY <1>1
    <2> QED BY <2>1 DEF Acyclic
<1>2. CASE m \in S
    <2>1. p \in S \ D
        BY <1>2
    <2>2. \A x \in S \ D : parent[x] \in S \ D
        <3> SUFFICES ASSUME NEW x \in S, x \notin D
                     PROVE  parent[x] \in S /\ parent[x] \notin D
            OBVIOUS
        <3>1. x # m
            BY BelowItself
        <3>2. parent[x] \in S
            BY <3>1
        <3>3. parent[x] \notin D
            BY BelowIsClosedDown DEF ClosedDown
        <3> QED BY <3>2, <3>3
    <2>3. S \ D # {} /\ S \ D \in SUBSET DOMAIN parent
        BY <2>1
    <2> HIDE DEF D
    <2> QED BY <2>2, <2>3 DEF Acyclic
<1> QED BY <1>1, <1>2

\* Rows may go, or lose their parents.
LEMMA CutKeepsAcyclic ==
    ASSUME NEW parent, NEW cut, DOMAIN cut = DOMAIN parent, Acyclic(parent),
           \A x \in DOMAIN parent : cut[x] \in DOMAIN parent => cut[x] = parent[x]
    PROVE  Acyclic(cut)
<1> SUFFICES ASSUME NEW S \in SUBSET DOMAIN parent, S # {}, \A x \in S : cut[x] \in S
             PROVE  FALSE
    BY DEF Acyclic
<1>1. \A x \in S : parent[x] \in S
    OBVIOUS
<1> QED BY <1>1 DEF Acyclic

\* A row may go when its children move to its parent.
LEMMA PromotionKeepsAcyclic ==
    ASSUME NEW parent, NEW after, NEW m \in DOMAIN parent,
           DOMAIN after = DOMAIN parent, Acyclic(parent),
           after[m] \notin DOMAIN parent,
           \A x \in Children(parent, m) \ {m} : after[x] = parent[m],
           \A x \in DOMAIN parent \ (Children(parent, m) \cup {m}) : after[x] = parent[x]
    PROVE  Acyclic(after)
<1> SUFFICES ASSUME NEW S \in SUBSET DOMAIN parent, S # {}, \A x \in S : after[x] \in S
             PROVE  FALSE
    BY DEF Acyclic
<1>1. m \notin S
    OBVIOUS
<1>2. CASE S \cap Children(parent, m) = {}
    <2>1. \A x \in S : parent[x] \in S
        BY <1>1, <1>2
    <2> QED BY <2>1 DEF Acyclic
<1>3. CASE S \cap Children(parent, m) # {}
    <2>1. parent[m] \in S
        BY <1>1, <1>3
    <2>2. \A x \in S : parent[x] \in S \cup {m}
        BY <1>1 DEF Children
    <2>3. S \cup {m} \in SUBSET DOMAIN parent
        OBVIOUS
    <2> QED BY <2>1, <2>2, <2>3 DEF Acyclic
<1> QED BY <1>2, <1>3

\* Then everyone else keeps exactly the others that were above him.
LEMMA PromotionKeepsAbove ==
    ASSUME NEW parent, NEW after, NEW m \in DOMAIN parent, parent[m] # m,
           DOMAIN after = DOMAIN parent, after[m] \notin DOMAIN parent,
           \A x \in Children(parent, m) : after[x] = parent[m],
           \A x \in DOMAIN parent \ (Children(parent, m) \cup {m}) : after[x] = parent[x],
           NEW x \in DOMAIN parent \ {m}
    PROVE  Ancestors(after, x) = Ancestors(parent, x) \ {m}
<1>1. ASSUME NEW y \in DOMAIN parent, x \in Descendants(after, y)
      PROVE  x \in Descendants(parent, y)
    <2> DEFINE D == Descendants(parent, y)
    <2>1. y \in D /\ ClosedDown(parent, D) /\ D \in SUBSET DOMAIN parent
        BY BelowItself, BelowIsClosedDown DEF Descendants
    <2> HIDE DEF D
    <2>2. ASSUME NEW z \in DOMAIN parent, after[z] \in D PROVE z \in D
        <3>1. z # m
            BY <2>1, <2>2
        <3>2. CASE parent[z] = m
            <4>1. parent[m] \in D
                BY <2>2, <3>2 DEF Children
            <4>2. m \in D
                BY <2>1, <4>1 DEF ClosedDown
            <4> QED BY <2>1, <3>2, <4>2 DEF ClosedDown
        <3>3. CASE parent[z] # m
            BY <2>1, <2>2, <3>1, <3>3 DEF Children, ClosedDown
        <3> QED BY <3>2, <3>3
    <2>3. ClosedDown(after, D)
        BY <2>2 DEF ClosedDown
    <2>4. x \in D
        BY <1>1, <2>1, <2>3 DEF Descendants
    <2> QED BY <2>4 DEF D
<1>2. ASSUME NEW y \in DOMAIN parent \ {m}, x \in Descendants(parent, y)
      PROVE  x \in Descendants(after, y)
    <2> DEFINE A == Descendants(after, y)
               S == A \cup {z \in {m} : parent[m] \in A}
    <2>1. y \in A /\ ClosedDown(after, A) /\ A \in SUBSET DOMAIN parent
        BY BelowItself, BelowIsClosedDown DEF Descendants
    <2>2. m \notin A
        <3>1. m \in A => after[m] \in A
            BY BelowIsReachedFromAbove
        <3> QED BY <2>1, <3>1
    <2> HIDE DEF A
    <2>3. ASSUME NEW z \in DOMAIN parent, parent[z] \in S PROVE z \in S
        <3>1. CASE parent[z] = m
            <4>1. parent[m] \in A /\ after[z] = parent[m]
                BY <2>2, <2>3, <3>1 DEF Children
            <4> QED BY <2>1, <4>1 DEF ClosedDown
        <3>2. CASE parent[z] # m /\ z = m
            BY <2>3, <3>2
        <3>3. CASE parent[z] # m /\ z # m
            <4>1. after[z] \in A
                BY <2>3, <3>3 DEF Children
            <4> QED BY <2>1, <4>1 DEF ClosedDown
        <3> QED BY <3>1, <3>2, <3>3
    <2>4. ClosedDown(parent, S) /\ y \in S /\ S \in SUBSET DOMAIN parent
        BY <2>1, <2>3 DEF ClosedDown
    <2> HIDE DEF S
    <2>5. x \in S
        BY <1>2, <2>4 DEF Descendants
    <2>6. x \in A
        BY <2>5 DEF S
    <2> QED BY <2>6 DEF A
<1>3. x \notin Descendants(after, m)
    <2>1. Children(after, m) = {}
        BY DEF Children
    <2> QED BY <2>1, NothingBelowALeaf
<1>4. ASSUME NEW y \in DOMAIN parent
      PROVE  y \in Ancestors(after, x) <=> y \in Ancestors(parent, x) \ {m}
    BY <1>1, <1>2, <1>3 DEF Ancestors
<1> QED BY <1>4 DEF Ancestors

-----------------------------------------------------------------------------
(* Calendar                                                                *)

\* Leap years are at most one year apart from their average of 97 in 400.
LEMMA LeapYearsGrow ==
    ASSUME NEW y \in Int
    PROVE  /\ LeapYears(y) \in Int
           /\ LeapYears(y) - LeapYears(y - 1) \in {0, 1}
           /\ -591 <= 400 * LeapYears(y) - 97 * y /\ 400 * LeapYears(y) - 97 * y <= 288
<1>1. PICK a \in Int, b \in Int, c \in Int :
        /\ 4 * a <= y /\ y <= 4 * a + 3 /\ a = y \div 4
        /\ 100 * b <= y /\ y <= 100 * b + 99 /\ b = y \div 100
        /\ 400 * c <= y /\ y <= 400 * c + 399 /\ c = y \div 400
    OBVIOUS
<1>2. 25 * b <= a /\ a <= 25 * b + 24 /\ 4 * c <= b /\ b <= 4 * c + 3
    BY <1>1
<1>3. LeapYears(y) = a - b + c
    BY <1>1 DEF LeapYears
<1>4. -591 <= 400 * (a - b + c) - 97 * y /\ 400 * (a - b + c) - 97 * y <= 288
    BY <1>1, <1>2
<1>5. LeapYears(y) - LeapYears(y - 1) \in {0, 1}
    BY DEF LeapYears
<1> QED BY <1>3, <1>4, <1>5

\* Where the year y begins
NewYear(y) == 365 * (y - 1970) + LeapYears(y - 1) - LeapYears(1969)

LEMMA FirstDays ==
    ASSUME NEW y \in Int
    PROVE  NewYear(y) \in Int /\ \A m \in 0..11 : DaysBefore(y, m) \in Int
<1>1. NewYear(y) \in Int
    BY LeapYearsGrow, y - 1 \in Int, 1969 \in Int DEF NewYear
<1>2. ASSUME NEW m \in 0..11 PROVE DaysBefore(y, m) \in Int
    BY <1>2 DEF DaysBefore
<1> QED BY <1>1, <1>2

\* The months of a year fill it.
LEMMA MonthsFill ==
    ASSUME NEW y \in Int
    PROVE  /\ DaysBefore(y, 0) = 0
           /\ \A m \in 0..10 :
                DaysBefore(y, m) + 28 <= DaysBefore(y, m + 1) /\ DaysBefore(y, m + 1) <= DaysBefore(y, m) + 31
           /\ DaysBefore(y, 7) + 31 = DaysBefore(y, 8)
           /\ NewYear(y) + DaysBefore(y, 11) + 31 = NewYear(y + 1)
<1> DEFINE leap == IF IsLeap(y) THEN 1 ELSE 0
<1>0. LeapYears(y) \in Int /\ LeapYears(y - 1) \in Int
    BY LeapYearsGrow, y - 1 \in Int
<1>1. leap \in {0, 1} /\ leap = LeapYears(y) - LeapYears(y - 1)
    <2>1. LeapYears(y) - LeapYears(y - 1) \in {0, 1}
        BY LeapYearsGrow
    <2> QED BY <1>0, <2>1 DEF IsLeap
<1>2. /\ DaysBefore(y, 0) = 0 /\ DaysBefore(y, 1) = 31
      /\ DaysBefore(y, 2) = 59 + leap /\ DaysBefore(y, 3) = 90 + leap
      /\ DaysBefore(y, 4) = 120 + leap /\ DaysBefore(y, 5) = 151 + leap
      /\ DaysBefore(y, 6) = 181 + leap /\ DaysBefore(y, 7) = 212 + leap
      /\ DaysBefore(y, 8) = 243 + leap /\ DaysBefore(y, 9) = 273 + leap
      /\ DaysBefore(y, 10) = 304 + leap /\ DaysBefore(y, 11) = 334 + leap
    BY DEF DaysBefore
<1>3. NewYear(y + 1) = NewYear(y) + 365 + leap
    <2>1. y + 1 - 1 = y /\ y - 1 \in Int /\ LeapYears(1969) \in Int /\ LeapYears(y) \in Int
          /\ LeapYears(y - 1) \in Int
        BY LeapYearsGrow
    <2> QED BY <1>1, <2>1 DEF NewYear
<1> HIDE DEF leap
<1>4. NewYear(y) \in Int
    BY FirstDays
<1>5. ASSUME NEW m \in 0..10
      PROVE  DaysBefore(y, m) + 28 <= DaysBefore(y, m + 1) /\ DaysBefore(y, m + 1) <= DaysBefore(y, m) + 31
    <2>1. m = 0 \/ m = 1 \/ m = 2 \/ m = 3 \/ m = 4 \/ m = 5 \/ m = 6 \/ m = 7 \/ m = 8 \/ m = 9 \/ m = 10
        OBVIOUS
    <2> QED BY <1>1, <1>2, <2>1
<1> QED BY <1>1, <1>2, <1>3, <1>4, <1>5

\* The day on which a month begins; months beyond a year belong to another one.
FirstOf(y, m) == DateUTC(y, m, 1)

LEMMA MonthsFollow ==
    ASSUME NEW y \in Int, NEW m \in Int
    PROVE  /\ FirstOf(y, m) \in Int
           /\ FirstOf(y, m) + 28 <= FirstOf(y, m + 1) /\ FirstOf(y, m + 1) <= FirstOf(y, m) + 31
           /\ FirstOf(y, m + 12) = FirstOf(y + 1, m)
           /\ \A d \in Int : DateUTC(y, m, d) = FirstOf(y, m) + d - 1
<1> DEFINE year == y + (m \div 12)
           month == m % 12
<1>1. /\ year \in Int /\ month \in 0..11
      /\ month < 11 => (m + 1) \div 12 = m \div 12 /\ (m + 1) % 12 = month + 1
      /\ month = 11 => (m + 1) \div 12 = (m \div 12) + 1 /\ (m + 1) % 12 = 0
      /\ (m + 12) \div 12 = (m \div 12) + 1 /\ (m + 12) % 12 = month
    OBVIOUS
<1>2. /\ NewYear(year) \in Int /\ NewYear(year + 1) \in Int
      /\ DaysBefore(year, month) \in Int
      /\ month < 11 => DaysBefore(year, month + 1) \in Int
      /\ NewYear(year) + DaysBefore(year, 11) + 31 = NewYear(year + 1)
      /\ DaysBefore(year + 1, 0) = 0
      /\ month < 11 => /\ DaysBefore(year, month) + 28 <= DaysBefore(year, month + 1)
                       /\ DaysBefore(year, month + 1) <= DaysBefore(year, month) + 31
    <2>1. year \in Int /\ year + 1 \in Int /\ month \in 0..11
          /\ (month < 11 => month \in 0..10 /\ month + 1 \in 0..11)
        BY <1>1
    <2> HIDE DEF year, month
    <2>2. NewYear(year) \in Int /\ NewYear(year + 1) \in Int
        BY <2>1, FirstDays
    <2>3. \A k \in 0..11 : DaysBefore(year, k) \in Int
        BY <2>1, FirstDays
    <2>4. DaysBefore(year + 1, 0) = 0
        BY <2>1, MonthsFill
    <2>5. /\ NewYear(year) + DaysBefore(year, 11) + 31 = NewYear(year + 1)
          /\ \A k \in 0..10 : /\ DaysBefore(year, k) + 28 <= DaysBefore(year, k + 1)
                              /\ DaysBefore(year, k + 1) <= DaysBefore(year, k) + 31
        BY <2>1, MonthsFill
    <2> QED BY <2>1, <2>2, <2>3, <2>4, <2>5
<1>3. \A d \in Int : DateUTC(y, m, d) = NewYear(year) + DaysBefore(year, month) + d - 1
    BY DEF DateUTC, NewYear
<1>4. FirstOf(y, m) = NewYear(year) + DaysBefore(year, month)
    <2>1. FirstOf(y, m) = NewYear(year) + DaysBefore(year, month) + 1 - 1
        BY <1>3 DEF FirstOf
    <2> HIDE DEF year, month
    <2> QED BY <1>2, <2>1
<1>5. FirstOf(y, m + 1) = IF month = 11 THEN NewYear(year + 1)
                          ELSE NewYear(year) + DaysBefore(year, month + 1)
    <2>1. CASE month = 11
        <3>1. FirstOf(y, m + 1) = NewYear(year + 1) + DaysBefore(year + 1, 0) + 1 - 1
            BY <1>1, <2>1 DEF FirstOf, DateUTC, NewYear
        <3> QED BY <1>2, <2>1, <3>1
    <2>2. CASE month # 11
        <3>1. FirstOf(y, m + 1) = NewYear(year) + DaysBefore(year, month + 1) + 1 - 1
            BY <1>1, <2>2 DEF FirstOf, DateUTC, NewYear
        <3> QED BY <1>2, <2>2, <3>1
    <2> QED BY <2>1, <2>2
<1>6. FirstOf(y, m + 12) = FirstOf(y + 1, m)
    <2>1. y + ((m + 12) \div 12) = y + 1 + (m \div 12)
        BY <1>1
    <2> QED BY <1>1, <2>1 DEF FirstOf, DateUTC
<1> HIDE DEF year, month
<1>7. month = 11 \/ month < 11
    BY <1>1
<1>8. month = 11 => DaysBefore(year, month) = DaysBefore(year, 11)
    OBVIOUS
<1>9. \A d \in Int : DateUTC(y, m, d) = FirstOf(y, m) + d - 1
    BY <1>3, <1>4
<1>10. /\ FirstOf(y, m) \in Int
       /\ FirstOf(y, m) + 28 <= FirstOf(y, m + 1) /\ FirstOf(y, m + 1) <= FirstOf(y, m) + 31
    BY <1>2, <1>4, <1>5, <1>7, <1>8
<1> QED BY <1>6, <1>9, <1>10

\* The years follow one another.
LEMMA YearsFollow ==
    ASSUME NEW y \in Int
    PROVE  /\ FirstOf(y, 0) = NewYear(y)
           /\ 146097 * (y - 1970) - 398 <= 400 * NewYear(y)
           /\ 400 * NewYear(y) <= 146097 * (y - 1970) + 481
<1>1. FirstOf(y, 0) = NewYear(y)
    <2>1. FirstOf(y, 0) = NewYear(y) + DaysBefore(y, 0) + 1 - 1
        <3>1. y + (0 \div 12) = y /\ 0 % 12 = 0
            OBVIOUS
        <3> QED BY <3>1 DEF FirstOf, DateUTC, NewYear
    <2> QED BY <2>1, FirstDays, MonthsFill
<1>2. /\ LeapYears(y - 1) \in Int
      /\ -591 <= 400 * LeapYears(y - 1) - 97 * (y - 1) /\ 400 * LeapYears(y - 1) - 97 * (y - 1) <= 288
    BY LeapYearsGrow, y - 1 \in Int
<1>3. LeapYears(1969) = 477
    BY DEF LeapYears
<1> QED BY <1>1, <1>2, <1>3 DEF NewYear

\* A month before another one of its year is over when that begins.
LEMMA MonthsInOrder ==
    ASSUME NEW y \in Int, NEW m \in 0..12, NEW n \in 0..12, m < n
    PROVE  FirstOf(y, m + 1) <= FirstOf(y, n)
<1>1. \A k \in Int : FirstOf(y, k) \in Int /\ FirstOf(y, k) + 28 <= FirstOf(y, k + 1)
    BY MonthsFollow
<1>2. \A a \in 0..12 : a < n => FirstOf(y, a) + 28 <= FirstOf(y, n)
    <2>1. n \in {1, 2, 3, 4, 5, 6, 7, 8, 9, 10, 11, 12}
        OBVIOUS
    <2>2. /\ FirstOf(y, 12) \in Int
          /\ FirstOf(y, 0) \in Int /\ FirstOf(y, 0) + 28 <= FirstOf(y, 1)
          /\ FirstOf(y, 1) \in Int /\ FirstOf(y, 1) + 28 <= FirstOf(y, 2)
          /\ FirstOf(y, 2) \in Int /\ FirstOf(y, 2) + 28 <= FirstOf(y, 3)
          /\ FirstOf(y, 3) \in Int /\ FirstOf(y, 3) + 28 <= FirstOf(y, 4)
          /\ FirstOf(y, 4) \in Int /\ FirstOf(y, 4) + 28 <= FirstOf(y, 5)
          /\ FirstOf(y, 5) \in Int /\ FirstOf(y, 5) + 28 <= FirstOf(y, 6)
          /\ FirstOf(y, 6) \in Int /\ FirstOf(y, 6) + 28 <= FirstOf(y, 7)
          /\ FirstOf(y, 7) \in Int /\ FirstOf(y, 7) + 28 <= FirstOf(y, 8)
          /\ FirstOf(y, 8) \in Int /\ FirstOf(y, 8) + 28 <= FirstOf(y, 9)
          /\ FirstOf(y, 9) \in Int /\ FirstOf(y, 9) + 28 <= FirstOf(y, 10)
          /\ FirstOf(y, 10) \in Int /\ FirstOf(y, 10) + 28 <= FirstOf(y, 11)
          /\ FirstOf(y, 11) \in Int /\ FirstOf(y, 11) + 28 <= FirstOf(y, 12)
        <3>1. 0 + 1 = 1 /\ 1 + 1 = 2 /\ 2 + 1 = 3 /\ 3 + 1 = 4 /\ 4 + 1 = 5 /\ 5 + 1 = 6 /\ 6 + 1 = 7
              /\ 7 + 1 = 8 /\ 8 + 1 = 9 /\ 9 + 1 = 10 /\ 10 + 1 = 11 /\ 11 + 1 = 12
            OBVIOUS
        <3> QED BY <1>1, <3>1
    <2>3. ASSUME NEW a \in 0..12, a < n PROVE FirstOf(y, a) + 28 <= FirstOf(y, n)
        <3>1. a \in {0, 1, 2, 3, 4, 5, 6, 7, 8, 9, 10, 11}
            BY <2>3
        <3> QED BY <2>1, <2>2, <2>3, <3>1
    <2> QED BY <2>3
<1>3. CASE m + 1 = n
    BY <1>1, <1>3
<1>4. CASE m + 1 < n
    <2>1. m + 1 \in 0..12
        BY <1>4
    <2> QED BY <1>1, <1>2, <1>4, <2>1
<1> QED BY <1>3, <1>4

\* YearOf finds the year of a day, and there is one.
LEMMA YearFound ==
    ASSUME NEW day \in Int
    PROVE  /\ YearOf(day) \in Int
           /\ FirstOf(YearOf(day), 0) <= day /\ day < FirstOf(YearOf(day), 12)
           /\ \A y \in Int : FirstOf(y, 0) <= day /\ day < FirstOf(y, 12) => YearOf(day) = y
<1> DEFINE guess == 1970 + ((400 * day) \div 146097)
           In(y) == DateUTC(y, 0, 1) <= day /\ day < DateUTC(y + 1, 0, 1)
<1>1. /\ guess \in Int
      /\ 146097 * (guess - 1970) <= 400 * day /\ 400 * day < 146097 * (guess - 1970) + 146097
    OBVIOUS
<1>2. YearOf(day) = CHOOSE y \in (guess - 1)..(guess + 1) : In(y)
    BY DEF YearOf
<1>3. \A y \in Int : /\ NewYear(y) \in Int
                     /\ FirstOf(y, 0) = NewYear(y) /\ FirstOf(y, 12) = NewYear(y + 1)
    <2>1. ASSUME NEW y \in Int PROVE FirstOf(y, 12) = NewYear(y + 1)
        <3>1. FirstOf(y, 0 + 12) = FirstOf(y + 1, 0) /\ FirstOf(y + 1, 0) = NewYear(y + 1)
            BY MonthsFollow, YearsFollow, y + 1 \in Int
        <3> QED BY <3>1
    <2> QED BY <2>1, FirstDays, YearsFollow
<1>4. \A y \in Int : In(y) <=> FirstOf(y, 0) <= day /\ day < FirstOf(y, 12)
    <2>1. ASSUME NEW y \in Int PROVE FirstOf(y + 1, 0) = FirstOf(y, 12)
        BY <1>3, y + 1 \in Int
    <2> QED BY <2>1 DEF FirstOf
<1>5. ASSUME NEW y \in Int PROVE In(y) <=> NewYear(y) <= day /\ day < NewYear(y + 1)
    BY <1>3, <1>4, y + 1 \in Int
<1> HIDE DEF guess, In
<1>6. \E y \in (guess - 1)..(guess + 1) : In(y)
    <2>1. /\ guess - 1 \in Int /\ guess \in Int /\ guess + 1 \in Int /\ guess + 1 + 1 \in Int /\ guess - 1 + 1 = guess
          /\ {guess - 1, guess, guess + 1} \subseteq (guess - 1)..(guess + 1)
        BY <1>1
    <2>2. NewYear(guess - 1) <= day /\ day < NewYear(guess + 1 + 1)
        <3>1. NewYear(guess - 1) \in Int /\ NewYear(guess + 1 + 1) \in Int
            BY FirstDays, <2>1
        <3>2. 400 * NewYear(guess - 1) <= 146097 * (guess - 1 - 1970) + 481
            BY YearsFollow, <2>1
        <3>3. 146097 * (guess + 1 + 1 - 1970) - 398 <= 400 * NewYear(guess + 1 + 1)
            BY YearsFollow, <2>1
        <3> QED BY <1>1, <3>1, <3>2, <3>3
    <2>3. In(guess - 1) <=> NewYear(guess - 1) <= day /\ day < NewYear(guess)
        BY <1>5, <2>1
    <2>4. In(guess) <=> NewYear(guess) <= day /\ day < NewYear(guess + 1)
        BY <1>5, <2>1
    <2>5. In(guess + 1) <=> NewYear(guess + 1) <= day /\ day < NewYear(guess + 1 + 1)
        BY <1>5, <2>1
    <2>6. NewYear(guess) \in Int /\ NewYear(guess + 1) \in Int
        BY FirstDays, <2>1
    <2> QED BY <2>1, <2>2, <2>3, <2>4, <2>5, <2>6
<1>7. YearOf(day) \in (guess - 1)..(guess + 1) /\ In(YearOf(day))
    BY <1>2, <1>6
<1>8. YearOf(day) \in Int
    BY <1>1, <1>7
<1>9. ASSUME NEW y \in Int, NEW z \in Int, y < z PROVE NewYear(y + 1) <= NewYear(z)
    <2>1. y + 1 \in Int /\ NewYear(y + 1) \in Int /\ NewYear(z) \in Int
        BY FirstDays, y + 1 \in Int
    <2>2. 400 * NewYear(y + 1) <= 146097 * (y + 1 - 1970) + 481
        BY YearsFollow, y + 1 \in Int
    <2>3. 146097 * (z - 1970) - 398 <= 400 * NewYear(z)
        BY YearsFollow
    <2>4. CASE y + 1 = z
        BY <2>1, <2>4
    <2>5. CASE y + 1 < z
        BY <2>1, <2>2, <2>3, <2>5
    <2> QED BY <1>9, <2>4, <2>5
<1>10. ASSUME NEW y \in Int, FirstOf(y, 0) <= day, day < FirstOf(y, 12),
             NEW z \in Int, FirstOf(z, 0) <= day, day < FirstOf(z, 12)
      PROVE  y = z
    <2>1. NewYear(y) <= day /\ day < NewYear(y + 1)
        BY <1>4, <1>5, <1>10
    <2>2. NewYear(z) <= day /\ day < NewYear(z + 1)
        BY <1>4, <1>5, <1>10
    <2>3. NewYear(y) \in Int /\ NewYear(z) \in Int
        BY FirstDays
    <2>4. NewYear(y + 1) \in Int /\ NewYear(z + 1) \in Int
        BY FirstDays, y + 1 \in Int, z + 1 \in Int
    <2>5. y < z => NewYear(y + 1) <= NewYear(z)
        BY <1>9
    <2>6. z < y => NewYear(z + 1) <= NewYear(y)
        BY <1>9
    <2> QED BY <2>1, <2>2, <2>3, <2>4, <2>5, <2>6
<1> QED BY <1>4, <1>7, <1>8, <1>10

\* So does MonthOf, with the month of that year.
LEMMA MonthFound ==
    ASSUME NEW day \in Int
    PROVE  /\ YearOf(day) \in Int /\ MonthOf(day) \in 0..11
           /\ FirstOf(YearOf(day), MonthOf(day)) <= day
           /\ day < FirstOf(YearOf(day), MonthOf(day) + 1)
           /\ \A y \in Int, m \in 0..11 :
                FirstOf(y, m) <= day /\ day < FirstOf(y, m + 1) => YearOf(day) = y /\ MonthOf(day) = m
<1> DEFINE year == YearOf(day)
           Is(y, m) == FirstOf(y, m) <= day /\ day < FirstOf(y, m + 1)
<1>1. year \in Int /\ FirstOf(year, 0) <= day /\ day < FirstOf(year, 12)
    BY YearFound
<1>2. MonthOf(day) = CHOOSE m \in 0..11 : Is(year, m)
    BY DEF MonthOf, FirstOf
<1> HIDE DEF year
<1>3. \E m \in 0..11 : Is(year, m)
    <2>1. \A k \in 0..12 : FirstOf(year, k) \in Int
        BY <1>1, MonthsFollow
    <2>2. /\ 0 + 1 = 1 /\ 1 + 1 = 2 /\ 2 + 1 = 3 /\ 3 + 1 = 4 /\ 4 + 1 = 5 /\ 5 + 1 = 6 /\ 6 + 1 = 7
          /\ 7 + 1 = 8 /\ 8 + 1 = 9 /\ 9 + 1 = 10 /\ 10 + 1 = 11 /\ 11 + 1 = 12
        OBVIOUS
    <2>3. \/ Is(year, 0) \/ Is(year, 1) \/ Is(year, 2) \/ Is(year, 3) \/ Is(year, 4) \/ Is(year, 5)
          \/ Is(year, 6) \/ Is(year, 7) \/ Is(year, 8) \/ Is(year, 9) \/ Is(year, 10) \/ Is(year, 11)
        BY <1>1, <2>1, <2>2
    <2> HIDE DEF Is
    <2> QED BY <2>3
<1> HIDE DEF Is
<1>4. MonthOf(day) \in 0..11 /\ Is(year, MonthOf(day))
    BY <1>2, <1>3
<1>5. ASSUME NEW y \in Int, NEW m \in 0..11, Is(y, m) PROVE y = year /\ m = MonthOf(day)
    <2>1. FirstOf(y, m) \in Int /\ FirstOf(y, m + 1) \in Int /\ FirstOf(y, 0) \in Int /\ FirstOf(y, 12) \in Int
        <3>1. \A k \in Int : FirstOf(y, k) \in Int
            BY MonthsFollow
        <3> QED BY <3>1
    <2>2. FirstOf(y, 0) <= FirstOf(y, m)
        <3>1. CASE m = 0
            BY <2>1, <3>1
        <3>2. CASE m # 0
            <4>1. FirstOf(y, 0 + 1) <= FirstOf(y, m)
                BY <3>2, MonthsInOrder
            <4>2. FirstOf(y, 0) + 28 <= FirstOf(y, 0 + 1) /\ FirstOf(y, 0 + 1) \in Int
                BY MonthsFollow
            <4> QED BY <2>1, <4>1, <4>2
        <3> QED BY <3>1, <3>2
    <2>3. FirstOf(y, m + 1) <= FirstOf(y, 12)
        BY MonthsInOrder, m < 12
    <2>4. y = year
        <3>1. FirstOf(y, 0) <= day /\ day < FirstOf(y, 12)
            BY <1>5, <2>1, <2>2, <2>3 DEF Is
        <3> QED BY <3>1, YearFound DEF year
    <2>5. ASSUME NEW a \in 0..11, NEW b \in 0..11, a < b, Is(y, a) PROVE ~Is(y, b)
        <3>1. FirstOf(y, a + 1) <= FirstOf(y, b)
            BY <2>5, MonthsInOrder
        <3>2. FirstOf(y, a + 1) \in Int /\ FirstOf(y, b) \in Int
            BY MonthsFollow, a + 1 \in Int
        <3> QED BY <2>5, <3>1, <3>2 DEF Is
    <2>6. ~(m < MonthOf(day)) /\ ~(MonthOf(day) < m)
        BY <1>4, <1>5, <2>4, <2>5
    <2> QED BY <1>4, <2>4, <2>6
<1> QED BY <1>1, <1>4, <1>5 DEF Is, year
=============================================================================
