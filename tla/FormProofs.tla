------------------------------ MODULE FormProofs ------------------------------
(***************************************************************************)
(* Proofs about Forms: types and constraints, from how transactions are    *)
(* kept apart; cycles, from which edges of the tree each of them changes;  *)
(* the refinement of FormBook, from what a request in time has read; what  *)
(* is stored of a payload, from which row each of its nodes has taken.     *)
(***************************************************************************)
EXTENDS FormProps, FiniteSetTheorems, WellFoundedInduction, TLAPS

(***************************************************************************)
(* What is below a field.                                                  *)
(***************************************************************************)

\* A set of naturals has a least element.
LEMMA LeastExists ==
    ASSUME NEW S \in SUBSET Nat, S # {}
    PROVE  \E n \in S : \A m \in S : n <= m
<1> PICK k \in S : TRUE
  OBVIOUS
<1> DEFINE T == {0..n : n \in {m \in S : m <= k}}
           R == StrictSubsetOrdering(0..k)
<1>1. T \subseteq FiniteSubsetsOf(0..k) /\ T # {}
  <2>1. ASSUME NEW n \in S, n <= k PROVE 0..n \in FiniteSubsetsOf(0..k)
    <3>1. IsFiniteSet(0..n)
      BY <2>1, FS_Interval
    <3> QED
      BY <2>1, <3>1 DEF FiniteSubsetsOf
  <2>2. 0..k \in T
    OBVIOUS
  <2> QED
    BY <2>1, <2>2
<1>2. IsWellFoundedOn(R, FiniteSubsetsOf(0..k))
  BY FS_StrictSubsetOrderingWellFounded
<1> HIDE DEF R
<1>3. PICK x \in T : \A y \in T : ~(<<y, x>> \in R)
  BY <1>1, <1>2, WFMin
<1>4. PICK n \in S : n <= k /\ x = 0..n
  BY <1>3
<1>5. ASSUME NEW m \in S, m < n PROVE FALSE
  <2>1. 0..m \in T
    BY <1>4, <1>5
  <2>2. 0..m \subseteq 0..n /\ 0..n \subseteq 0..k /\ n \in 0..n /\ n \notin 0..m
    BY <1>4, <1>5
  <2>3. <<0..m, x>> \in R
    BY <1>4, <2>2 DEF R, StrictSubsetOrdering
  <2> QED
    BY <1>3, <2>1, <2>3
<1> QED
  BY <1>5

\* The levels below a set of rows, however many.
LEMMA LevelExists ==
    ASSUME NEW table, NEW S, NEW n \in Nat
    PROVE  \E f : IsLevel(table, S, n, f)
<1> DEFINE T == {m \in Nat : ~\E f : IsLevel(table, S, m, f)}
<1> SUFFICES ASSUME T # {} PROVE FALSE
  OBVIOUS
<1>1. PICK m \in T : \A l \in T : m <= l
  <2>1. T \in SUBSET Nat
    OBVIOUS
  <2> HIDE DEF T
  <2> QED
    BY <2>1, LeastExists
<1>2. CASE m = 0
  <2>1. \A l \in 0..m : l = 0
    BY <1>2
  <2>2. IsLevel(table, S, m, [l \in 0..m |-> S \cap DOMAIN table])
    BY <2>1 DEF IsLevel
  <2> QED
    BY <1>1, <2>2
<1>3. CASE m # 0
  <2>1. m - 1 \in Nat /\ m - 1 \notin T /\ m \in Nat
    BY <1>1, <1>3
  <2>2. PICK f : IsLevel(table, S, m - 1, f)
    BY <2>1
  <2> DEFINE g == [l \in 0..m |-> IF l \in 0..(m-1) THEN f[l] ELSE Add(table, f[m-1])]
  <2>3. \A l \in 0..(m-1) : f[l] = IF l = 0 THEN S \cap DOMAIN table ELSE Add(table, f[l-1])
    BY <2>2 DEF IsLevel
  <2>4. ASSUME NEW l \in 0..m
        PROVE  g[l] = IF l = 0 THEN S \cap DOMAIN table ELSE Add(table, g[l-1])
    <3>1. l # 0 => l - 1 \in 0..m /\ l - 1 \in 0..(m-1)
      BY <2>1
    <3>2. l \notin 0..(m-1) => l = m /\ l # 0
      BY <1>3, <2>1
    <3> QED
      BY <2>3, <3>1, <3>2
  <2>5. IsLevel(table, S, m, g)
    <3> HIDE DEF Add
    <3>1. g = [l \in 0..m |-> IF l = 0 THEN S \cap DOMAIN table ELSE Add(table, g[l-1])]
      <4>1. DOMAIN g = 0..m /\ g = [l \in 0..m |-> g[l]]
        OBVIOUS
      <4> HIDE DEF g
      <4> QED
        BY <2>4, <4>1
    <3> QED
      BY <3>1 DEF IsLevel
  <2> QED
    BY <1>1, <2>5
<1> QED
  BY <1>2, <1>3

LEMMA LevelsAre ==
    ASSUME NEW table, NEW S, IsFiniteSet(DOMAIN table)
    PROVE  /\ Cardinality(DOMAIN table) \in Nat
           /\ \A m \in 0..Cardinality(DOMAIN table) :
                 Levels(table, S)[m] = IF m = 0 THEN S \cap DOMAIN table ELSE Add(table, Levels(table, S)[m-1])
<1> DEFINE n == Cardinality(DOMAIN table)
           f == Levels(table, S)
<1>1. n \in Nat
  BY FS_CardinalityType
<1>2. PICK g : IsLevel(table, S, n, g)
  BY <1>1, LevelExists
<1>3. IsLevel(table, S, n, f)
  BY <1>2 DEF IsLevel, Levels
<1>4. \A m \in 0..n : f[m] = IF m = 0 THEN S \cap DOMAIN table ELSE Add(table, f[m-1])
  <2> HIDE DEF f, n
  <2> QED
    BY <1>3 DEF IsLevel
<1> QED
  BY <1>1, <1>4

\* Below finds the rows it begins with and what is below them, all of them.
LEMMA BelowIs ==

    ASSUME NEW table, NEW S, IsFiniteSet(DOMAIN table)
    PROVE  /\ Below(table, S) \subseteq DOMAIN table /\ S \cap DOMAIN table \subseteq Below(table, S)
           /\ \A i \in DOMAIN table : table[i].parent \in Below(table, S) => i \in Below(table, S)
<1> DEFINE n == Cardinality(DOMAIN table)
           f == Levels(table, S)
           Closed(U) == Add(table, U) = U
<1>1. n \in Nat
  BY FS_CardinalityType
<1>2. Below(table, S) = f[n]
  BY DEF Below, Levels, Add
<1>3. \A m \in 0..n : f[m] = IF m = 0 THEN S \cap DOMAIN table ELSE Add(table, f[m-1])
  BY LevelsAre
<1> HIDE DEF f, n
<1> DEFINE Fine(m) == /\ f[m] \subseteq DOMAIN table /\ S \cap DOMAIN table \subseteq f[m]
                      /\ Closed(f[m]) \/ Cardinality(f[m]) >= m
           T == {m \in 0..n : ~Fine(m)}
<1>4. ASSUME T # {} PROVE FALSE
  <2>1. PICK m \in T : \A l \in T : m <= l
    <3>1. T \in SUBSET Nat
      BY <1>1
    <3> HIDE DEF T
    <3> QED
      BY <1>4, <3>1, LeastExists
  <2>2. CASE m = 0
    <3>1. f[0] = S \cap DOMAIN table
      BY <1>1, <1>3
    <3>2. IsFiniteSet(f[0])
      BY <3>1, FS_Subset
    <3>3. Cardinality(f[0]) \in Nat
      BY <3>2, FS_CardinalityType
    <3> QED
      BY <2>1, <2>2, <3>1, <3>3
  <2>3. CASE m # 0
    <3>1. m - 1 \in 0..n /\ Fine(m-1) /\ f[m] = Add(table, f[m-1]) /\ m \in Nat /\ m - 1 \in Nat
      BY <1>1, <1>3, <2>1, <2>3
    <3>2. f[m] \subseteq DOMAIN table /\ f[m-1] \subseteq f[m]
      BY <3>1 DEF Add
    <3>3. CASE Closed(f[m-1])
      BY <2>1, <3>1, <3>2, <3>3
    <3>4. CASE ~Closed(f[m-1])
      <4>1. IsFiniteSet(f[m-1]) /\ IsFiniteSet(f[m])
        BY <3>1, <3>2, FS_Subset
      <4>2. Cardinality(f[m-1]) \in Nat /\ Cardinality(f[m]) \in Nat
        BY <4>1, FS_CardinalityType
      <4>3. f[m-1] # f[m]
        BY <3>1, <3>4
      <4>4. Cardinality(f[m-1]) < Cardinality(f[m])
        <5>1. Cardinality(f[m-1]) <= Cardinality(f[m]) /\ (Cardinality(f[m-1]) = Cardinality(f[m]) => f[m-1] = f[m])
          BY <3>2, <4>1, FS_Subset
        <5> QED
          BY <4>2, <4>3, <5>1
      <4>5. Cardinality(f[m]) >= m
        BY <3>1, <3>4, <4>2, <4>4
      <4> QED
        BY <2>1, <3>1, <3>2, <4>5
    <3> QED
      BY <3>3, <3>4
  <2> QED
    BY <2>2, <2>3
<1>5. Fine(n)
  BY <1>1, <1>4
<1>6. Closed(f[n])
  <2>1. SUFFICES ASSUME Cardinality(f[n]) >= n PROVE Closed(f[n])
    BY <1>5
  <2>2. IsFiniteSet(f[n])
    BY <1>5, FS_Subset
  <2>3. Cardinality(f[n]) \in Nat /\ Cardinality(f[n]) <= n
    BY <1>5, <2>2, FS_Subset, FS_CardinalityType DEF n
  <2>4. f[n] = DOMAIN table
    <3>1. Cardinality(f[n]) = Cardinality(DOMAIN table)
      BY <1>1, <2>1, <2>3 DEF n
    <3> QED
      BY <1>5, <3>1, FS_Subset
  <2> QED
    BY <2>4 DEF Add
<1> QED
  BY <1>2, <1>5, <1>6 DEF Add

(***************************************************************************)
(* What a flush leaves in the hands of its transaction.                    *)
(***************************************************************************)

LEMMA NothingIs == DOMAIN Nothing = {} /\ IsFiniteSet(DOMAIN Nothing)
<1>1. DOMAIN Nothing = {}
  BY DEF Nothing
<1> QED
  BY <1>1, FS_EmptySet

LEMMA FlushFits ==
    ASSUME NEW t, NEW q, FieldsFit(q, t), NEW new, NEW written, NEW dead, NEW p,
           FlushOf(t, q, new, written, dead, p)
    PROVE  FieldsFit(p, t) /\ Over(t, p.tx, p.gone) = RowsIn(new, DOMAIN new \ dead)
<1> DEFINE view == Over(t, q.tx, q.gone)
           then == Over(t, p.tx, p.gone)
<1>1. /\ DOMAIN view = (DOMAIN t \ q.gone) \cup DOMAIN q.tx
      /\ \A i \in DOMAIN view : view[i] = IF i \in DOMAIN q.tx THEN q.tx[i] ELSE t[i]
  BY DEF Over
<1>2. /\ DOMAIN then = (DOMAIN t \ p.gone) \cup DOMAIN p.tx
      /\ \A i \in DOMAIN then : then[i] = IF i \in DOMAIN p.tx THEN p.tx[i] ELSE t[i]
      /\ then = [i \in DOMAIN then |-> then[i]]
  BY DEF Over
<1>3. /\ q.gone \subseteq DOMAIN t /\ DOMAIN q.tx \cap q.gone = {}
      /\ \A i \in DOMAIN view : view[i].parent \in DOMAIN view \cup {NULL}
      /\ \A i \in DOMAIN q.tx : \A j \in DOMAIN view \ {i} : FormKey(view[j]) # FormKey(q.tx[i])
  BY DEF FieldsFit
<1>4. /\ written \subseteq DOMAIN new /\ DOMAIN new = DOMAIN view \cup written
      /\ \A i \in DOMAIN new \ written : new[i] = view[i]
      /\ written \cap q.gone = {}
      /\ \A i \in written : /\ new[i].parent \in DOMAIN new \cup {NULL}
                            /\ \A j \in DOMAIN new \ {i} : FormKey(new[j]) # FormKey(new[i])
      /\ dead \subseteq DOMAIN new /\ \A i \in DOMAIN new : new[i].parent \in dead => i \in dead
      /\ p.tx = [i \in (DOMAIN q.tx \cup written) \ dead |-> new[i]]
      /\ p.gone = q.gone \cup (dead \cap DOMAIN t)
  BY DEF FlushOf
<1> HIDE DEF view, then
<1>5. DOMAIN p.tx = (DOMAIN q.tx \cup written) \ dead /\ \A i \in DOMAIN p.tx : p.tx[i] = new[i]
  BY <1>4
<1>6. DOMAIN then = DOMAIN new \ dead
  BY <1>1, <1>2, <1>3, <1>4, <1>5
<1>7. \A i \in DOMAIN then : then[i] = new[i]
  BY <1>1, <1>2, <1>4, <1>5, <1>6
<1>8. p.gone \subseteq DOMAIN t /\ DOMAIN p.tx \cap p.gone = {}
  BY <1>1, <1>3, <1>4, <1>5
<1>9. ASSUME NEW i \in DOMAIN then PROVE then[i].parent \in DOMAIN then \cup {NULL}
  <2>1. new[i].parent \in DOMAIN new \cup {NULL}
    <3>1. CASE i \in written
      BY <1>4, <3>1
    <3>2. CASE i \notin written
      BY <1>3, <1>4, <1>6, <3>2
    <3> QED
      BY <3>1, <3>2
  <2> QED
    BY <1>4, <1>6, <1>7, <2>1
<1>10. ASSUME NEW i \in DOMAIN p.tx, NEW j \in DOMAIN then \ {i} PROVE FormKey(then[j]) # FormKey(p.tx[i])
  <2>1. i \in DOMAIN new /\ j \in DOMAIN new /\ i # j /\ then[j] = new[j] /\ p.tx[i] = new[i]
    BY <1>1, <1>4, <1>5, <1>6, <1>7
  <2>2. CASE i \in written \/ j \in written
    BY <1>4, <2>1, <2>2
  <2>3. CASE i \notin written /\ j \notin written
    <3>1. i \in DOMAIN q.tx /\ new[i] = q.tx[i]
      BY <1>1, <1>4, <1>5, <2>1, <2>3
    <3>2. j \in DOMAIN view \ {i} /\ new[j] = view[j]
      BY <1>4, <2>1, <2>3
    <3> QED
      BY <1>3, <2>1, <3>1, <3>2
  <2> QED
    BY <2>2, <2>3
<1>11. FieldsFit(p, t)
  BY <1>8, <1>9, <1>10 DEF FieldsFit, then
<1>12. then = RowsIn(new, DOMAIN new \ dead)
  BY <1>2, <1>6, <1>7 DEF RowsIn
<1> QED
  BY <1>11, <1>12 DEF then

\* A flush that waits for nobody stays apart from u.
LEMMA FlushApart ==
    ASSUME NEW t, NEW q, FieldsFit(q, t), NEW new, NEW written, NEW dead, NEW p,
           FlushOf(t, q, new, written, dead, p), p.ftx = q.ftx, NEW u, Apart(q, u, t),
           (written \cup dead) \cap (DOMAIN u.tx \cup u.gone) = {},
           {FormKey(new[i]) : i \in written} \cap {FormKey(u.tx[j]) : j \in DOMAIN u.tx} = {},
           {new[i].parent : i \in {j \in written : j \in DOMAIN t => t[j].parent # new[j].parent}} \cap u.gone = {},
           Refs(u.tx, t) \cap dead = {}
    PROVE  Apart(p, u, t)
<1> DEFINE view == Over(t, q.tx, q.gone)
<1>1. \A i \in DOMAIN q.tx : i \in DOMAIN view /\ view[i] = q.tx[i]
  BY DEF Over
<1>2. /\ DOMAIN new = DOMAIN view \cup written
      /\ \A i \in DOMAIN new \ written : new[i] = view[i]
      /\ p.tx = [i \in (DOMAIN q.tx \cup written) \ dead |-> new[i]]
      /\ p.gone = q.gone \cup (dead \cap DOMAIN t)
  BY DEF FlushOf
<1> HIDE DEF view
<1>3. DOMAIN p.tx = (DOMAIN q.tx \cup written) \ dead /\ \A i \in DOMAIN p.tx : p.tx[i] = new[i]
  BY <1>2
<1>4. \A i \in DOMAIN p.tx \ written : i \in DOMAIN q.tx /\ p.tx[i] = q.tx[i]
  BY <1>1, <1>2, <1>3
<1>5. /\ (DOMAIN q.tx \cup q.gone) \cap (DOMAIN u.tx \cup u.gone) = {}
      /\ \A i \in DOMAIN q.tx : \A j \in DOMAIN u.tx : FormKey(q.tx[i]) # FormKey(u.tx[j])
      /\ Refs(q.tx, t) \cap u.gone = {} /\ Refs(u.tx, t) \cap q.gone = {}
      /\ \A g \in DOMAIN q.ftx : \A h \in DOMAIN u.ftx : g # h /\ q.ftx[g].name # u.ftx[h].name
  BY DEF Apart
<1>6. (DOMAIN p.tx \cup p.gone) \cap (DOMAIN u.tx \cup u.gone) = {}
  BY <1>2, <1>3, <1>5
<1>7. ASSUME NEW i \in DOMAIN p.tx, NEW j \in DOMAIN u.tx PROVE FormKey(p.tx[i]) # FormKey(u.tx[j])
  <2>1. CASE i \in written
    BY <1>3, <2>1
  <2>2. CASE i \notin written
    BY <1>4, <1>5, <2>2
  <2> QED
    BY <2>1, <2>2
<1>8. ASSUME NEW x \in Refs(p.tx, t) PROVE x \notin u.gone
  <2>1. PICK i \in DOMAIN p.tx : x = p.tx[i].parent /\ (i \in DOMAIN t => t[i].parent # p.tx[i].parent)
    BY <1>8 DEF Refs
  <2>2. CASE i \in written
    BY <1>3, <2>1, <2>2
  <2>3. CASE i \notin written
    <3>1. x \in Refs(q.tx, t)
      BY <1>4, <2>1, <2>3 DEF Refs
    <3> QED
      BY <1>5, <3>1
  <2> QED
    BY <2>2, <2>3
<1>9. Refs(u.tx, t) \cap p.gone = {}
  BY <1>2, <1>5
<1> QED
  BY <1>5, <1>6, <1>7, <1>8, <1>9 DEF Apart

(***************************************************************************)
(* What a commit leaves of the others.                                     *)
(***************************************************************************)

\* What u has in its hands still fits to the fields once q is committed.
LEMMA CommitOther ==
    ASSUME NEW t, NEW q, FieldsFit(q, t), NEW u, FieldsFit(u, t), Apart(q, u, t)
    PROVE  FieldsFit(u, Over(t, q.tx, q.gone))
<1> DEFINE t2 == Over(t, q.tx, q.gone)
           view == Over(t, u.tx, u.gone)
           then == Over(t2, u.tx, u.gone)
<1>1. /\ DOMAIN t2 = (DOMAIN t \ q.gone) \cup DOMAIN q.tx
      /\ \A i \in DOMAIN t2 : t2[i] = IF i \in DOMAIN q.tx THEN q.tx[i] ELSE t[i]
  BY DEF Over
<1>2. /\ DOMAIN view = (DOMAIN t \ u.gone) \cup DOMAIN u.tx
      /\ \A i \in DOMAIN view : view[i] = IF i \in DOMAIN u.tx THEN u.tx[i] ELSE t[i]
  BY DEF Over
<1> HIDE DEF t2, view
<1>3. /\ DOMAIN then = (DOMAIN t2 \ u.gone) \cup DOMAIN u.tx
      /\ \A i \in DOMAIN then : then[i] = IF i \in DOMAIN u.tx THEN u.tx[i] ELSE t2[i]
  BY DEF Over
<1>4. /\ q.gone \subseteq DOMAIN t /\ DOMAIN q.tx \cap q.gone = {}
      /\ \A i \in DOMAIN t2 : t2[i].parent \in DOMAIN t2 \cup {NULL}
  BY DEF FieldsFit, t2
<1>5. /\ u.gone \subseteq DOMAIN t /\ DOMAIN u.tx \cap u.gone = {}
      /\ \A i \in DOMAIN view : view[i].parent \in DOMAIN view \cup {NULL}
      /\ \A i \in DOMAIN u.tx : \A j \in DOMAIN view \ {i} : FormKey(view[j]) # FormKey(u.tx[i])
  BY DEF FieldsFit, view
<1>6. /\ (DOMAIN q.tx \cup q.gone) \cap (DOMAIN u.tx \cup u.gone) = {}
      /\ \A i \in DOMAIN q.tx : \A j \in DOMAIN u.tx : FormKey(q.tx[i]) # FormKey(u.tx[j])
      /\ Refs(q.tx, t) \cap u.gone = {} /\ Refs(u.tx, t) \cap q.gone = {}
  BY DEF Apart
<1> HIDE DEF then
<1>7. u.gone \subseteq DOMAIN t2
  BY <1>1, <1>5, <1>6
<1>8. ASSUME NEW i \in DOMAIN then PROVE then[i].parent \in DOMAIN then \cup {NULL}
  <2> DEFINE x == then[i].parent
  <2> SUFFICES ASSUME x # NULL PROVE x \in DOMAIN then
    OBVIOUS
  <2>1. CASE i \in DOMAIN u.tx
    <3>1. i \in DOMAIN view /\ view[i] = u.tx[i] /\ x = u.tx[i].parent
      BY <1>2, <1>3, <2>1
    <3>2. x \in DOMAIN view
      BY <1>5, <3>1
    <3>3. CASE x \in DOMAIN u.tx
      BY <1>3, <3>3
    <3>4. CASE x \notin DOMAIN u.tx
      <4>1. x \in DOMAIN t \ u.gone
        BY <1>2, <3>2, <3>4
      <4>2. x \notin q.gone
        <5>1. CASE i \in DOMAIN t => t[i].parent # x
          <6>1. x \in Refs(u.tx, t)
            BY <2>1, <3>1, <5>1 DEF Refs
          <6> QED
            BY <1>6, <6>1
        <5>2. CASE i \in DOMAIN t /\ t[i].parent = x
          <6>1. i \in DOMAIN t2 /\ t2[i] = t[i]
            BY <1>1, <1>6, <2>1, <5>2
          <6>2. x \in DOMAIN t2
            BY <1>4, <5>2, <6>1
          <6> QED
            BY <1>1, <1>4, <6>2
        <5> QED
          BY <5>1, <5>2
      <4>3. x \in DOMAIN t2
        BY <1>1, <4>1, <4>2
      <4> QED
        BY <1>3, <4>1, <4>3
    <3> QED
      BY <3>3, <3>4
  <2>2. CASE i \notin DOMAIN u.tx
    <3>1. i \in DOMAIN t2 /\ i \notin u.gone /\ x = t2[i].parent
      BY <1>3, <2>2
    <3>2. x \in DOMAIN t2
      BY <1>4, <3>1
    <3>3. CASE i \in DOMAIN q.tx /\ (i \in DOMAIN t => t[i].parent # x)
      <4>1. x = q.tx[i].parent
        BY <1>1, <3>1, <3>3
      <4>2. x \in Refs(q.tx, t)
        BY <3>3, <4>1 DEF Refs
      <4> QED
        BY <1>3, <1>6, <3>2, <4>2
    <3>4. CASE i \in DOMAIN t /\ t[i].parent = x
      <4>1. i \in DOMAIN view /\ view[i] = t[i]
        BY <1>2, <2>2, <3>1, <3>4
      <4>2. x \in DOMAIN view
        BY <1>5, <3>4, <4>1
      <4> QED
        BY <1>2, <1>3, <3>2, <4>2
    <3>5. i \in DOMAIN q.tx \/ (i \in DOMAIN t /\ t[i].parent = x)
      BY <1>1, <3>1
    <3> QED
      BY <3>3, <3>4, <3>5
  <2> QED
    BY <2>1, <2>2
<1>9. ASSUME NEW i \in DOMAIN u.tx, NEW j \in DOMAIN then \ {i} PROVE FormKey(then[j]) # FormKey(u.tx[i])
  <2>1. CASE j \notin DOMAIN u.tx /\ j \in DOMAIN q.tx
    BY <1>1, <1>3, <1>6, <2>1
  <2>2. CASE j \in DOMAIN u.tx \/ j \notin DOMAIN q.tx
    <3>1. j \in DOMAIN view /\ view[j] = then[j]
      BY <1>1, <1>2, <1>3, <2>2
    <3> QED
      BY <1>5, <3>1
  <2> QED
    BY <2>1, <2>2
<1> QED
  BY <1>5, <1>7, <1>8, <1>9 DEF FieldsFit, then, t2

\* Two others are as far from each other as before.
LEMMA CommitApart ==
    ASSUME NEW t, NEW q, NEW u, NEW v, Apart(q, u, t), Apart(q, v, t), Apart(u, v, t)
    PROVE  Apart(u, v, Over(t, q.tx, q.gone))
<1> DEFINE t2 == Over(t, q.tx, q.gone)
<1>1. /\ DOMAIN t2 = (DOMAIN t \ q.gone) \cup DOMAIN q.tx
      /\ \A i \in DOMAIN t2 : t2[i] = IF i \in DOMAIN q.tx THEN q.tx[i] ELSE t[i]
  BY DEF Over
<1> HIDE DEF t2
<1>2. /\ (DOMAIN q.tx \cup q.gone) \cap DOMAIN u.tx = {}
      /\ (DOMAIN q.tx \cup q.gone) \cap DOMAIN v.tx = {}
  BY DEF Apart
<1>3. ASSUME NEW tx, (DOMAIN q.tx \cup q.gone) \cap DOMAIN tx = {}
      PROVE  Refs(tx, t2) = Refs(tx, t)
  <2>1. \A j \in DOMAIN tx : (j \in DOMAIN t2 <=> j \in DOMAIN t) /\ (j \in DOMAIN t => t2[j] = t[j])
    BY <1>1, <1>3
  <2> QED
    BY <2>1 DEF Refs
<1>4. Refs(u.tx, t2) = Refs(u.tx, t) /\ Refs(v.tx, t2) = Refs(v.tx, t)
  BY <1>2, <1>3
<1> QED
  BY <1>4 DEF Apart, t2

LEMMA ApartIsSymmetric ==
    ASSUME NEW t, NEW u, NEW v, Apart(u, v, t)
    PROVE  Apart(v, u, t)
BY DEF Apart

\* The forms of q get committed.
LEMMA FormsOther ==
    ASSUME NEW t, NEW q, NEW fs, NEW u, FormsFit(u, fs), Apart(q, u, t)
    PROVE  FormsFit(u, Over(fs, q.ftx, {}))
<1> DEFINE fs2 == Over(fs, q.ftx, {})
           view == Over(fs, u.ftx, {})
           then == Over(fs2, u.ftx, {})
<1>1. /\ DOMAIN fs2 = DOMAIN fs \cup DOMAIN q.ftx
      /\ \A i \in DOMAIN fs2 : fs2[i] = IF i \in DOMAIN q.ftx THEN q.ftx[i] ELSE fs[i]
  BY DEF Over
<1>2. /\ DOMAIN view = DOMAIN fs \cup DOMAIN u.ftx
      /\ \A i \in DOMAIN view : view[i] = IF i \in DOMAIN u.ftx THEN u.ftx[i] ELSE fs[i]
  BY DEF Over
<1> HIDE DEF fs2
<1>3. /\ DOMAIN then = DOMAIN fs2 \cup DOMAIN u.ftx
      /\ \A i \in DOMAIN then : then[i] = IF i \in DOMAIN u.ftx THEN u.ftx[i] ELSE fs2[i]
  BY DEF Over
<1>4. /\ \A i \in DOMAIN u.tx : u.tx[i].form \in DOMAIN view
      /\ \A g \in DOMAIN u.ftx : \A h \in DOMAIN view \ {g} : view[h].name # u.ftx[g].name
  BY DEF FormsFit
<1>5. \A g \in DOMAIN q.ftx : \A h \in DOMAIN u.ftx : g # h /\ q.ftx[g].name # u.ftx[h].name
  BY DEF Apart
<1> HIDE DEF view, then
<1>6. \A i \in DOMAIN u.tx : u.tx[i].form \in DOMAIN then
  BY <1>1, <1>2, <1>3, <1>4
<1>7. ASSUME NEW g \in DOMAIN u.ftx, NEW h \in DOMAIN then \ {g} PROVE then[h].name # u.ftx[g].name
  <2>1. CASE h \in DOMAIN q.ftx /\ h \notin DOMAIN u.ftx
    BY <1>1, <1>3, <1>5, <2>1
  <2>2. CASE h \in DOMAIN u.ftx \/ h \notin DOMAIN q.ftx
    <3>1. h \in DOMAIN view /\ view[h] = then[h]
      BY <1>1, <1>2, <1>3, <2>2
    <3> QED
      BY <1>4, <3>1
  <2> QED
    BY <2>1, <2>2
<1> QED
  BY <1>6, <1>7 DEF FormsFit, then, fs2

(***************************************************************************)
(* A step leaves the other requests as they are.                           *)
(***************************************************************************)

LEMMA IdleFits ==
    ASSUME NEW r, NEW q, IdleRows(q), NEW t, NEW fs, FieldsOK(t, fs), StackOK(q), AtWork(q),
           q.pc # "done" => DOMAIN t \cap NewOf(r) = {}
    PROVE  Fits(r, q, t, fs) /\ \A u : Apart(q, u, t)
<1>1. DOMAIN q.tx = {} /\ IsFiniteSet(DOMAIN q.tx) /\ q.gone = {} /\ DOMAIN q.ftx = {}
  BY NothingIs DEF IdleRows
<1>2. DOMAIN Over(t, q.tx, q.gone) = DOMAIN t /\ \A i \in DOMAIN t : Over(t, q.tx, q.gone)[i] = t[i]
  BY <1>1 DEF Over
<1>3. FieldsFit(q, t)
  BY <1>1, <1>2 DEF FieldsFit, FieldsOK
<1>4. FormsFit(q, fs)
  BY <1>1 DEF FormsFit
<1>5. Refs(q.tx, t) = {}
  BY <1>1 DEF Refs
<1> QED
  BY <1>1, <1>3, <1>4, <1>5 DEF Fits, Apart

LEMMA DoneIs ==
    ASSUME NEW code \in {200, 404, 409, 422, 500}
    PROVE  /\ ReqOK(Done(code)) /\ IdleRows(Done(code)) /\ StackOK(Done(code)) /\ AtWork(Done(code))
           /\ Done(code).pc = "done"
<1> DEFINE q == Done(code)
<1>1. /\ DOMAIN q = DOMAIN Idle /\ q.pc = "done" /\ q.code = code /\ q.made = 0 /\ q.tx = Nothing /\ q.ftx = Nothing
      /\ q.gone = {} /\ q.doomed = {} /\ q.moved = {} /\ q.visit = {} /\ q.stack = <<>> /\ q.up = NULL
  BY DEF Done, Idle
<1> HIDE DEF q
<1>2. DOMAIN q.tx = {} /\ DOMAIN q.ftx = {}
  BY <1>1, NothingIs
<1>3. ReqOK(q)
  BY <1>1, <1>2 DEF ReqOK, Stages
<1>4. IdleRows(q) /\ AtWork(q)
  BY <1>1 DEF IdleRows, AtWork
<1>5. StackOK(q)
  <2>1. q.stack \in Seq({q.stack[k] : k \in DOMAIN q.stack}) /\ DOMAIN q.stack = {}
    BY <1>1
  <2> QED
    BY <2>1 DEF StackOK
<1> QED
  BY <1>1, <1>3, <1>4, <1>5 DEF q

LEMMA GoesKeeps ==
    ASSUME IInv, NEW r \in Requests, NEW q, Goes(r, q), ReqOK(q), Fits(r, q, fields, forms),
           \A s \in Requests \ {r} : Apart(q, req[s], fields)
    PROVE  IInv'
<1>1. /\ forms' = forms /\ fields' = fields /\ raced' = raced /\ DOMAIN req' = Requests
      /\ req'[r] = q /\ \A s \in Requests \ {r} : req'[s] = req[s]
  BY DEF Goes, IInv, TypeOK
<1>2. FormsOK(forms) /\ FieldsOK(fields, forms) /\ raced \in BOOLEAN /\ IsFiniteSet(DOMAIN fields)
  BY DEF IInv, TypeOK, Isolated
<1>3. \A s \in Requests : ReqOK(req'[s]) /\ Fits(s, req'[s], fields, forms)
  BY <1>1 DEF IInv, TypeOK, Isolated
<1>4. ASSUME NEW s \in Requests, NEW u \in Requests, s # u PROVE Apart(req'[s], req'[u], fields)
  <2>1. CASE s = r
    BY <1>1, <1>4, <2>1
  <2>2. CASE u = r
    <3>1. Apart(q, req[s], fields)
      BY <1>4, <2>2
    <3>2. ASSUME NEW t, NEW p, t = fields, p = req[s] PROVE Apart(p, q, t)
      BY <3>1, <3>2, ApartIsSymmetric
    <3> QED
      BY <1>1, <1>4, <2>2, <3>2
  <2>3. CASE s # r /\ u # r
    BY <1>1, <1>4, <2>3 DEF IInv, Isolated
  <2> QED
    BY <2>1, <2>2, <2>3
<1>5. TypeOK'
  BY <1>1, <1>2, <1>3 DEF TypeOK
<1>6. Isolated'
  BY <1>1, <1>2, <1>3, <1>4 DEF Isolated
<1> QED
  BY <1>5, <1>6 DEF IInv

LEMMA DoneKeeps ==
    ASSUME IInv, NEW r \in Requests, NEW code \in {200, 404, 409, 422, 500}, Goes(r, Done(code))
    PROVE  IInv'
<1> DEFINE q == Done(code)
<1>1. ReqOK(q) /\ IdleRows(q) /\ StackOK(q) /\ AtWork(q) /\ q.pc = "done" /\ Goes(r, q)
  BY DoneIs
<1> HIDE DEF q
<1>2. ASSUME NEW t, NEW fs, FieldsOK(t, fs) PROVE Fits(r, q, t, fs) /\ \A u : Apart(q, u, t)
  BY <1>1, <1>2, IdleFits
<1>3. FieldsOK(fields, forms)
  BY DEF IInv, TypeOK
<1> QED
  BY <1>1, <1>2, <1>3, GoesKeeps

\* It does not matter to a transaction that others have committed meanwhile.
LEMMA LateIs ==
    ASSUME NEW q, ReqOK(q)
    PROVE  LET p == [q EXCEPT !.late = TRUE] IN
           /\ ReqOK(p) /\ p.pc = q.pc
           /\ \A r, t, fs : Fits(r, q, t, fs) => Fits(r, p, t, fs)
           /\ \A u, t : (Apart(q, u, t) => Apart(p, u, t)) /\ (Apart(u, q, t) => Apart(u, p, t))
<1> DEFINE p == [q EXCEPT !.late = TRUE]
<1>1. /\ DOMAIN p = DOMAIN q /\ p.pc = q.pc /\ p.op = q.op /\ p.seen = q.seen /\ p.tx = q.tx /\ p.gone = q.gone
      /\ p.ftx = q.ftx /\ p.stack = q.stack /\ p.up = q.up /\ p.visit = q.visit /\ p.moved = q.moved
      /\ p.doomed = q.doomed /\ p.made = q.made /\ p.code = q.code
  BY DEF ReqOK, Idle
<1> HIDE DEF p
<1>2. ReqOK(p)
  BY <1>1 DEF ReqOK
<1>3. (StackOK(q) => StackOK(p)) /\ (AtWork(q) => AtWork(p))
  BY <1>1 DEF StackOK, AtWork
<1>4. ASSUME NEW r, NEW t, NEW fs, Fits(r, q, t, fs) PROVE Fits(r, p, t, fs)
  <2>1. FieldsFit(p, t) /\ FormsFit(p, fs)
    BY <1>1, <1>4 DEF Fits, FieldsFit, FormsFit
  <2> QED
    BY <1>1, <1>3, <1>4, <2>1 DEF Fits
<1>5. ASSUME NEW u, NEW t PROVE (Apart(q, u, t) => Apart(p, u, t)) /\ (Apart(u, q, t) => Apart(u, p, t))
  BY <1>1 DEF Apart
<1> QED
  BY <1>1, <1>2, <1>4, <1>5 DEF p

\* r commits, and what it leaves fits to what the others have.
LEMMA CommitKeeps ==
    ASSUME IInv, NEW r \in Requests, req' = Answer(r, 200), raced' \in BOOLEAN,
           NEW t, NEW fs, fields' = t, forms' = fs, FormsOK(fs), FieldsOK(t, fs), IsFiniteSet(DOMAIN t),
           \A s \in Requests \ {r} : Fits(s, req[s], t, fs),
           \A s, u \in Requests \ {r} : s # u => Apart(req[s], req[u], t)
    PROVE  IInv'
<1> DEFINE done == Done(200)
<1>1. ReqOK(done) /\ IdleRows(done) /\ StackOK(done) /\ AtWork(done) /\ done.pc = "done"
  BY DoneIs
<1>2. /\ DOMAIN req' = Requests /\ req'[r] = done
      /\ \A s \in Requests \ {r} : req'[s] = req[s] \/ req'[s] = [req[s] EXCEPT !.late = TRUE]
  BY DEF Answer
<1> HIDE DEF done
<1>3. Fits(r, done, t, fs) /\ \A u : Apart(done, u, t)
  BY <1>1, IdleFits
<1>4. ASSUME NEW s \in Requests \ {r}
      PROVE  /\ ReqOK(req'[s]) /\ Fits(s, req'[s], t, fs)
             /\ \A u : (Apart(req[s], u, t) => Apart(req'[s], u, t)) /\ (Apart(u, req[s], t) => Apart(u, req'[s], t))
  <2>1. ReqOK(req[s]) /\ Fits(s, req[s], t, fs)
    BY DEF IInv, TypeOK
  <2>2. CASE req'[s] = req[s]
    BY <2>1, <2>2
  <2>3. CASE req'[s] = [req[s] EXCEPT !.late = TRUE]
    <3>1. ASSUME NEW q, q = req[s]
          PROVE  LET p == [q EXCEPT !.late = TRUE] IN
                 /\ ReqOK(p) /\ Fits(s, p, t, fs)
                 /\ \A u : (Apart(q, u, t) => Apart(p, u, t)) /\ (Apart(u, q, t) => Apart(u, p, t))
      BY <2>1, <3>1, LateIs
    <3> QED
      BY <2>3, <3>1
  <2> QED
    BY <1>2, <2>2, <2>3
<1>5. \A s \in Requests : ReqOK(req'[s]) /\ Fits(s, req'[s], t, fs)
  BY <1>1, <1>2, <1>3, <1>4
<1>6. ASSUME NEW s \in Requests, NEW u \in Requests, s # u PROVE Apart(req'[s], req'[u], t)
  <2>1. CASE s = r
    BY <1>2, <1>3, <2>1
  <2>2. CASE u = r
    <3>1. ASSUME NEW p, p = req'[s] PROVE Apart(p, done, t)
      BY <1>3, ApartIsSymmetric
    <3> QED
      BY <1>2, <2>2, <3>1
  <2>3. CASE s # r /\ u # r
    BY <1>4, <1>6, <2>3
  <2> QED
    BY <2>1, <2>2, <2>3
<1>7. TypeOK'
  BY <1>2, <1>5 DEF TypeOK
<1>8. Isolated'
  BY <1>5, <1>6 DEF Isolated
<1> QED
  BY <1>7, <1>8 DEF IInv

(***************************************************************************)
(* What an open request has and sees.                                      *)
(***************************************************************************)

LEMMA OpIs ==
    ASSUME IInv, NEW r \in Requests, Open(r)
    PROVE  /\ ReqOK(req[r]) /\ Body(req[r].op) /\ Fits(r, req[r], fields, forms) /\ AtWork(req[r]) /\ StackOK(req[r])
           /\ \A s \in Requests \ {r} : Apart(req[r], req[s], fields)
           /\ FormsOK(forms) /\ FieldsOK(fields, forms) /\ IsFiniteSet(DOMAIN fields)
<1>1. ReqOK(req[r]) /\ req[r].pc \notin {"idle", "done"} /\ Fits(r, req[r], fields, forms)
  BY DEF IInv, TypeOK, Isolated, Open
<1>2. Body(req[r].op)
  BY <1>1, OpsAssumption DEF ReqOK
<1> QED
  BY <1>1, <1>2 DEF Fits, IInv, TypeOK, Isolated

LEMMA ViewIs ==
    ASSUME IInv, NEW r \in Requests, Open(r)
    PROVE  /\ View(r) = Over(fields, req[r].tx, req[r].gone)
           /\ DOMAIN View(r) = (DOMAIN fields \ req[r].gone) \cup DOMAIN req[r].tx
           /\ DOMAIN View(r) \subseteq FieldIds /\ IsFiniteSet(DOMAIN View(r))
           /\ \A i \in DOMAIN View(r) : FieldOK(View(r)[i])
           /\ DOMAIN FormsView(r) = DOMAIN forms \cup DOMAIN req[r].ftx /\ DOMAIN FormsView(r) \subseteq FormIds
<1>1. /\ DOMAIN View(r) = (DOMAIN fields \ req[r].gone) \cup DOMAIN req[r].tx
      /\ \A i \in DOMAIN View(r) : View(r)[i] = IF i \in DOMAIN req[r].tx THEN req[r].tx[i] ELSE fields[i]
      /\ View(r) = Over(fields, req[r].tx, req[r].gone)
  BY DEF View, Over
<1>2. DOMAIN FormsView(r) = DOMAIN forms \cup DOMAIN req[r].ftx
  BY DEF FormsView, Over
<1>3. /\ DOMAIN req[r].tx \subseteq FieldIds /\ \A i \in DOMAIN req[r].tx : FieldOK(req[r].tx[i])
      /\ DOMAIN req[r].ftx \subseteq FormIds /\ IsFiniteSet(DOMAIN req[r].tx)
  BY OpIs DEF ReqOK, Fits
<1>4. /\ DOMAIN fields \subseteq FieldIds /\ \A i \in DOMAIN fields : FieldOK(fields[i])
      /\ DOMAIN forms \subseteq FormIds /\ IsFiniteSet(DOMAIN fields)
  BY OpIs DEF FieldsOK, FormsOK
<1>5. IsFiniteSet(DOMAIN fields \ req[r].gone)
  BY <1>4, FS_Subset
<1>6. IsFiniteSet(DOMAIN View(r))
  <2>1. IsFiniteSet((DOMAIN fields \ req[r].gone) \cup DOMAIN req[r].tx)
    BY <1>3, <1>5, FS_Union
  <2> QED
    BY <1>1, <2>1
<1>7. \A i \in DOMAIN View(r) : FieldOK(View(r)[i])
  BY <1>1, <1>3, <1>4
<1> QED
  BY <1>1, <1>2, <1>3, <1>4, <1>6, <1>7

LEMMA ProceedsKeeps ==
    ASSUME IInv, NEW r \in Requests, Open(r), NEW q, Goes(r, q), Onward(req[r], q), SameRows(req[r], q)
    PROVE  IInv'
<1>1. /\ ReqOK(req[r]) /\ Fits(r, req[r], fields, forms) /\ req[r].pc \notin {"idle", "done"}
      /\ \A s \in Requests \ {r} : Apart(req[r], req[s], fields)
  BY OpIs DEF Open
<1>2. ReqOK(q)
  BY <1>1 DEF ReqOK, Onward, SameRows
<1>3. Fits(r, q, fields, forms)
  <2>1. FieldsFit(q, fields) /\ FormsFit(q, forms)
    BY <1>1 DEF Fits, FieldsFit, FormsFit, SameRows
  <2> QED
    BY <1>1, <2>1 DEF Fits, Onward, SameRows
<1>4. \A s \in Requests \ {r} : Apart(q, req[s], fields)
  BY <1>1 DEF Apart, SameRows
<1> QED
  BY <1>2, <1>3, <1>4, GoesKeeps

(***************************************************************************)
(* A flush that the database accepts.                                      *)
(***************************************************************************)

LEMMA FlushKeeps ==
    ASSUME IInv, NEW r \in Requests, Open(r), NEW ins, NEW ups, NEW del, Writes(r, ins, ups),
           Free(r, ins, ups, del), Failure(r, ins, ups) = NULL, NEW p, HasFlushed(r, ins, ups, del, p)
    PROVE  /\ DOMAIN p.tx \subseteq FieldIds /\ \A i \in DOMAIN p.tx : FieldOK(p.tx[i])
           /\ p.gone \subseteq FieldIds \ DOMAIN p.tx
           /\ IsFiniteSet(DOMAIN p.tx) /\ DOMAIN p.tx \subseteq DOMAIN fields \cup NewOf(r)
           /\ FieldsFit(p, fields) /\ FormsFit(p, forms)
           /\ \A s \in Requests \ {r} : Apart(p, req[s], fields)
           /\ Over(fields, p.tx, p.gone) =
                 RowsIn(Saved(r, ins, ups), DOMAIN Saved(r, ins, ups) \ Below(Saved(r, ins, ups), del))
<1> DEFINE q == req[r]
           view == View(r)
           new == Saved(r, ins, ups)
           written == Written(r, ins, ups)
           dead == Below(new, del)
<1>1. /\ view = Over(fields, q.tx, q.gone) /\ DOMAIN view = (DOMAIN fields \ q.gone) \cup DOMAIN q.tx
      /\ DOMAIN view \subseteq FieldIds /\ IsFiniteSet(DOMAIN view) /\ \A i \in DOMAIN view : FieldOK(view[i])
      /\ DOMAIN FormsView(r) = DOMAIN forms \cup DOMAIN q.ftx /\ DOMAIN FormsView(r) \subseteq FormIds
  BY ViewIs
<1>2. ReqOK(q) /\ Fits(r, q, fields, forms) /\ q.pc # "done" /\ \A s \in Requests \ {r} : Apart(q, req[s], fields)
  BY OpIs DEF Open
<1>3. /\ IsFiniteSet(DOMAIN ins) /\ DOMAIN ins \subseteq NewOf(r) /\ \A i \in DOMAIN ins : RowShape(ins[i])
      /\ \A i \in DOMAIN ups : SetShape(ups[i])
  BY DEF Writes
<1>4. DOMAIN ups \subseteq DOMAIN view /\ Sound(r, new, written)
  BY NullAssumption DEF Failure
<1>5. /\ DOMAIN new = DOMAIN view \cup DOMAIN ins
      /\ \A i \in DOMAIN new : new[i] = IF i \in DOMAIN ins THEN ins[i]
                                        ELSE IF i \in DOMAIN ups THEN Assign(view[i], ups[i]) ELSE view[i]
      /\ written = DOMAIN ins \cup (DOMAIN ups \cap DOMAIN view)
  BY DEF Saved, Written
<1>6. /\ p.tx = [i \in (DOMAIN q.tx \cup written) \ dead |-> new[i]] /\ p.gone = q.gone \cup (dead \cap DOMAIN fields)
      /\ p.ftx = q.ftx
  BY DEF HasFlushed
<1>8. \A s \in Requests \ {r} : Open(s) =>
        /\ (written \cup dead) \cap (DOMAIN req[s].tx \cup req[s].gone) = {}
        /\ {FormKey(new[i]) : i \in written} \cap {FormKey(req[s].tx[j]) : j \in DOMAIN req[s].tx} = {}
        /\ {new[i].parent : i \in {j \in written : j \in DOMAIN fields => fields[j].parent # new[j].parent}}
              \cap req[s].gone = {}
        /\ Referred(s) \cap dead = {}
  BY DEF Free
<1>9. IsFiniteSet(DOMAIN new)
  <2>1. IsFiniteSet(DOMAIN view \cup DOMAIN ins)
    BY <1>1, <1>3, FS_Union
  <2> QED
    BY <1>5, <2>1
<1>10. dead \subseteq DOMAIN new /\ \A i \in DOMAIN new : new[i].parent \in dead => i \in dead
  <2> HIDE DEF new
  <2> QED
    BY <1>9, BelowIs
<1>11. \A i \in written :
          /\ new[i].key # NULL /\ new[i].label # NULL
          /\ new[i].form \in DOMAIN FormsView(r) /\ new[i].parent \in DOMAIN new \cup {NULL}
          /\ \A j \in DOMAIN new \ {i} : FormKey(new[j]) # FormKey(new[i])
  BY <1>4 DEF Sound
<1> HIDE DEF q, view, new, written, dead
<1>12. DOMAIN new \subseteq FieldIds
  BY <1>1, <1>3, <1>5 DEF FieldIds, NewOf
<1>13. \A i \in DOMAIN new \ written : new[i] = view[i]
  BY <1>4, <1>5
<1>14. ASSUME NEW i \in written PROVE FieldOK(new[i])
  <2>1. new[i].form \in FormIds /\ new[i].parent \in FieldIds \cup {NULL} /\ new[i].key # NULL /\ new[i].label # NULL
    BY <1>1, <1>11, <1>12
  <2>2. CASE i \in DOMAIN ins
    BY <1>3, <1>5, <2>1, <2>2 DEF FieldOK, RowShape
  <2>3. CASE i \notin DOMAIN ins
    <3>1. i \in DOMAIN view /\ i \in DOMAIN ups /\ new[i] = Assign(view[i], ups[i])
      BY <1>5, <2>3
    <3>2. FieldOK(view[i]) /\ SetShape(ups[i])
      BY <1>1, <1>3, <3>1
    <3> QED
      BY <2>1, <3>1, <3>2 DEF FieldOK, SetShape, Assign
  <2> QED
    BY <2>2, <2>3
<1>15. written \cap q.gone = {}
  <2>1. q.gone \subseteq DOMAIN fields /\ DOMAIN q.tx \cap q.gone = {} /\ DOMAIN fields \cap NewOf(r) = {}
    BY <1>2 DEF Fits, FieldsFit
  <2> QED
    BY <1>1, <1>3, <1>5, <2>1
<1>16. FlushOf(fields, q, new, written, dead, p)
  BY <1>1, <1>5, <1>6, <1>10, <1>11, <1>13, <1>15 DEF FlushOf
<1>17. FieldsFit(q, fields)
  BY <1>2 DEF Fits
<1>18. FieldsFit(p, fields) /\ Over(fields, p.tx, p.gone) = RowsIn(new, DOMAIN new \ dead)
  <2>1. ASSUME NEW t, t = fields
        PROVE  FieldsFit(p, t) /\ Over(t, p.tx, p.gone) = RowsIn(new, DOMAIN new \ dead)
    <3>1. FieldsFit(q, t) /\ FlushOf(t, q, new, written, dead, p)
      BY <1>16, <1>17, <2>1
    <3> QED
      BY <3>1, FlushFits
  <2> QED
    BY <2>1
<1>19. DOMAIN p.tx = (DOMAIN q.tx \cup written) \ dead /\ \A i \in DOMAIN p.tx : p.tx[i] = new[i]
  BY <1>6
<1>20. DOMAIN p.tx \subseteq FieldIds /\ \A i \in DOMAIN p.tx : FieldOK(p.tx[i])
  BY <1>1, <1>5, <1>12, <1>13, <1>14, <1>19
<1>21. p.gone \subseteq FieldIds \ DOMAIN p.tx
  <2>1. p.gone \subseteq DOMAIN fields /\ DOMAIN p.tx \cap p.gone = {} /\ DOMAIN fields \subseteq FieldIds
    BY <1>18, OpIs DEF FieldsFit, FieldsOK
  <2> QED
    BY <2>1
<1>22. IsFiniteSet(DOMAIN p.tx) /\ DOMAIN p.tx \subseteq DOMAIN fields \cup NewOf(r)
  <2>1. DOMAIN p.tx \subseteq DOMAIN new
    BY <1>1, <1>5, <1>19
  <2>2. DOMAIN q.tx \subseteq DOMAIN fields \cup NewOf(r)
    BY <1>2 DEF Fits
  <2> QED
    BY <1>1, <1>3, <1>5, <1>9, <1>19, <2>1, <2>2, FS_Subset
<1>23. FormsFit(p, forms)
  <2>1. FormsFit(q, forms) /\ DOMAIN Over(forms, q.ftx, {}) = DOMAIN FormsView(r)
    BY <1>2 DEF Fits, FormsView, q
  <2>2. ASSUME NEW i \in DOMAIN p.tx PROVE p.tx[i].form \in DOMAIN Over(forms, q.ftx, {})
    <3>1. CASE i \in written
      BY <1>11, <1>19, <2>1, <3>1
    <3>2. CASE i \notin written
      <4>1. i \in DOMAIN q.tx /\ p.tx[i] = view[i] /\ view[i] = q.tx[i]
        BY <1>1, <1>5, <1>13, <1>19, <3>2 DEF Over
      <4> QED
        BY <2>1, <4>1 DEF FormsFit
    <3> QED
      BY <3>1, <3>2
  <2> QED
    BY <1>6, <2>1, <2>2 DEF FormsFit
<1>24. ASSUME NEW s \in Requests \ {r} PROVE Apart(p, req[s], fields)
  <2>1. CASE Open(s)
    <3>1. Referred(s) = Refs(req[s].tx, fields)
      BY DEF Referred, Refs
    <3>2. ASSUME NEW u, NEW t, u = req[s], t = fields PROVE Apart(p, u, t)
      <4>1. /\ Apart(q, u, t) /\ (written \cup dead) \cap (DOMAIN u.tx \cup u.gone) = {}
            /\ {FormKey(new[i]) : i \in written} \cap {FormKey(u.tx[j]) : j \in DOMAIN u.tx} = {}
            /\ {new[i].parent : i \in {j \in written : j \in DOMAIN t => t[j].parent # new[j].parent}} \cap u.gone = {}
            /\ Refs(u.tx, t) \cap dead = {}
        BY <1>2, <1>8, <2>1, <3>1, <3>2
      <4>2. FieldsFit(q, t) /\ FlushOf(t, q, new, written, dead, p)
        BY <1>16, <1>17, <3>2
      <4> QED
        BY <1>6, <4>1, <4>2, FlushApart
    <3> QED
      BY <3>2
  <2>2. CASE ~Open(s)
    <3>1. /\ AtWork(req[s]) /\ StackOK(req[s]) /\ req[s].pc \in {"idle", "done"}
          /\ (req[s].pc # "done" => DOMAIN fields \cap NewOf(s) = {})
      BY <2>2 DEF IInv, Isolated, Fits, Open
    <3>2. IdleRows(req[s])
      BY <3>1 DEF AtWork, IdleRows
    <3>3. ASSUME NEW u, NEW t, NEW fs, u = req[s], t = fields, fs = forms PROVE Apart(p, u, t)
      <4>1. /\ IdleRows(u) /\ FieldsOK(t, fs) /\ StackOK(u) /\ AtWork(u) 
            /\ (u.pc # "done" => DOMAIN t \cap NewOf(s) = {})
        BY <3>1, <3>2, <3>3, OpIs
      <4>2. Apart(u, p, t)
        BY <4>1, IdleFits
      <4> QED
        BY <4>2, ApartIsSymmetric
    <3> QED
      BY <3>3
  <2> QED
    BY <2>1, <2>2
<1> QED
  BY <1>18, <1>20, <1>21, <1>22, <1>23, <1>24 DEF new, dead

\* A request that has flushed goes on.
LEMMA FlushedKeeps ==
    ASSUME IInv, NEW r \in Requests, Open(r), NEW ins, NEW ups, NEW del, Writes(r, ins, ups),
           Free(r, ins, ups, del), Failure(r, ins, ups) = NULL,
           NEW q, Goes(r, q), Onward(req[r], q), HasFlushed(r, ins, ups, del, q)
    PROVE  IInv'
<1>1. /\ ReqOK(req[r]) /\ Fits(r, req[r], fields, forms) /\ req[r].pc \notin {"idle", "done"}
  BY OpIs DEF Open
<1>2. /\ DOMAIN q.tx \subseteq FieldIds /\ \A i \in DOMAIN q.tx : FieldOK(q.tx[i])
      /\ q.gone \subseteq FieldIds \ DOMAIN q.tx
      /\ IsFiniteSet(DOMAIN q.tx) /\ DOMAIN q.tx \subseteq DOMAIN fields \cup NewOf(r)
      /\ FieldsFit(q, fields) /\ FormsFit(q, forms)
      /\ \A s \in Requests \ {r} : Apart(q, req[s], fields)
  BY FlushKeeps
<1>3. q.ftx = req[r].ftx
  BY DEF HasFlushed
<1>4. ReqOK(q)
  BY <1>1, <1>2, <1>3 DEF ReqOK, Onward
<1>5. Fits(r, q, fields, forms)
  BY <1>1, <1>2 DEF Fits, Onward
<1> QED
  BY <1>2, <1>4, <1>5, GoesKeeps

LEMMA StackFits ==
    ASSUME NEW q, NEW T, q.stack \in Seq(T), \A f \in T : "rest" \in DOMAIN f /\ f.rest \in Seq(Nodes)
    PROVE  StackOK(q)
<1> DEFINE s == q.stack
<1>1. s \in Seq({s[k] : k \in DOMAIN s}) /\ \A k \in DOMAIN s : s[k] \in T
  <2> HIDE DEF s
  <2>1. s \in Seq(T)
    BY DEF s
  <2> QED
    BY <2>1
<1> QED
  BY <1>1 DEF StackOK

LEMMA SyncIs ==
    ASSUME NEW r, NEW q, DOMAIN q = DOMAIN Idle, StackOK(q), NEW form, NEW parent, NEW nodes \in Seq(Nodes)
    PROVE  LET p == Sync(r, q, form, parent, nodes) IN
           Alike(q, p) /\ p.pc = "syncing" /\ p.stack # <<>> /\ StackOK(p)
<1> DEFINE p == Sync(r, q, form, parent, nodes)
           f == Frame(r, q, form, parent, nodes)
           T == {q.stack[k] : k \in DOMAIN q.stack}
<1>1. "rest" \in DOMAIN f /\ f.rest = nodes
  BY DEF Frame
<1> HIDE DEF f
<1>2. Alike(q, p) /\ p.pc = "syncing" /\ p.stack = <<f>> \o q.stack
  BY DEF Sync, Idle, Alike, f
<1> HIDE DEF p
<1>3. q.stack \in Seq(T) /\ \A g \in T : "rest" \in DOMAIN g /\ g.rest \in Seq(Nodes)
  BY DEF StackOK
<1> HIDE DEF T
<1>4. p.stack \in Seq(T \cup {f}) /\ p.stack # <<>>
  BY <1>2, <1>3
<1>5. \A g \in T \cup {f} : "rest" \in DOMAIN g /\ g.rest \in Seq(Nodes)
  BY <1>1, <1>3
<1>6. StackOK(p)
  BY <1>4, <1>5, StackFits
<1> QED
  BY <1>2, <1>4, <1>6 DEF p

LEMMA FlushedIs ==
    ASSUME NEW r \in Requests, ReqOK(req[r]), NEW ins, IsFiniteSet(DOMAIN ins), NEW ups, NEW del
    PROVE  LET p == req[r]
               q == Flushed(p, r, ins, ups, del)
           IN  /\ DOMAIN q = DOMAIN Idle /\ q.pc = p.pc /\ q.op = p.op /\ q.seen = p.seen /\ q.code = p.code
               /\ q.made \in Nat /\ q.doomed = {} /\ q.moved = {} /\ q.visit = p.visit /\ q.up = p.up
               /\ q.stack = p.stack /\ HasFlushed(r, ins, ups, del, q)
<1> DEFINE p == req[r]
           q == Flushed(p, r, ins, ups, del)
           n == Cardinality(DOMAIN ins)
<1>1. n \in Nat
  BY FS_CardinalityType
<1>2. DOMAIN p = DOMAIN Idle /\ p.made \in Nat
  BY DEF ReqOK
<1> HIDE DEF p, n
<1>3. /\ DOMAIN q = DOMAIN Idle /\ q.pc = p.pc /\ q.op = p.op /\ q.seen = p.seen /\ q.code = p.code
      /\ q.made = p.made + n /\ q.doomed = {} /\ q.moved = {} /\ q.visit = p.visit /\ q.up = p.up
      /\ q.stack = p.stack /\ q.ftx = p.ftx
  BY <1>2 DEF Flushed, Idle, n
<1>4. /\ q.tx = [i \in (DOMAIN p.tx \cup Written(r, ins, ups)) \ Below(Saved(r, ins, ups), del) |-> Saved(r, ins, ups)[i]]
      /\ q.gone = p.gone \cup (Below(Saved(r, ins, ups), del) \cap DOMAIN fields)
  BY <1>2 DEF Flushed, Idle, p
<1> HIDE DEF q
<1>5. HasFlushed(r, ins, ups, del, q)
  BY <1>3, <1>4 DEF HasFlushed, p
<1> QED
  BY <1>1, <1>2, <1>3, <1>5 DEF q, p

LEMMA SyncOn ==
    ASSUME NEW r, NEW p, Writing(p), NEW q, Ready(p, q), NEW form, NEW parent, NEW nodes \in Seq(Nodes)
    PROVE  LET z == Sync(r, q, form, parent, nodes) IN Onward(p, z) /\ SameRows(q, z)
<1> DEFINE z == Sync(r, q, form, parent, nodes)
<1>1. Alike(q, z) /\ z.pc = "syncing" /\ z.stack # <<>> /\ StackOK(z)
  BY SyncIs DEF Ready
<1> HIDE DEF z
<1>2. AtWork(z)
  BY <1>1 DEF AtWork, Writing, Alike, Ready
<1>3. Onward(p, z)
  BY <1>1, <1>2 DEF Onward, Alike, Ready, Stages
<1> QED
  BY <1>1, <1>3 DEF SameRows, Alike, z

LEMMA CloseOn ==
    ASSUME NEW p, Writing(p), NEW q, Ready(p, q), q.stack = <<>>
    PROVE  LET z == [q EXCEPT !.pc = "closing"] IN Onward(p, z) /\ SameRows(q, z)
<1> DEFINE z == [q EXCEPT !.pc = "closing"]
<1>1. Alike(q, z) /\ z.pc = "closing" /\ z.stack = q.stack
  BY DEF Ready, Idle, Alike
<1> HIDE DEF z
<1>2. AtWork(z) /\ StackOK(z)
  BY <1>1 DEF AtWork, StackOK, Writing, Alike, Ready
<1>3. Onward(p, z)
  BY <1>1, <1>2 DEF Onward, Alike, Ready, Stages
<1> QED
  BY <1>1, <1>3 DEF SameRows, Alike, z

\* What HasFlushed says is of the rows only.
LEMMA SameFlush ==
    ASSUME NEW r, NEW ins, NEW ups, NEW del, NEW q, HasFlushed(r, ins, ups, del, q), NEW z, SameRows(q, z)
    PROVE  HasFlushed(r, ins, ups, del, z)
BY DEF HasFlushed, SameRows

(***************************************************************************)
(* Loading and checking.                                                   *)
(***************************************************************************)

LEMMA LoadIs ==
    ASSUME IInv, NEW o, Body(o)
    PROVE  LoadOK(o)
<1>1. /\ IsFiniteSet(DOMAIN fields) /\ DOMAIN fields \subseteq FieldIds
      /\ \A f \in DOMAIN fields : FieldOK(fields[f])
      /\ \A g \in DOMAIN forms : FormOK(forms[g])
  BY DEF IInv, TypeOK, Isolated, FieldsOK, FormsOK
<1>2. o.kind \in {"newForm", "editForm", "dropForm", "newField", "editField", "dropField", "seed"}
  BY DEF Body
<1>3. Refusal(o) \in {NULL, 404, 422}
  BY <1>2 DEF Refusal
<1>4. /\ FirstStage(o) \in {"walking", "flushing", "closing"}
      /\ FirstStage(o) = "walking" => Assign(fields[o.field], o.set).parent # NULL
      /\ o.kind \in {"newForm", "editForm", "dropForm"} => FirstStage(o) = "closing"
  BY <1>2 DEF FirstStage
<1>5. NULL \notin {404, 422}
  BY NullAssumption
<1>6. Refusal(o) = NULL /\ o.kind = "editForm" => FormOK(Seen(o))
  <2> SUFFICES ASSUME Refusal(o) = NULL, o.kind = "editForm" PROVE FormOK(Seen(o))
    OBVIOUS
  <2>1. o.form \in DOMAIN forms
    BY <1>5 DEF Refusal
  <2>2. Seen(o) = forms[o.form]
    BY DEF Seen
  <2> QED
    BY <1>1, <2>1, <2>2
<1>7. Refusal(o) = NULL /\ o.kind = "editField" => FieldOK(Seen(o))
  <2> SUFFICES ASSUME Refusal(o) = NULL, o.kind = "editField" PROVE FieldOK(Seen(o))
    OBVIOUS
  <2>1. o.field \in DOMAIN fields
    BY <1>5 DEF Refusal
  <2>2. Seen(o) = fields[o.field]
    BY DEF Seen
  <2> QED
    BY <1>1, <2>1, <2>2
<1>8. Reached(o) \subseteq FieldIds
  <2>1. \A S : Below(fields, S) \subseteq FieldIds
    <3>1. ASSUME NEW t, t = fields PROVE \A S : Below(t, S) \subseteq DOMAIN t
      BY <1>1, <3>1, BelowIs
    <3> QED
      BY <1>1, <3>1
  <2> QED
    BY <1>2, <2>1 DEF Reached
<1> QED
  BY <1>3, <1>4, <1>6, <1>7, <1>8 DEF LoadOK

\* A request that loads is refused, or has loaded.
LEMMA LoadGoes ==
    ASSUME NEW r \in Requests, NEW o, Load(r, o)
    PROVE  \/ Refusal(o) # NULL /\ Goes(r, Done(Refusal(o)))
           \/ Refusal(o) = NULL /\ \E q : Goes(r, q) /\ Loaded(o, q)
<1> DEFINE up == IF FirstStage(o) = "walking" THEN Assign(fields[o.field], o.set).parent ELSE NULL
           q == [Idle EXCEPT !.pc = FirstStage(o), !.op = o, !.seen = Seen(o), !.doomed = Reached(o), !.up = up]
<1>1. IF Refusal(o) # NULL THEN Goes(r, Done(Refusal(o))) ELSE Goes(r, q)
  BY DEF Load, Goes
<1>2. FirstStage(o) = "walking" => up = Assign(fields[o.field], o.set).parent
  OBVIOUS
<1>3. FirstStage(o) # "walking" => up = NULL
  OBVIOUS
<1> HIDE DEF up
<1>4. Loaded(o, q)
  BY <1>2, <1>3 DEF Loaded, Idle
<1> HIDE DEF q
<1> QED
  BY <1>1, <1>4

LEMMA LoadKeeps ==
    ASSUME IInv, NEW r \in Requests, NEW o \in Ops[r], Load(r, o)
    PROVE  IInv'
<1>1. Body(o)
  BY OpsAssumption
<1>2. LoadOK(o)
  BY <1>1, LoadIs
<1>3. CASE Refusal(o) # NULL
  BY <1>2, <1>3, LoadGoes, DoneKeeps DEF LoadOK
<1>4. CASE Refusal(o) = NULL
  <2>1. PICK q : Goes(r, q) /\ Loaded(o, q)
    BY <1>4, LoadGoes
  <2>2. FirstStage(o) = "walking" <=> q.up # NULL
    BY <1>2, <2>1 DEF LoadOK, Loaded
  <2>3. /\ DOMAIN q = DOMAIN Idle /\ q.pc = FirstStage(o) /\ q.op = o /\ q.seen = Seen(o) /\ q.doomed = Reached(o)
        /\ q.tx = Nothing /\ q.gone = {} /\ q.ftx = Nothing /\ q.stack = <<>> /\ q.visit = {}
        /\ q.moved = {} /\ q.made = 0 /\ q.code = NULL
    BY <2>1 DEF Loaded
  <2>4. DOMAIN q.tx = {} /\ DOMAIN q.ftx = {}
    BY <2>3, NothingIs
  <2>5. ReqOK(q)
    BY <1>2, <2>2, <2>3, <2>4 DEF ReqOK, Stages, LoadOK
  <2>6. AtWork(q) /\ IdleRows(q)
    BY <1>2, <1>4, <2>3 DEF AtWork, IdleRows, LoadOK
  <2>7. StackOK(q)
    <3>1. q.stack \in Seq({})
      BY <2>3
    <3> QED
      BY <3>1, StackFits
  <2>8. DOMAIN fields \cap NewOf(r) = {} /\ FieldsOK(fields, forms)
    BY DEF IInv, TypeOK, Isolated, Fits, Load
  <2>9. Fits(r, q, fields, forms) /\ \A s \in Requests : Apart(q, req[s], fields)
    <3>1. ASSUME NEW t, NEW fs, t = fields, fs = forms PROVE Fits(r, q, t, fs) /\ \A u : Apart(q, u, t)
      BY <2>6, <2>7, <2>8, <3>1, IdleFits
    <3> QED
      BY <3>1
  <2> QED
    BY <2>1, <2>5, <2>9, GoesKeeps
<1> QED
  BY <1>3, <1>4

LEMMA WalkKeeps ==
    ASSUME IInv, NEW r \in Requests, Walk(r)
    PROVE  IInv'
<1> DEFINE p == req[r]
           o == p.op
           first == p.walked = Nothing
           there == p.up \in DOMAIN p.walked \cup DOMAIN fields
           other == Ancestor(r).form # Assign(p.seen, o.set).form
           up == Ancestor(r).parent
           walked == IF there THEN Put(p.walked, p.up, Ancestor(r)) ELSE p.walked
           over == [p EXCEPT !.pc = "flushing", !.up = NULL, !.walked = walked]
           on == [p EXCEPT !.up = up, !.walked = walked]
<1>1. p.pc = "walking" /\ Open(r)
  BY DEF Walk, Open
<1>2. ReqOK(p) /\ AtWork(p) /\ StackOK(p)
  BY <1>1, OpIs
<1>3. Goes(r, IF first /\ ~there THEN Done(404)
              ELSE IF first /\ other THEN Done(422)
              ELSE IF there /\ p.up = o.field THEN Done(422)
              ELSE IF ~there \/ up = NULL THEN over ELSE on)
  BY DEF Walk, Goes
<1> HIDE DEF first, there, other, walked, up, o
<1>4. CASE Goes(r, Done(404)) \/ Goes(r, Done(422))
  BY <1>4, DoneKeeps
<1>5. CASE Goes(r, over)
  <2>1. DOMAIN p = DOMAIN Idle
    BY <1>2 DEF ReqOK
  <2> HIDE DEF p
  <2>2. /\ DOMAIN over = DOMAIN Idle /\ over.op = p.op /\ over.seen = p.seen /\ over.code = p.code
        /\ over.made = p.made /\ over.doomed = p.doomed /\ over.moved = p.moved /\ over.visit = p.visit
        /\ over.up = NULL /\ over.pc = "flushing" /\ over.stack = p.stack
        /\ over.tx = p.tx /\ over.gone = p.gone /\ over.ftx = p.ftx
    BY <2>1 DEF Idle
  <2> HIDE DEF over
  <2>3. Onward(p, over) /\ SameRows(p, over)
    <3>1. StackOK(over)
      BY <1>2, <2>2 DEF StackOK
    <3>2. AtWork(over)
      BY <1>1, <1>2, <2>2 DEF AtWork
    <3> QED
      BY <1>1, <1>2, <2>2, <3>1, <3>2 DEF ReqOK, Onward, SameRows, Stages
  <2> QED
    BY <1>1, <1>5, <2>3, ProceedsKeeps DEF p
<1>6. CASE up # NULL /\ Goes(r, on)
  <2>1. DOMAIN p = DOMAIN Idle
    BY <1>2 DEF ReqOK
  <2>4. p.pc = "walking"
    BY <1>1
  <2> HIDE DEF p
  <2>2. /\ DOMAIN on = DOMAIN Idle /\ on.op = p.op /\ on.seen = p.seen /\ on.code = p.code
        /\ on.made = p.made /\ on.doomed = p.doomed /\ on.moved = p.moved /\ on.visit = p.visit
        /\ on.up = up /\ on.pc = "walking" /\ on.stack = p.stack
        /\ on.tx = p.tx /\ on.gone = p.gone /\ on.ftx = p.ftx
    BY <2>1, <2>4 DEF Idle
  <2> HIDE DEF on
  <2>3. Onward(p, on) /\ SameRows(p, on)
    <3>1. StackOK(on)
      BY <1>2, <2>2 DEF StackOK
    <3>2. AtWork(on)
      BY <1>1, <1>2, <2>2 DEF AtWork
    <3> QED
      BY <1>1, <1>2, <1>6, <2>2, <3>1, <3>2 DEF ReqOK, Onward, SameRows, Stages
  <2> QED
    BY <1>1, <1>6, <2>3, ProceedsKeeps DEF p
<1> QED
  BY <1>3, <1>4, <1>5, <1>6

(***************************************************************************)
(* Writing a tree of fields.                                               *)
(***************************************************************************)

LEMMA FlushFormIs ==
    ASSUME IInv, NEW r \in Requests, FlushForm(r)
    PROVE  /\ req[r].pc = "flushing" /\ req[r].op.kind = "seed" /\ Open(r) /\ calm' = calm
           /\ \/ Goes(r, Done(500))
              \/ \E q : /\ SameButForms(req[r], q) /\ FormWritten(r, req[r], q)
                        /\ Goes(r, Sync(r, q, To(r, req[r]), NULL, req[r].op.fields))
<1> DEFINE p     == req[r]
           o     == p.op
           seen  == p.seen
           id    == IF seen = NULL THEN r ELSE seen.id
           row   == IF seen = NULL THEN o.row ELSE Flush(forms[id], seen.row, o.row)
           clean == seen # NULL /\ seen.row = o.row
           there == seen = NULL \/ id \in DOMAIN forms
           ftx   == [g \in {id} |-> row]
           to    == [p EXCEPT !.ftx = ftx]
           q     == IF clean THEN p ELSE to
           fine  == clean \/ (there /\ FormStorable(id, row))
<1>1. p.pc = "flushing" /\ o.kind = "seed" /\ Open(r) /\ calm' = calm /\ (~clean /\ there => FormFree(r, id, row.name))
  BY DEF FlushForm, Open
<1>2. Goes(r, IF fine THEN Sync(r, q, id, NULL, o.fields) ELSE Done(500))
  BY DEF FlushForm, Goes
<1>3. DOMAIN p = DOMAIN Idle
  BY <1>1, OpIs DEF ReqOK
<1>4. DOMAIN ftx = {id} /\ ftx[id] = row
  OBVIOUS
<1>5. id = To(r, p)
  BY <1>1 DEF To
<1>6. CASE fine
  <2> HIDE DEF p, id, row, ftx
  <2>1. to.ftx = ftx /\ SameButForms(p, to) /\ SameButForms(p, p)
    BY <1>3 DEF SameButForms, SameWork, Plan, Idle
  <2> HIDE DEF to
  <2>2. SameButForms(p, q)
    BY <2>1
  <2>3. FormWritten(r, p, q)
    <3>1. CASE clean
      BY <3>1 DEF FormWritten
    <3>2. CASE ~clean
      <4>1. /\ q.ftx = ftx /\ there /\ FormStorable(id, row) /\ FormFree(r, id, row.name)
            /\ row = IF p.seen = NULL THEN p.op.row ELSE Flush(forms[id], p.seen.row, p.op.row)
        BY <1>1, <1>6, <2>1, <3>2 DEF row
      <4> QED
        BY <1>4, <1>5, <4>1 DEF FormWritten
    <3> QED
      BY <3>1, <3>2
  <2>4. Goes(r, Sync(r, q, id, NULL, o.fields))
    BY <1>2, <1>6
  <2> HIDE DEF q
  <2>5. \E z : /\ SameButForms(p, z) /\ FormWritten(r, p, z)
               /\ Goes(r, Sync(r, z, To(r, p), NULL, p.op.fields))
    BY <1>5, <2>2, <2>3, <2>4
  <2> QED
    BY <1>1, <2>5 DEF p
<1> QED
  BY <1>1, <1>2, <1>6

LEMMA FlushFormKeeps ==
    ASSUME IInv, NEW r \in Requests, FlushForm(r)
    PROVE  IInv'
<1> DEFINE p == req[r]
           o == p.op
           id == To(r, p)
<1>1. p.pc = "flushing" /\ o.kind = "seed" /\ Open(r)
  BY FlushFormIs
<1>2. CASE Goes(r, Done(500))
  BY <1>2, DoneKeeps
<1>3. ASSUME NEW q, SameButForms(p, q), FormWritten(r, p, q), Goes(r, Sync(r, q, id, NULL, o.fields)) PROVE IInv'
  <2> DEFINE z == Sync(r, q, id, NULL, o.fields)
  <2>1. /\ ReqOK(p) /\ Body(o) /\ Fits(r, p, fields, forms) /\ AtWork(p) /\ StackOK(p)
        /\ \A s \in Requests \ {r} : Apart(p, req[s], fields)
        /\ FormsOK(forms) /\ FieldsOK(fields, forms)
    BY <1>1, OpIs
  <2>2. FormOK(o.row) /\ o.fields \in Seq(Nodes)
    BY <1>1, <2>1 DEF Body
  <2>3. p.ftx = Nothing /\ p.stack = <<>> /\ p.up = NULL /\ p.visit = {}
    BY <1>1, <2>1 DEF AtWork, ReqOK
  <2>4. p = req[r] /\ Goes(r, z)
    BY <1>3
  <2> HIDE DEF id, o, p
  <2>5. StackOK(q)
    BY <1>3, <2>1 DEF StackOK, SameButForms
  <2>6. Ready(p, q) /\ Writing(p)
    BY <1>1, <1>3, <2>1, <2>3, <2>5 DEF Ready, ReqOK, Writing, SameButForms, SameWork, Plan
  <2>7. Onward(p, z) /\ SameRows(q, z)
    BY <2>2, <2>6, SyncOn
  <2> HIDE DEF z
  <2>8. z.tx = p.tx /\ z.gone = p.gone /\ z.ftx = q.ftx
    BY <1>3, <2>7 DEF SameRows, SameButForms, SameWork
  <2>9. \A g \in DOMAIN q.ftx :
           /\ g = id /\ id \in FormIds /\ FormOK(q.ftx[g])
           /\ FormFree(r, id, q.ftx[g].name) /\ FormStorable(id, q.ftx[g])
    <3>1. CASE q.ftx = p.ftx
      BY <2>3, <3>1, NothingIs
    <3>2. CASE q.ftx # p.ftx
      <4> DEFINE row == q.ftx[id]
      <4>1. /\ p.seen = NULL \/ id \in DOMAIN forms
            /\ DOMAIN q.ftx = {id}
            /\ row = IF p.seen = NULL THEN o.row ELSE Flush(forms[id], p.seen.row, o.row)
            /\ FormFree(r, id, row.name) /\ FormStorable(id, row)
        BY <1>3, <3>2 DEF FormWritten, id, o
      <4>2. id \in FormIds
        BY <1>1, <2>1, <4>1 DEF FormsOK, FormIds, To, id, o
      <4>3. FormOK(row)
        <5>1. CASE p.seen = NULL
          BY <2>2, <4>1, <5>1
        <5>2. CASE p.seen # NULL
          <6>1. id \in DOMAIN forms
            BY <4>1, <5>2
          <6>2. FormOK(forms[id])
            BY <2>1, <6>1 DEF FormsOK
          <6>3. row = Flush(forms[id], p.seen.row, o.row)
            BY <4>1, <5>2
          <6> HIDE DEF row
          <6> QED
            BY <2>2, <6>2, <6>3 DEF FormOK, Flush
        <5> QED
          BY <5>1, <5>2
      <4> QED
        BY <4>1, <4>2, <4>3
    <3> QED
      BY <3>1, <3>2
  <2>10. ReqOK(z)
    BY <1>1, <2>1, <2>7, <2>8, <2>9 DEF ReqOK, Onward, o
  <2>11. FormsFit(z, forms)
    <3> DEFINE rows == q.ftx
    <3>1. DOMAIN Over(forms, p.ftx, {}) = DOMAIN forms
      BY <2>3, NothingIs DEF Over
    <3>2. /\ DOMAIN Over(forms, rows, {}) = DOMAIN forms \cup DOMAIN rows
          /\ \A h \in DOMAIN forms \ DOMAIN rows : Over(forms, rows, {})[h] = forms[h]
      BY DEF Over
    <3>3. \A i \in DOMAIN z.tx : z.tx[i].form \in DOMAIN Over(forms, rows, {})
      BY <2>1, <2>8, <3>1, <3>2 DEF Fits, FormsFit
    <3>4. ASSUME NEW g \in DOMAIN rows, NEW h \in DOMAIN Over(forms, rows, {}) \ {g}
          PROVE  Over(forms, rows, {})[h].name # rows[g].name
      <4>1. h \in DOMAIN forms \ {id} /\ h \notin DOMAIN rows
        BY <2>9, <3>2, <3>4
      <4> QED
        BY <2>9, <3>2, <3>4, <4>1 DEF FormStorable
    <3> QED
      BY <2>8, <3>3, <3>4 DEF FormsFit
  <2>12. Fits(r, z, fields, forms)
    <3>1. FieldsFit(z, fields)
      BY <2>1, <2>8 DEF Fits, FieldsFit
    <3> QED
      BY <1>1, <2>1, <2>7, <2>8, <2>11, <3>1 DEF Fits, Onward
  <2>13. ASSUME NEW s \in Requests \ {r} PROVE Apart(z, req[s], fields)
    <3>1. \A g \in DOMAIN q.ftx : \A h \in DOMAIN req[s].ftx : g # h /\ q.ftx[g].name # req[s].ftx[h].name
      <4>1. CASE Open(s)
        BY <2>9, <4>1 DEF FormFree
      <4>2. CASE ~Open(s)
        <5>1. req[s].ftx = Nothing
          BY <4>2 DEF IInv, Isolated, Fits, AtWork, Open
        <5> QED
          BY <5>1, NothingIs
      <4> QED
        BY <4>1, <4>2
    <3> QED
      BY <2>1, <2>8, <3>1 DEF Apart
  <2> QED
    BY <2>4, <2>10, <2>12, <2>13, GoesKeeps
<1> QED
  BY <1>2, <1>3, FlushFormIs

\* The request goes on with the answer of its flush.
LEMMA FlushFieldKeeps ==
    ASSUME IInv, NEW r \in Requests, FlushField(r)
    PROVE  IInv'
<1> DEFINE p   == req[r]
           o   == p.op
           new == o.kind = "newField"
           id  == IF new THEN NewId(r) ELSE o.field
           to  == IF new THEN NodeRow(o.node, o.form, o.parent) ELSE Assign(p.seen, o.set)
           ins == IF new THEN [i \in {id} |-> to] ELSE Nothing
           changed == {c \in DOMAIN to : ~new /\ to[c] # p.seen[c]}
           ups == IF changed = {} THEN Nothing ELSE [i \in {id} |-> [c \in changed |-> to[c]]]
           f   == Flushed(p, r, ins, ups, {})
           q   == [f EXCEPT !.field = id]
           moving == [q EXCEPT !.pc = "moving", !.visit = {id}]
           closing == [q EXCEPT !.pc = "closing"]
<1>1. /\ p.pc = "flushing" /\ o.kind \in {"newField", "editField"} /\ Free(r, ins, ups, {}) /\ Open(r)
  BY DEF FlushField, Open
<1>2. Goes(r, IF Failure(r, ins, ups) # NULL THEN Refused(Failure(r, ins, ups), FALSE)
              ELSE IF new THEN Sync(r, q, o.form, id, o.node.subs)
              ELSE IF "form" \in changed THEN moving
              ELSE IF o.subs # NULL THEN Sync(r, q, to.form, id, o.subs)
              ELSE closing)
  BY DEF FlushField, Goes
<1>3. ReqOK(p) /\ Body(o) /\ AtWork(p) /\ StackOK(p)
  BY <1>1, OpIs
<1>4. CASE Failure(r, ins, ups) # NULL
  <2>1. Refused(Failure(r, ins, ups), FALSE) = Done(500)
    BY DEF Refused
  <2> HIDE DEF ins, ups
  <2>2. Goes(r, Done(500))
    BY <1>2, <1>4, <2>1
  <2> QED
    BY <2>2, DoneKeeps
<1>5. CASE Failure(r, ins, ups) = NULL
  <2>1. /\ p.stack = <<>> /\ p.up = NULL /\ p.visit = {} /\ DOMAIN p = DOMAIN Idle /\ p.made \in Nat
    BY <1>1, <1>3 DEF ReqOK
  <2>2. new => o.node \in Nodes /\ o.node.key \in Keys /\ o.node.label \in Labels /\ o.node.subs \in Seq(Nodes)
    BY <1>3, NodesAssumption DEF Body
  <2>3. ~new => /\ o.field \in FieldIds /\ FieldOK(p.seen) /\ (o.subs # NULL => o.subs \in Seq(Nodes))
                /\ "key" \in DOMAIN o.set => o.set.key \in Keys \cup {NULL}
                /\ "label" \in DOMAIN o.set => o.set.label \in Labels \cup {NULL}
    BY <1>1, <1>3 DEF Body, AtWork
  <2>4. new => id \in NewOf(r)
    BY <2>1 DEF NewOf, NewId
  <2>5. /\ new => RowShape(to)
        /\ ~new => to.key \in Keys \cup {NULL} /\ to.label \in Labels \cup {NULL}
    <3>1. CASE new
      BY <2>2, <3>1 DEF RowShape, NodeRow
    <3>2. CASE ~new
      BY <2>3, <3>2 DEF Assign, FieldOK
    <3> QED
      BY <3>1, <3>2
  <2>6. Writes(r, ins, ups)
    <3> HIDE DEF id, to, new
    <3>1. IsFiniteSet(DOMAIN ins) /\ DOMAIN ins \subseteq NewOf(r) /\ \A i \in DOMAIN ins : RowShape(ins[i])
      <4>1. CASE new
        <5>1. DOMAIN ins = {id} /\ ins[id] = to
          BY <4>1
        <5> QED
          BY <2>4, <2>5, <4>1, <5>1, FS_Singleton
      <4>2. CASE ~new
        BY <4>2, NothingIs
      <4> QED
        BY <4>1, <4>2
    <3>2. \A i \in DOMAIN ups : SetShape(ups[i])
      <4>1. CASE changed = {}
        BY <4>1, NothingIs
      <4>2. CASE changed # {}
        <5>1. ~new
          BY <4>2
        <5>2. DOMAIN ups = {id} /\ ups[id] = [c \in changed |-> to[c]]
          BY <4>2
        <5>3. SetShape([c \in changed |-> to[c]])
          BY <2>5, <5>1 DEF SetShape
        <5> QED
          BY <5>2, <5>3
      <4> QED
        BY <4>1, <4>2
    <3> QED
      BY <3>1, <3>2 DEF Writes
  <2>7. ~new => id \in FieldIds
    BY <2>3
  <2>8. "form" \in changed => ~new
    OBVIOUS
  <2> HIDE DEF id, to, ins, ups, changed
  <2>9. IsFiniteSet(DOMAIN ins)
    BY <2>6 DEF Writes
  <2>10. FlushedAs(p, r, ins, ups, {}, f)
    BY <1>3, <2>9, FlushedIs DEF FlushedAs
  <2>11. p = req[r]
    OBVIOUS
  <2> HIDE DEF f, p, o, new
  <2>12. /\ DOMAIN q = DOMAIN Idle /\ q.pc = p.pc /\ q.op = p.op /\ q.seen = p.seen /\ q.code = p.code
         /\ q.made \in Nat /\ q.doomed = {} /\ q.moved = {} /\ q.visit = {} /\ q.up = NULL
         /\ q.stack = <<>> /\ SameRows(f, q)
    BY <2>1, <2>10 DEF Idle, SameRows, FlushedAs
  <2> HIDE DEF q
  <2>13. HasFlushed(r, ins, ups, {}, q)
    BY <2>10, <2>12, SameFlush DEF FlushedAs
  <2>14. StackOK(q)
    BY <1>3, <2>1, <2>12 DEF StackOK
  <2>15. Ready(p, q) /\ Writing(p)
    BY <1>1, <1>3, <2>12, <2>14 DEF Ready, Writing
  <2>16. ASSUME NEW z, Goes(r, z), Onward(p, z), SameRows(q, z) PROVE IInv'
    <3>1. HasFlushed(r, ins, ups, {}, z)
      BY <2>13, <2>16, SameFlush
    <3> QED
      BY <1>1, <1>5, <2>6, <2>11, <2>16, <3>1, FlushedKeeps
  <2>17. ASSUME NEW form, NEW parent, NEW nodes \in Seq(Nodes), Goes(r, Sync(r, q, form, parent, nodes)) PROVE IInv'
    BY <2>15, <2>16, <2>17, SyncOn
  <2>18. CASE new
    <3>1. Goes(r, Sync(r, q, o.form, id, o.node.subs))
      BY <1>2, <1>5, <2>18
    <3> QED
      BY <2>2, <2>17, <2>18, <3>1
  <2>19. CASE ~new /\ "form" \in changed
    <3>1. Goes(r, moving)
      BY <1>2, <1>5, <2>19
    <3>2. Alike([q EXCEPT !.visit = {id}], moving) /\ moving.pc = "moving" /\ moving.stack = <<>>
      BY <2>12 DEF Idle, Alike
    <3>3. /\ DOMAIN moving = DOMAIN Idle /\ moving.op = p.op /\ moving.seen = p.seen /\ moving.code = p.code
          /\ moving.made \in Nat /\ moving.doomed = {} /\ moving.moved = {} /\ moving.visit = {id}
          /\ moving.up = NULL /\ SameRows(q, moving)
      BY <2>12 DEF Idle, SameRows
    <3> HIDE DEF moving
    <3>4. o.kind = "editField"
      BY <1>1, <2>19 DEF new
    <3>5. StackOK(moving) /\ AtWork(moving)
      BY <1>1, <1>3, <2>14, <2>12, <3>2, <3>3, <3>4 DEF StackOK, AtWork, o
    <3>6. Onward(p, moving)
      BY <2>7, <2>19, <3>2, <3>3, <3>5 DEF Onward, Stages
    <3> QED
      BY <2>16, <3>1, <3>3, <3>6
  <2>20. CASE ~new /\ "form" \notin changed /\ o.subs # NULL
    <3>1. Goes(r, Sync(r, q, to.form, id, o.subs))
      BY <1>2, <1>5, <2>20
    <3> QED
      BY <2>3, <2>17, <2>20, <3>1
  <2>21. CASE ~new /\ "form" \notin changed /\ o.subs = NULL
    <3>1. Goes(r, closing)
      BY <1>2, <1>5, <2>21
    <3> QED
      BY <2>12, <2>15, <2>16, <3>1, CloseOn
  <2> QED
    BY <2>18, <2>19, <2>20, <2>21
<1> QED
  BY <1>4, <1>5

LEMMA BelowView ==
    ASSUME IInv, NEW r \in Requests, Open(r), NEW S
    PROVE  Below(View(r), S) \subseteq FieldIds
<1>1. IsFiniteSet(DOMAIN View(r)) /\ DOMAIN View(r) \subseteq FieldIds
  BY ViewIs
<1>2. ASSUME NEW t, t = View(r) PROVE Below(t, S) \subseteq DOMAIN t
  BY <1>1, <1>2, BelowIs
<1> QED
  BY <1>1, <1>2

LEMMA MoveKeeps ==
    ASSUME IInv, NEW r \in Requests, Move(r)
    PROVE  IInv'
<1> DEFINE p == req[r]
           o == p.op
           kids(i) == ChildrenOf(View(r), i) \ p.moved
           visit(i) == (p.visit \ {i}) \cup kids(i)
           moved(i) == p.moved \cup kids(i)
           q(i) == [p EXCEPT !.visit = visit(i), !.moved = moved(i)]
<1>1. p.pc = "moving" /\ Open(r)
  BY DEF Move, Open
<1>2. PICK i \in p.visit :
         Goes(r, IF q(i).visit # {} THEN q(i)
                 ELSE IF o.subs # NULL THEN Sync(r, q(i), o.set.form, q(i).field, o.subs)
                 ELSE [q(i) EXCEPT !.pc = "closing"])
  BY DEF Move, Goes
<1>3. ReqOK(p) /\ Body(o) /\ AtWork(p) /\ StackOK(p)
  BY <1>1, OpIs
<1>4. /\ p.stack = <<>> /\ p.up = NULL /\ DOMAIN p = DOMAIN Idle /\ p.made \in Nat /\ o.kind = "editField"
      /\ p.visit \cup p.moved \cup p.doomed \subseteq FieldIds
  BY <1>1, <1>3 DEF ReqOK, AtWork
<1>5. visit(i) \cup moved(i) \subseteq FieldIds
  <2>1. DOMAIN View(r) \subseteq FieldIds
    BY <1>1, ViewIs
  <2> QED
    BY <1>4, <2>1 DEF ChildrenOf
<1>6. o.subs # NULL => o.subs \in Seq(Nodes)
  BY <1>3, <1>4 DEF Body
<1>7. p = req[r]
  OBVIOUS
<1> DEFINE z == q(i)
<1>8. Goes(r, IF z.visit # {} THEN z
              ELSE IF o.subs # NULL THEN Sync(r, z, o.set.form, z.field, o.subs)
              ELSE [z EXCEPT !.pc = "closing"])
  BY <1>2
<1> HIDE DEF o, visit, moved, p
<1>9. /\ DOMAIN z = DOMAIN Idle /\ z.pc = p.pc /\ z.op = p.op /\ z.seen = p.seen /\ z.code = p.code
      /\ z.made = p.made /\ z.doomed = p.doomed /\ z.moved = moved(i) /\ z.visit = visit(i) /\ z.up = p.up
      /\ z.stack = p.stack /\ SameRows(p, z)
  BY <1>4 DEF Idle, SameRows
<1> HIDE DEF z
<1>10. StackOK(z) /\ AtWork(z)
  BY <1>1, <1>3, <1>4, <1>9 DEF StackOK, AtWork, o
<1>11. Writing(p)
  BY <1>1, <1>3 DEF Writing
<1>12. ASSUME z.visit = {} PROVE Ready(p, z)
  BY <1>4, <1>5, <1>9, <1>10, <1>12 DEF Ready
<1>13. ASSUME NEW y, Goes(r, y), Onward(p, y), SameRows(z, y) PROVE IInv'
  <2>1. SameRows(p, y)
    BY <1>9, <1>13 DEF SameRows
  <2> QED
    BY <1>1, <1>7, <1>13, <2>1, ProceedsKeeps
<1>14. CASE z.visit # {}
  <2>1. Goes(r, z) /\ SameRows(z, z)
    BY <1>8, <1>14 DEF SameRows
  <2>2. Onward(p, z)
    BY <1>1, <1>4, <1>5, <1>9, <1>10, <1>14 DEF Onward, Stages
  <2> QED
    BY <1>13, <2>1, <2>2
<1>15. CASE z.visit = {} /\ o.subs # NULL
  <2>1. Goes(r, Sync(r, z, o.set.form, z.field, o.subs))
    BY <1>8, <1>15
  <2> QED
    BY <1>6, <1>11, <1>12, <1>13, <1>15, <2>1, SyncOn
<1>16. CASE z.visit = {} /\ o.subs = NULL
  <2>1. Goes(r, [z EXCEPT !.pc = "closing"])
    BY <1>8, <1>16
  <2> QED
    BY <1>4, <1>9, <1>11, <1>12, <1>13, <1>16, <2>1, CloseOn
<1> QED
  BY <1>14, <1>15, <1>16

\* What is assigned to the moved fields and not yet flushed.
LEMMA PendingIs ==
    ASSUME NEW r
    PROVE  \A i \in DOMAIN Pending(r) : SetShape(Pending(r)[i])
BY DEF Pending, SetShape

LEMMA SyncEndKeeps ==
    ASSUME IInv, NEW r \in Requests, SyncEnd(r)
    PROVE  IInv'
<1> DEFINE p == req[r]
           top == Head(p.stack)
           obsolete == {i \in DOMAIN top.existing : top.existing[i].key \notin top.expected}
           pc == IF Len(p.stack) = 1 THEN "closing" ELSE "syncing"
           rest == Tail(p.stack)
           doomed == p.doomed \cup Below(View(r), obsolete)
           q == [p EXCEPT !.pc = pc, !.stack = rest, !.doomed = doomed]
<1>1. p.pc = "syncing" /\ Open(r)
  BY DEF SyncEnd, Open
<1>2. ReqOK(p) /\ AtWork(p) /\ StackOK(p)
  BY <1>1, OpIs
<1>3. DOMAIN req = Requests /\ DOMAIN p = DOMAIN Idle
  BY <1>2 DEF IInv, TypeOK, ReqOK
<1>4. Goes(r, q)
  BY <1>3 DEF SyncEnd, Goes, Idle
<1>5. doomed \subseteq FieldIds
  <2> HIDE DEF obsolete
  <2> QED
    BY <1>1, <1>2, BelowView DEF ReqOK
<1>6. /\ p.stack # <<>> /\ p.up = NULL /\ p.visit = {} /\ p.made \in Nat /\ p.moved \subseteq FieldIds
  BY <1>1, <1>2 DEF ReqOK
<1>7. p = req[r]
  OBVIOUS
<1> HIDE DEF p, obsolete
<1>8. /\ rest \in Seq({p.stack[k] : k \in DOMAIN p.stack}) /\ (rest = <<>> <=> pc = "closing")
      /\ pc \in {"closing", "syncing"}
  <2> DEFINE s == p.stack
             T == {s[k] : k \in DOMAIN s}
  <2>1. s \in Seq(T) /\ s # <<>>
    BY <1>2, <1>6 DEF StackOK
  <2> HIDE DEF s, T
  <2>2. Tail(s) \in Seq(T) /\ (Tail(s) = <<>> <=> Len(s) = 1)
    <3>1. Tail(s) \in Seq(T) /\ Len(Tail(s)) = Len(s) - 1 /\ Len(s) \in Nat
      BY <2>1
    <3>2. ASSUME NEW u \in Seq(T) PROVE u = <<>> <=> Len(u) = 0
      OBVIOUS
    <3> DEFINE u == Tail(s)
    <3>3. u \in Seq(T) /\ Len(u) = Len(s) - 1
      BY <3>1
    <3> HIDE DEF u
    <3>4. u = <<>> <=> Len(s) = 1
      BY <3>1, <3>2, <3>3
    <3> QED
      BY <3>1, <3>4 DEF u
  <2> QED
    BY <2>2 DEF s, T
<1> HIDE DEF rest, doomed, pc
<1>9. /\ DOMAIN q = DOMAIN Idle /\ q.pc = pc /\ q.op = p.op /\ q.seen = p.seen /\ q.code = p.code
      /\ q.made = p.made /\ q.doomed = doomed /\ q.moved = p.moved /\ q.visit = p.visit /\ q.up = p.up
      /\ q.stack = rest /\ SameRows(p, q)
  BY <1>3 DEF Idle, SameRows
<1> HIDE DEF q
<1>10. StackOK(q)
  <2>1. \A k \in DOMAIN p.stack : "rest" \in DOMAIN p.stack[k] /\ p.stack[k].rest \in Seq(Nodes)
    BY <1>2 DEF StackOK
  <2> DEFINE T == {p.stack[k] : k \in DOMAIN p.stack}
  <2>2. \A g \in T : "rest" \in DOMAIN g /\ g.rest \in Seq(Nodes)
    BY <2>1
  <2>3. q.stack \in Seq(T)
    BY <1>8, <1>9
  <2> HIDE DEF T
  <2> QED
    BY <2>2, <2>3, StackFits
<1>11. AtWork(q)
  BY <1>1, <1>2, <1>8, <1>9 DEF AtWork
<1>12. Onward(p, q)
  BY <1>5, <1>6, <1>8, <1>9, <1>10, <1>11 DEF Onward, Stages
<1> QED
  BY <1>1, <1>4, <1>7, <1>9, <1>12, ProceedsKeeps

LEMMA SyncNodeKeeps ==
    ASSUME IInv, NEW r \in Requests, SyncNode(r)
    PROVE  IInv'
<1> DEFINE p    == req[r]
           top  == Head(p.stack)
           node == Head(top.rest)
           same == {i \in DOMAIN top.existing : top.existing[i].key = node.key}
           id   == IF same = {} THEN NewId(r) ELSE CHOOSE i \in same : TRUE
           ins  == IF same = {} THEN [i \in {id} |-> NodeRow(node, top.form, top.parent)] ELSE Nothing
           ups  == IF same = {} \/ Known(r, top, id) = node.label THEN Pending(r)
                   ELSE Put(Pending(r), id, [label |-> node.label])
           f    == Flushed(p, r, ins, ups, p.doomed)
           q    == [f EXCEPT !.stack[1].rest = Tail(@)]
<1>1. p.pc = "syncing" /\ top.rest # <<>> /\ Free(r, ins, ups, p.doomed) /\ Open(r)
  BY DEF SyncNode, Open
<1>2. Goes(r, IF Failure(r, ins, ups) # NULL THEN Refused(Failure(r, ins, ups), FALSE)
              ELSE Sync(r, q, top.form, id, node.subs))
  BY DEF SyncNode, Goes
<1>3. ReqOK(p) /\ AtWork(p) /\ StackOK(p)
  BY <1>1, OpIs
<1>4. CASE Failure(r, ins, ups) # NULL
  <2>1. Refused(Failure(r, ins, ups), FALSE) = Done(500)
    BY DEF Refused
  <2> HIDE DEF ins, ups
  <2>2. Goes(r, Done(500))
    BY <1>2, <1>4, <2>1
  <2> QED
    BY <2>2, DoneKeeps
<1>5. CASE Failure(r, ins, ups) = NULL
  <2>1. /\ p.stack # <<>> /\ p.up = NULL /\ p.visit = {} /\ DOMAIN p = DOMAIN Idle /\ p.made \in Nat
        /\ p.doomed \subseteq FieldIds
    BY <1>1, <1>3 DEF ReqOK
  <2> DEFINE T == {p.stack[k] : k \in DOMAIN p.stack}
  <2>2. p.stack \in Seq(T) /\ \A g \in T : "rest" \in DOMAIN g /\ g.rest \in Seq(Nodes)
    BY <1>3 DEF StackOK
  <2> HIDE DEF T
  <2>3. top = p.stack[1] /\ top \in T /\ 1 \in DOMAIN p.stack
    BY <2>1, <2>2
  <2>4. p = req[r]
    OBVIOUS
  <2> HIDE DEF p, top
  <2>5. node \in Nodes /\ Tail(top.rest) \in Seq(Nodes) /\ "rest" \in DOMAIN top
    <3>1. top.rest \in Seq(Nodes) /\ top.rest # <<>>
      BY <1>1, <2>2, <2>3
    <3> QED
      BY <2>2, <2>3, <3>1
  <2> HIDE DEF node
  <2>6. node.key \in Keys /\ node.label \in Labels /\ node.subs \in Seq(Nodes)
    BY <2>5, NodesAssumption
  <2> HIDE DEF same
  <2>7. Writes(r, ins, ups)
    <3>1. IsFiniteSet(DOMAIN ins) /\ DOMAIN ins \subseteq NewOf(r) /\ \A i \in DOMAIN ins : RowShape(ins[i])
      <4>1. CASE same = {}
        <5> DEFINE row == NodeRow(node, top.form, top.parent)
        <5>1. id \in NewOf(r)
          BY <2>1, <2>4, <4>1 DEF NewOf, NewId
        <5>2. RowShape(row)
          BY <2>6 DEF RowShape, NodeRow
        <5> HIDE DEF id, row
        <5>3. DOMAIN ins = {id} /\ ins[id] = row
          BY <4>1 DEF row
        <5> QED
          BY <5>1, <5>2, <5>3, FS_Singleton
      <4>2. CASE same # {}
        BY <4>2, NothingIs
      <4> QED
        BY <4>1, <4>2
    <3> HIDE DEF id
    <3>2. \A i \in DOMAIN ups : SetShape(ups[i])
      <4>1. CASE ups = Pending(r)
        BY <4>1, PendingIs
      <4>2. CASE ups = Put(Pending(r), id, [label |-> node.label])
        <5>1. SetShape([label |-> node.label])
          BY <2>6 DEF SetShape
        <5> QED
          BY <4>2, <5>1, PendingIs DEF Put
      <4> QED
        BY <4>1, <4>2
    <3> QED
      BY <3>1, <3>2 DEF Writes
  <2> HIDE DEF id, ins, ups
  <2>8. IsFiniteSet(DOMAIN ins)
    BY <2>7 DEF Writes
  <2> DEFINE del == p.doomed
  <2>9. FlushedAs(p, r, ins, ups, del, f)
    <3>1. ReqOK(req[r])
      BY <1>3, <2>4
    <3> QED
      BY <2>8, <3>1, FlushedIs DEF p, FlushedAs
  <2> HIDE DEF f
  <2> DEFINE top2 == [top EXCEPT !.rest = Tail(top.rest)]
             stack == [p.stack EXCEPT ![1] = top2]
  <2>10. /\ DOMAIN q = DOMAIN Idle /\ q.pc = p.pc /\ q.op = p.op /\ q.seen = p.seen /\ q.code = p.code
         /\ q.made \in Nat /\ q.doomed = {} /\ q.moved = {} /\ q.visit = {} /\ q.up = NULL
         /\ q.stack = stack /\ SameRows(f, q)
    BY <2>1, <2>3, <2>9 DEF Idle, SameRows, FlushedAs
  <2> HIDE DEF q
  <2>11. HasFlushed(r, ins, ups, del, q)
    BY <2>9, <2>10, SameFlush DEF FlushedAs
  <2>12. StackOK(q)
    <3>1. top2.rest = Tail(top.rest) /\ "rest" \in DOMAIN top2
      BY <2>5
    <3> HIDE DEF top2
    <3>2. stack \in Seq(T \cup {top2})
      BY <2>2, <2>3
    <3>3. \A g \in T \cup {top2} : "rest" \in DOMAIN g /\ g.rest \in Seq(Nodes)
      BY <2>2, <2>5, <3>1
    <3> HIDE DEF stack
    <3>4. q.stack \in Seq(T \cup {top2})
      BY <2>10, <3>2
    <3> QED
      BY <3>3, <3>4, StackFits
  <2>13. Ready(p, q) /\ Writing(p)
    BY <1>1, <1>3, <2>10, <2>12 DEF Ready, Writing
  <2> DEFINE z == Sync(r, q, top.form, id, node.subs)
  <2>14. Onward(p, z) /\ SameRows(q, z)
    BY <2>6, <2>13, SyncOn
  <2>15. Goes(r, z)
    BY <1>2, <1>5
  <2> HIDE DEF z
  <2>16. HasFlushed(r, ins, ups, del, z)
    BY <2>11, <2>14, SameFlush
  <2> QED
    BY <1>1, <1>5, <2>4, <2>7, <2>14, <2>15, <2>16, FlushedKeeps
<1> QED
  BY <1>4, <1>5

(***************************************************************************)
(* Commits.                                                                *)
(***************************************************************************)

LEMMA FormsThen ==
    ASSUME NEW fs, FormsOK(fs), NEW q, FormsFit(q, fs), DOMAIN q.ftx \subseteq FormIds,
           \A g \in DOMAIN q.ftx : FormOK(q.ftx[g])
    PROVE  FormsOK(Over(fs, q.ftx, {})) /\ DOMAIN Over(fs, q.ftx, {}) = DOMAIN fs \cup DOMAIN q.ftx
<1> DEFINE fs2 == Over(fs, q.ftx, {})
<1>1. /\ DOMAIN fs2 = DOMAIN fs \cup DOMAIN q.ftx
      /\ \A i \in DOMAIN fs2 : fs2[i] = IF i \in DOMAIN q.ftx THEN q.ftx[i] ELSE fs[i]
  BY DEF Over
<1>2. \A g \in DOMAIN q.ftx : \A h \in DOMAIN fs2 \ {g} : fs2[h].name # q.ftx[g].name
  BY DEF FormsFit
<1> HIDE DEF fs2
<1>3. \A g \in DOMAIN fs2 : FormOK(fs2[g])
  BY <1>1 DEF FormsOK
<1>4. ASSUME NEW g \in DOMAIN fs2, NEW h \in DOMAIN fs2, fs2[h].name = fs2[g].name PROVE g = h
  <2>1. CASE g \in DOMAIN q.ftx \/ h \in DOMAIN q.ftx
    BY <1>1, <1>2, <1>4, <2>1
  <2>2. CASE g \notin DOMAIN q.ftx /\ h \notin DOMAIN q.ftx
    BY <1>1, <1>4, <2>2 DEF FormsOK
  <2> QED
    BY <2>1, <2>2
<1>5. FormsOK(fs2)
  BY <1>1, <1>3, <1>4 DEF FormsOK
<1> QED
  BY <1>1, <1>5 DEF fs2

LEMMA FieldsThen ==
    ASSUME NEW t, NEW fs, FieldsOK(t, fs), NEW q, FieldsFit(q, t), FormsFit(q, fs), DOMAIN q.tx \subseteq FieldIds,
           \A i \in DOMAIN q.tx : FieldOK(q.tx[i])
    PROVE  FieldsOK(Over(t, q.tx, q.gone), Over(fs, q.ftx, {}))
<1> DEFINE t2 == Over(t, q.tx, q.gone)
           fs2 == Over(fs, q.ftx, {})
<1>1. /\ DOMAIN t2 = (DOMAIN t \ q.gone) \cup DOMAIN q.tx
      /\ \A i \in DOMAIN t2 : t2[i] = IF i \in DOMAIN q.tx THEN q.tx[i] ELSE t[i]
  BY DEF Over
<1>2. DOMAIN fs2 = DOMAIN fs \cup DOMAIN q.ftx
  BY DEF Over
<1>3. /\ \A i \in DOMAIN t2 : t2[i].parent \in DOMAIN t2 \cup {NULL}
      /\ \A i \in DOMAIN q.tx : \A j \in DOMAIN t2 \ {i} : FormKey(t2[j]) # FormKey(q.tx[i])
  BY DEF FieldsFit
<1>4. \A i \in DOMAIN q.tx : q.tx[i].form \in DOMAIN fs2
  BY DEF FormsFit
<1>5. /\ DOMAIN t \subseteq FieldIds
      /\ \A f \in DOMAIN t : /\ FieldOK(t[f]) /\ t[f].form \in DOMAIN fs
                             /\ \A e \in DOMAIN t : FormKey(t[e]) = FormKey(t[f]) => e = f
  BY DEF FieldsOK
<1> HIDE DEF t2, fs2
<1>6. DOMAIN t2 \subseteq FieldIds /\ \A f \in DOMAIN t2 : FieldOK(t2[f]) /\ t2[f].form \in DOMAIN fs2
  BY <1>1, <1>2, <1>4, <1>5
<1>7. ASSUME NEW f \in DOMAIN t2, NEW e \in DOMAIN t2, FormKey(t2[e]) = FormKey(t2[f]) PROVE e = f
  <2>1. CASE f \in DOMAIN q.tx
    BY <1>1, <1>3, <1>7, <2>1
  <2>2. CASE e \in DOMAIN q.tx
    <3>1. t2[e] = q.tx[e]
      BY <1>1, <2>2
    <3> QED
      BY <1>3, <1>7, <2>2, <3>1
  <2>3. CASE f \notin DOMAIN q.tx /\ e \notin DOMAIN q.tx
    <3>1. f \in DOMAIN t /\ e \in DOMAIN t /\ t2[f] = t[f] /\ t2[e] = t[e]
      BY <1>1, <2>3
    <3> QED
      BY <1>5, <1>7, <3>1
  <2> QED
    BY <2>1, <2>2, <2>3
<1> QED
  BY <1>3, <1>6, <1>7 DEF FieldsOK, t2, fs2

\* What another request has in its hands fits to the fields that q leaves.
LEMMA OtherFits ==
    ASSUME IInv, NEW r \in Requests, NEW s \in Requests \ {r}, NEW q, FieldsFit(q, fields), Apart(q, req[s], fields),
           DOMAIN q.tx \subseteq DOMAIN fields \cup NewOf(r), NEW fs, FormsFit(req[s], fs),
           NEW t, t = Over(fields, q.tx, q.gone)
    PROVE  Fits(s, req[s], t, fs)
<1> DEFINE u == req[s]
<1>1. Fits(s, u, fields, forms) /\ Apart(q, u, fields) /\ FormsFit(u, fs)
  BY DEF IInv, Isolated
<1>2. DOMAIN t = (DOMAIN fields \ q.gone) \cup DOMAIN q.tx
  BY DEF Over
<1> HIDE DEF u
<1>3. FieldsFit(u, t)
  <2>1. ASSUME NEW t0, t0 = fields PROVE FieldsFit(u, Over(t0, q.tx, q.gone))
    <3>1. FieldsFit(q, t0) /\ FieldsFit(u, t0) /\ Apart(q, u, t0)
      BY <1>1, <2>1 DEF Fits
    <3> QED
      BY <3>1, CommitOther
  <2> QED
    BY <2>1
<1>4. DOMAIN u.tx \subseteq DOMAIN t \cup NewOf(s)
  BY <1>1, <1>2 DEF Fits, Apart
<1>5. u.pc # "done" => DOMAIN t \cap NewOf(s) = {}
  <2>1. NewOf(r) \cap NewOf(s) = {}
    BY DEF NewOf
  <2> QED
    BY <1>1, <1>2, <2>1 DEF Fits
<1> QED
  BY <1>1, <1>3, <1>4, <1>5 DEF Fits, u

\* Others are as far from each other as before.
LEMMA OthersApart ==
    ASSUME IInv, NEW r \in Requests, NEW q, \A s \in Requests \ {r} : Apart(q, req[s], fields),
           NEW s \in Requests \ {r}, NEW v \in Requests \ {r}, s # v, NEW t, t = Over(fields, q.tx, q.gone)
    PROVE  Apart(req[s], req[v], t)
<1>1. ASSUME NEW t0, t0 = fields PROVE Apart(req[s], req[v], Over(t0, q.tx, q.gone))
  <2>1. Apart(q, req[s], t0) /\ Apart(q, req[v], t0) /\ Apart(req[s], req[v], t0)
    BY <1>1 DEF IInv, Isolated
  <2> QED
    BY <2>1, CommitApart
<1> QED
  BY <1>1

LEMMA CommitFieldsKeeps ==
    ASSUME IInv, NEW r \in Requests, CommitFields(r)
    PROVE  IInv'
<1> DEFINE p == req[r]
           ups == Pending(r)
           del == p.doomed
           q == Flushed(p, r, Nothing, ups, del)
<1>1. p.pc = "closing" /\ Free(r, Nothing, ups, del) /\ Open(r)
  BY DEF CommitFields, Open
<1>2. /\ ReqOK(p) /\ Fits(r, p, fields, forms) /\ FormsOK(forms) /\ FieldsOK(fields, forms) /\ IsFiniteSet(DOMAIN fields)
  BY <1>1, OpIs
<1>3. CASE Failure(r, Nothing, ups) # NULL
  <2>1. PICK guarded : Goes(r, Refused(Failure(r, Nothing, ups), guarded))
    BY <1>3 DEF CommitFields, Goes
  <2> DEFINE code == IF Failure(r, Nothing, ups) = "integrity" /\ guarded THEN 409 ELSE 500
  <2>2. Goes(r, Done(code))
    BY <2>1 DEF Refused
  <2>3. code \in {200, 404, 409, 422, 500}
    OBVIOUS
  <2> HIDE DEF code
  <2> QED
    BY <2>2, <2>3, DoneKeeps
<1>4. CASE Failure(r, Nothing, ups) = NULL
  <2>1. /\ fields' = Over(fields, q.tx, q.gone) /\ forms' = FormsView(r) /\ req' = Answer(r, 200)
        /\ raced' = (raced \/ req[r].late)
    BY <1>4 DEF CommitFields
  <2>2. raced' \in BOOLEAN
    BY <2>1
  <2>3. HasFlushed(r, Nothing, ups, del, q)
    BY <1>2, NothingIs, FlushedIs
  <2>4. Writes(r, Nothing, ups)
    BY NothingIs, PendingIs DEF Writes
  <2>5. q.ftx = p.ftx
    BY <2>3 DEF HasFlushed
  <2> HIDE DEF ups, del, q
  <2>6. /\ DOMAIN q.tx \subseteq FieldIds /\ \A i \in DOMAIN q.tx : FieldOK(q.tx[i])
        /\ IsFiniteSet(DOMAIN q.tx) /\ DOMAIN q.tx \subseteq DOMAIN fields \cup NewOf(r)
        /\ FieldsFit(q, fields) /\ FormsFit(q, forms)
        /\ \A s \in Requests \ {r} : Apart(q, req[s], fields)
    BY <1>1, <1>4, <2>3, <2>4, FlushKeeps
  <2> DEFINE t == Over(fields, q.tx, q.gone)
             fs == Over(forms, q.ftx, {})
  <2>7. fields' = t /\ forms' = fs
    BY <2>1, <2>5 DEF FormsView
  <2>8. FormsOK(fs) /\ FieldsOK(t, fs)
    <3>1. DOMAIN q.ftx \subseteq FormIds /\ \A g \in DOMAIN q.ftx : FormOK(q.ftx[g])
      BY <1>2, <2>5 DEF ReqOK
    <3>2. ASSUME NEW t0, NEW fs0, t0 = fields, fs0 = forms
          PROVE  FormsOK(Over(fs0, q.ftx, {})) /\ FieldsOK(Over(t0, q.tx, q.gone), Over(fs0, q.ftx, {}))
      BY <1>2, <2>6, <3>1, <3>2, FormsThen, FieldsThen
    <3> QED
      BY <3>2
  <2>9. DOMAIN t = (DOMAIN fields \ q.gone) \cup DOMAIN q.tx
    BY DEF Over
  <2> HIDE DEF t, fs
  <2>10. IsFiniteSet(DOMAIN t)
    <3>1. IsFiniteSet(DOMAIN fields \ q.gone)
      BY <1>2, FS_Subset
    <3>2. IsFiniteSet((DOMAIN fields \ q.gone) \cup DOMAIN q.tx)
      BY <2>6, <3>1, FS_Union
    <3> QED
      BY <2>9, <3>2
  <2>11. ASSUME NEW s \in Requests \ {r} PROVE Fits(s, req[s], t, fs)
    <3>1. FormsFit(req[s], fs)
      <4>1. ASSUME NEW t0, NEW fs0, t0 = fields, fs0 = forms PROVE FormsFit(req[s], Over(fs0, q.ftx, {}))
        <5>1. FormsFit(req[s], fs0) /\ Apart(q, req[s], t0)
          BY <2>6, <4>1 DEF IInv, Isolated, Fits
        <5> QED
          BY <5>1, FormsOther
      <4> QED
        BY <4>1 DEF fs
    <3> QED
      BY <2>6, <3>1, OtherFits DEF t
  <2>12. ASSUME NEW s \in Requests \ {r}, NEW v \in Requests \ {r}, s # v PROVE Apart(req[s], req[v], t)
    BY <2>6, <2>12, OthersApart DEF t
  <2> QED
    BY <2>1, <2>2, <2>7, <2>8, <2>10, <2>11, <2>12, CommitKeeps
<1> QED
  BY <1>3, <1>4

LEMMA CommitFormKeeps ==
    ASSUME IInv, NEW r \in Requests, CommitForm(r)
    PROVE  IInv'
<1> DEFINE p == req[r]
           o == p.op
           id == IF o.kind = "newForm" THEN r ELSE o.form
           row == FormAssigned(r)
           q == [tx |-> Nothing, gone |-> {}, ftx |-> [g \in {id} |-> row]]
           fs == Over(forms, q.ftx, {})
<1>1. p.pc = "closing" /\ o.kind \in {"newForm", "editForm"} /\ Open(r) /\ fields' = fields /\ raced' = raced
  BY DEF CommitForm, Open
<1>2. /\ ReqOK(p) /\ Body(o) /\ AtWork(p) /\ FormsOK(forms) /\ FieldsOK(fields, forms) /\ IsFiniteSet(DOMAIN fields)
  BY <1>1, OpIs
<1>3. \/ Goes(r, Done(500)) \/ Goes(r, Done(409))
      \/ /\ o.kind = "newForm" \/ id \in DOMAIN forms
         /\ FormFree(r, id, row.name) /\ FormStorable(id, row)
         /\ forms' = Put(forms, id, row) /\ req' = Answer(r, 200)
  BY DEF CommitForm, Goes
<1>4. CASE Goes(r, Done(500)) \/ Goes(r, Done(409))
  BY <1>4, DoneKeeps
<1>5. CASE /\ o.kind = "newForm" \/ id \in DOMAIN forms
           /\ FormFree(r, id, row.name) /\ FormStorable(id, row)
           /\ forms' = Put(forms, id, row) /\ req' = Answer(r, 200)
  <2>1. id \in FormIds
    BY <1>2, <1>5 DEF FormIds, FormsOK
  <2>2. row.name \in Names /\ row.is_active # NULL /\ \A g \in DOMAIN forms \ {id} : forms[g].name # row.name
    BY <1>5 DEF FormStorable
  <2>3. FormOK(row)
    <3>1. CASE o.kind = "newForm"
      <4>1. row = o.row /\ DOMAIN o.row = {"name", "is_active"} /\ o.row.is_active \in BOOLEAN
        BY <1>2, <3>1 DEF FormAssigned, Body
      <4> QED
        BY <2>2, <4>1 DEF FormOK
    <3>2. CASE o.kind = "editForm"
      <4>1. row = Flush(forms[id], p.seen, Assign(p.seen, o.set))
        BY <3>2 DEF FormAssigned
      <4>2. FormOK(forms[id]) /\ FormOK(p.seen)
        BY <1>1, <1>2, <1>5, <3>2 DEF FormsOK, AtWork
      <4>3. "is_active" \in DOMAIN o.set => o.set.is_active \in BOOLEAN \cup {NULL}
        BY <1>2, <3>2 DEF Body
      <4>4. DOMAIN row = {"name", "is_active"}
        BY <4>1, <4>2 DEF Flush, FormOK
      <4>5. row.is_active \in BOOLEAN \cup {NULL}
        <5>1. Assign(p.seen, o.set).is_active \in BOOLEAN \cup {NULL}
          BY <4>2, <4>3 DEF Assign, FormOK
        <5> QED
          BY <4>1, <4>2, <5>1 DEF Flush, FormOK
      <4> QED
        BY <2>2, <4>4, <4>5 DEF FormOK
    <3> QED
      BY <1>1, <3>1, <3>2
  <2> HIDE DEF id, row, o, p
  <2>4. q.tx = Nothing /\ q.gone = {} /\ DOMAIN q.ftx = {id} /\ q.ftx[id] = row
    OBVIOUS
  <2> HIDE DEF q
  <2>5. DOMAIN q.tx = {}
    BY <2>4, NothingIs
  <2>6. /\ DOMAIN fs = DOMAIN forms \cup {id}
        /\ \A g \in DOMAIN fs : fs[g] = IF g = id THEN row ELSE forms[g]
        /\ fs = Put(forms, id, row)
    BY <2>4 DEF Over, Put
  <2>7. FormsFit(q, forms)
    BY <2>2, <2>4, <2>5, <2>6 DEF FormsFit
  <2>8. FormsOK(fs)
    <3>1. ASSUME NEW fs0, fs0 = forms PROVE FormsOK(Over(fs0, q.ftx, {}))
      BY <1>2, <2>1, <2>3, <2>4, <2>7, <3>1, FormsThen
    <3> QED
      BY <3>1
  <2>9. FieldsOK(fields, fs)
    BY <1>2, <2>6 DEF FieldsOK
  <2>10. ASSUME NEW s \in Requests \ {r} PROVE Apart(q, req[s], fields)
    <3>1. \A h \in DOMAIN req[s].ftx : id # h /\ row.name # req[s].ftx[h].name
      <4>1. CASE Open(s)
        BY <1>5, <4>1 DEF FormFree
      <4>2. CASE ~Open(s)
        <5>1. req[s].ftx = Nothing
          BY <4>2 DEF IInv, Isolated, Fits, AtWork, Open
        <5> QED
          BY <5>1, NothingIs
      <4> QED
        BY <4>1, <4>2
    <3>2. Refs(q.tx, fields) = {}
      BY <2>5 DEF Refs
    <3> QED
      BY <2>4, <2>5, <3>1, <3>2 DEF Apart
  <2>11. ASSUME NEW s \in Requests \ {r} PROVE Fits(s, req[s], fields, fs)
    <3>1. FormsFit(req[s], fs)
      <4>1. ASSUME NEW t0, NEW fs0, t0 = fields, fs0 = forms PROVE FormsFit(req[s], Over(fs0, q.ftx, {}))
        <5>1. FormsFit(req[s], fs0) /\ Apart(q, req[s], t0)
          BY <2>10, <4>1 DEF IInv, Isolated, Fits
        <5> QED
          BY <5>1, FormsOther
      <4> QED
        BY <4>1
    <3> QED
      BY <3>1 DEF IInv, Isolated, Fits
  <2>12. \A s, v \in Requests \ {r} : s # v => Apart(req[s], req[v], fields)
    BY DEF IInv, Isolated
  <2>13. fields' = fields /\ forms' = fs /\ raced' \in BOOLEAN /\ req' = Answer(r, 200)
    BY <1>1, <1>5, <2>6 DEF IInv, TypeOK
  <2> HIDE DEF fs
  <2> QED
    BY <1>2, <2>8, <2>9, <2>11, <2>12, <2>13, CommitKeeps
<1> QED
  BY <1>3, <1>4, <1>5

\* What is below depends on the rows only.
LEMMA BelowSame ==
    ASSUME NEW t, NEW u, IsFiniteSet(DOMAIN t), DOMAIN u = DOMAIN t, \A i \in DOMAIN t : u[i] = t[i], NEW S
    PROVE  Below(u, S) = Below(t, S)
<1> DEFINE n == Cardinality(DOMAIN t)
           f == Levels(t, S)
           g == Levels(u, S)
<1>1. n \in Nat
  BY FS_CardinalityType
<1>2. Below(t, S) = f[n] /\ Below(u, S) = g[n]
  BY DEF Below, Levels, Add
<1>3. IsLevel(t, S, n, f) /\ IsLevel(u, S, n, g)
  <2>1. n = Cardinality(DOMAIN u)
    OBVIOUS
  <2>2. PICK h : IsLevel(t, S, n, h)
    BY <1>1, LevelExists
  <2>3. PICK k : IsLevel(u, S, n, k)
    BY <1>1, LevelExists
  <2>4. IsLevel(t, S, n, f)
    BY <2>2 DEF IsLevel, Levels
  <2>5. IsLevel(u, S, n, g)
    BY <2>1, <2>3 DEF IsLevel, Levels
  <2> QED
    BY <2>4, <2>5
<1> HIDE DEF f, g, n
<1>4. /\ \A m \in 0..n : f[m] = IF m = 0 THEN S \cap DOMAIN t ELSE Add(t, f[m-1])
      /\ \A m \in 0..n : g[m] = IF m = 0 THEN S \cap DOMAIN t ELSE Add(u, g[m-1])
  BY <1>3 DEF IsLevel
<1>5. \A above : Add(u, above) = Add(t, above)
  BY DEF Add
<1> DEFINE T == {m \in 0..n : f[m] # g[m]}
<1>6. ASSUME T # {} PROVE FALSE
  <2>1. PICK m \in T : \A l \in T : m <= l
    <3>1. T \in SUBSET Nat
      BY <1>1
    <3> HIDE DEF T
    <3> QED
      BY <1>6, <3>1, LeastExists
  <2>2. CASE m = 0
    BY <1>4, <2>1, <2>2
  <2>3. CASE m # 0
    <3>1. m - 1 \in 0..n /\ ~(m <= m - 1)
      BY <1>1, <2>1, <2>3
    <3>2. f[m-1] = g[m-1]
      BY <2>1, <3>1
    <3> QED
      BY <1>4, <1>5, <2>1, <2>3, <3>2
  <2> QED
    BY <2>2, <2>3
<1> QED
  BY <1>1, <1>2, <1>6

\* What a deletion of a form takes away: all that it has read below the form, and all
\* that the form has by now.
LEMMA DropIs ==
    ASSUME IInv, NEW r \in Requests, CommitDrop(r)
    PROVE  \E q : /\ DOMAIN q.tx = {} /\ FieldsFit(q, fields) /\ \A s \in Requests \ {r} : Apart(q, req[s], fields)
                  /\ fields' = Over(fields, q.tx, q.gone)
                  /\ {f \in DOMAIN fields : fields[f].form = req[r].op.form} \subseteq q.gone
<1> DEFINE p == req[r]
           of == {f \in DOMAIN fields : fields[f].form = p.op.form}
           del == p.doomed \cup of
           new == Saved(r, Nothing, Nothing)
           dead == Below(new, del)
           q == Flushed(p, r, Nothing, Nothing, del)
           t == Over(fields, q.tx, q.gone)
<1>1. /\ p.pc = "closing" /\ p.op.kind = "dropForm" /\ Free(r, Nothing, Nothing, del) /\ Open(r)
      /\ fields' = [f \in DOMAIN fields \ Below(fields, del) |-> fields[f]]
  BY DEF CommitDrop, Open
<1>2. ReqOK(p) /\ AtWork(p) /\ IsFiniteSet(DOMAIN fields)
  BY <1>1, OpIs
<1>3. p.tx = Nothing /\ p.gone = {} /\ p.ftx = Nothing
  BY <1>1, <1>2 DEF AtWork
<1>4. HasFlushed(r, Nothing, Nothing, del, q)
  BY <1>2, NothingIs, FlushedIs
<1>5. Written(r, Nothing, Nothing) = {}
  BY NothingIs DEF Written
<1>6. Writes(r, Nothing, Nothing) /\ Failure(r, Nothing, Nothing) = NULL
  BY <1>5, NothingIs DEF Writes, Failure, Sound
<1>7. DOMAIN new = DOMAIN fields /\ \A i \in DOMAIN fields : new[i] = fields[i]
  <2>1. DOMAIN View(r) = DOMAIN fields /\ \A i \in DOMAIN fields : View(r)[i] = fields[i]
    BY <1>3, NothingIs DEF View, Over
  <2> QED
    BY <2>1, NothingIs DEF Saved
<1>8. q.tx = [i \in (DOMAIN p.tx \cup {}) \ dead |-> new[i]] /\ q.gone = p.gone \cup (dead \cap DOMAIN fields)
  BY <1>4, <1>5 DEF HasFlushed
<1> HIDE DEF q, del, p, new
<1>9. FieldsFit(q, fields) /\ \A s \in Requests \ {r} : Apart(q, req[s], fields)
  BY <1>1, <1>4, <1>6, FlushKeeps
<1>10. DOMAIN q.tx = {} /\ q.gone = dead \cap DOMAIN fields
  BY <1>3, <1>8, NothingIs
<1>11. dead = Below(fields, del)
  <2>1. ASSUME NEW t0, t0 = fields PROVE dead = Below(t0, del)
    BY <1>2, <1>7, <2>1, BelowSame
  <2> QED
    BY <2>1
<1>12. fields' = t
  BY <1>1, <1>10, <1>11 DEF Over
<1>13. of \subseteq q.gone
  <2>1. ASSUME NEW t0, t0 = fields PROVE del \cap DOMAIN t0 \subseteq Below(t0, del)
    BY <1>2, <2>1, BelowIs
  <2> QED
    BY <1>10, <1>11, <2>1 DEF del
<1> QED
  BY <1>9, <1>10, <1>12, <1>13 DEF p

LEMMA CommitDropKeeps ==
    ASSUME IInv, NEW r \in Requests, CommitDrop(r)
    PROVE  IInv'
<1> DEFINE p == req[r]
           o == p.op
           fs == Drop(forms, o.form)
<1>1. /\ p.pc = "closing" /\ o.kind = "dropForm" /\ Open(r)
      /\ \A s \in Requests \ {r} : Open(s) =>
            o.form \notin DOMAIN req[s].ftx /\ \A j \in DOMAIN req[s].tx : req[s].tx[j].form # o.form
      /\ forms' = fs /\ req' = Answer(r, 200) /\ raced' = (raced \/ req[r].late)
  BY DEF CommitDrop, Open
<1>2. FormsOK(forms) /\ FieldsOK(fields, forms) /\ IsFiniteSet(DOMAIN fields)
  BY <1>1, OpIs
<1>3. raced' \in BOOLEAN
  BY <1>1
<1>4. PICK q : /\ DOMAIN q.tx = {} /\ FieldsFit(q, fields) /\ \A s \in Requests \ {r} : Apart(q, req[s], fields)
               /\ fields' = Over(fields, q.tx, q.gone)
               /\ {f \in DOMAIN fields : fields[f].form = o.form} \subseteq q.gone
  BY DropIs
<1> DEFINE t == Over(fields, q.tx, q.gone)
<1>5. /\ DOMAIN t = DOMAIN fields \ q.gone /\ \A i \in DOMAIN t : t[i] = fields[i]
      /\ fields' = t /\ \A f \in DOMAIN t : fields[f].form # o.form
  <2>1. DOMAIN t = DOMAIN fields \ q.gone /\ \A i \in DOMAIN t : t[i] = fields[i]
    BY <1>4 DEF Over
  <2>2. fields' = t
    BY <1>4
  <2>3. \A f \in DOMAIN t : fields[f].form # o.form
    BY <1>4, <2>1
  <2> QED
    BY <2>1, <2>2, <2>3
<1> HIDE DEF p, o
<1>6. \A i \in DOMAIN t : t[i].parent \in DOMAIN t \cup {NULL}
  BY <1>4 DEF FieldsFit
<1> HIDE DEF t
<1>7. DOMAIN fs = DOMAIN forms \ {o.form} /\ \A g \in DOMAIN fs : fs[g] = forms[g]
  BY DEF Drop
<1> HIDE DEF fs
<1>8. FormsOK(fs)
  BY <1>2, <1>7 DEF FormsOK
<1>9. FieldsOK(t, fs)
  <2>1. ASSUME NEW f \in DOMAIN t
        PROVE  /\ f \in DOMAIN fields /\ t[f] = fields[f] /\ t[f].form \in DOMAIN fs
    BY <1>2, <1>5, <1>7 DEF FieldsOK
  <2> QED
    BY <1>2, <1>6, <2>1 DEF FieldsOK
<1>10. IsFiniteSet(DOMAIN t)
  BY <1>2, <1>5, FS_Subset
<1>11. ASSUME NEW s \in Requests \ {r} PROVE FormsFit(req[s], fs)
  <2> DEFINE u == req[s]
             view == Over(forms, u.ftx, {})
             then == Over(fs, u.ftx, {})
  <2>1. FormsFit(u, forms)
    BY DEF IInv, Isolated, Fits
  <2>2. /\ DOMAIN view = DOMAIN forms \cup DOMAIN u.ftx
        /\ \A g \in DOMAIN view : view[g] = IF g \in DOMAIN u.ftx THEN u.ftx[g] ELSE forms[g]
    BY DEF Over
  <2>3. /\ DOMAIN then = DOMAIN fs \cup DOMAIN u.ftx
        /\ \A g \in DOMAIN then : then[g] = IF g \in DOMAIN u.ftx THEN u.ftx[g] ELSE fs[g]
    BY DEF Over
  <2>4. /\ \A i \in DOMAIN u.tx : u.tx[i].form \in DOMAIN view
        /\ \A g \in DOMAIN u.ftx : \A h \in DOMAIN view \ {g} : view[h].name # u.ftx[g].name
    BY <2>1 DEF FormsFit
  <2>5. \A i \in DOMAIN u.tx : u.tx[i].form # o.form
    <3>1. CASE Open(s)
      BY <1>1, <3>1
    <3>2. CASE ~Open(s)
      <4>1. u.tx = Nothing
        BY <3>2 DEF IInv, Isolated, Fits, AtWork, Open
      <4> QED
        BY <4>1, NothingIs
    <3> QED
      BY <3>1, <3>2
  <2> HIDE DEF u, view, then
  <2>6. \A i \in DOMAIN u.tx : u.tx[i].form \in DOMAIN then
    BY <1>7, <2>2, <2>3, <2>4, <2>5
  <2>7. \A g \in DOMAIN u.ftx : \A h \in DOMAIN then \ {g} : then[h].name # u.ftx[g].name
    BY <1>7, <2>2, <2>3, <2>4
  <2> QED
    BY <2>6, <2>7 DEF FormsFit, u, then
<1>12. ASSUME NEW s \in Requests \ {r} PROVE Fits(s, req[s], t, fs)
  BY <1>4, <1>11, OtherFits DEF t
<1>13. ASSUME NEW s \in Requests \ {r}, NEW v \in Requests \ {r}, s # v PROVE Apart(req[s], req[v], t)
  BY <1>4, <1>13, OthersApart DEF t
<1>14. fields' = t /\ forms' = fs /\ req' = Answer(r, 200)
  BY <1>1, <1>5
<1>15. \A s, v \in Requests \ {r} : s # v => Apart(req[s], req[v], t)
  BY <1>13
<1> QED
  BY <1>3, <1>8, <1>9, <1>10, <1>12, <1>14, <1>15, CommitKeeps

(***************************************************************************)
(* The theorem.                                                            *)
(***************************************************************************)

LEMMA InitKeeps == Init => IInv
<1> SUFFICES ASSUME Init PROVE IInv
  OBVIOUS
<1>1. forms = InitForms /\ fields = InitFields /\ req = [r \in Requests |-> Idle] /\ raced = FALSE
  BY DEF Init
<1>2. FormsOK(forms) /\ FieldsOK(fields, forms) /\ IsFiniteSet(DOMAIN fields)
  BY <1>1, InitAssumption DEF FormsOK, FieldsOK, FormIds, FieldIds
<1>3. /\ DOMAIN Idle.tx = {} /\ DOMAIN Idle.ftx = {} /\ Idle.pc = "idle" /\ Idle.code = NULL /\ Idle.made = 0
      /\ Idle.gone = {} /\ Idle.doomed = {} /\ Idle.moved = {} /\ Idle.visit = {} /\ Idle.stack = <<>>
      /\ Idle.up = NULL /\ Idle.tx = Nothing /\ Idle.ftx = Nothing
  BY NothingIs DEF Idle
<1>4. ReqOK(Idle) /\ AtWork(Idle) /\ IdleRows(Idle)
  BY <1>3 DEF ReqOK, AtWork, IdleRows, Stages
<1>5. StackOK(Idle)
  <2>1. Idle.stack \in Seq({})
    BY <1>3
  <2> QED
    BY <2>1, StackFits
<1>6. ASSUME NEW r \in Requests PROVE Fits(r, Idle, fields, forms) /\ \A u : Apart(Idle, u, fields)
  <2>1. DOMAIN fields \cap NewOf(r) = {}
    BY <1>1, IdsAssumption DEF NewOf
  <2>2. ASSUME NEW t, NEW fs, t = fields, fs = forms PROVE Fits(r, Idle, t, fs) /\ \A u : Apart(Idle, u, t)
    BY <1>2, <1>4, <1>5, <2>1, <2>2, IdleFits
  <2> QED
    BY <2>2
<1>7. TypeOK
  BY <1>1, <1>2, <1>4 DEF TypeOK
<1>8. Isolated
  BY <1>1, <1>2, <1>6 DEF Isolated
<1> QED
  BY <1>7, <1>8 DEF IInv

LEMMA NextKeeps == IInv /\ [Next]_vars => IInv'
<1> SUFFICES ASSUME IInv, [Next]_vars PROVE IInv'
  OBVIOUS
<1>1. CASE \E r \in Requests : \E o \in Ops[r] : Load(r, o)
  BY <1>1, LoadKeeps
<1>2. ASSUME NEW r \in Requests, Proceed(r) PROVE IInv'
  BY <1>2, WalkKeeps, FlushFieldKeeps, FlushFormKeeps, MoveKeeps, SyncNodeKeeps, SyncEndKeeps,
     CommitFieldsKeeps, CommitFormKeeps, CommitDropKeeps DEF Proceed
<1>3. ASSUME NEW r \in Requests, Abort(r) PROVE IInv'
  <2>1. Goes(r, Done(500))
    BY <1>3 DEF Abort, Goes
  <2> QED
    BY <2>1, DoneKeeps
<1>4. CASE UNCHANGED vars
  <2>1. forms' = forms /\ fields' = fields /\ req' = req /\ raced' = raced
    BY <1>4 DEF vars
  <2>2. TypeOK'
    BY <2>1 DEF IInv, TypeOK
  <2>3. Isolated'
    BY <2>1 DEF IInv, Isolated
  <2> QED
    BY <2>2, <2>3 DEF IInv
<1> QED
  BY <1>1, <1>2, <1>3, <1>4 DEF Next, Terminated

\* Whatever the payloads and however requests overlap: transactions stay apart, and what
\* each has in its hands could be committed as it is.
THEOREM TransactionsApart == Spec => []IInv
  BY InitKeeps, NextKeeps, PTL DEF Spec

\* Rows have their columns' types, no two fields of a form and no two forms get one key,
\* a field's form and its parent exist, and every request is at one of its stages.
THEOREM TypeCorrect == Spec => []TypeOK
<1>1. IInv => TypeOK
  BY DEF IInv
<1> QED
  BY <1>1, TransactionsApart, PTL

(***************************************************************************)
(* Trees: a row that does not hang below a root hangs below others that do *)
(* not.                                                                    *)
(***************************************************************************)

\* In a table without cycles no rows hang below each other.
LEMMA ForestIs ==
    ASSUME NEW table, IsFiniteSet(DOMAIN table), ~Cyclic(table), NEW D, Loops(table, D)
    PROVE  D = {}
<1> DEFINE n == Cardinality(DOMAIN table)
           S == {i \in DOMAIN table : table[i].parent = NULL}
           f == Levels(table, S)
<1>1. n \in Nat
  BY FS_CardinalityType
<1>2. f[n] = DOMAIN table
  BY DEF Cyclic, Below, Levels, Add
<1>3. \A m \in 0..n : f[m] = IF m = 0 THEN S \cap DOMAIN table ELSE Add(table, f[m-1])
  BY LevelsAre
<1> HIDE DEF f, n
<1> DEFINE T == {m \in 0..n : f[m] \cap D # {}}
<1>4. ASSUME T # {} PROVE FALSE
  <2>1. PICK m \in T : \A l \in T : m <= l
    <3>1. T \in SUBSET Nat
      BY <1>1
    <3> HIDE DEF T
    <3> QED
      BY <1>4, <3>1, LeastExists
  <2>2. PICK i \in D : i \in f[m]
    BY <2>1
  <2>3. i \in DOMAIN table /\ table[i].parent \in D /\ NULL \notin D
    BY DEF Loops
  <2>4. CASE m = 0
    <3>1. i \in S
      BY <1>3, <2>1, <2>2, <2>4
    <3> QED
      BY <2>3, <3>1
  <2>5. CASE m # 0
    <3> m \in 0..n
      BY <2>1
    <3>1. m - 1 \in 0..n /\ ~(m <= m - 1) /\ f[m] = Add(table, f[m-1])
      <4>1. m - 1 \in 0..n /\ ~(m <= m - 1)
        BY <1>1, <2>5
      <4>2. f[m] = Add(table, f[m-1])
        BY <1>3, <2>5
      <4> QED
        BY <4>1, <4>2
    <3>2. f[m-1] \cap D = {}
      BY <2>1, <3>1
    <3> QED
      BY <2>2, <2>3, <3>1, <3>2 DEF Add
  <2> QED
    BY <2>4, <2>5
<1>5. n \in 0..n
  BY <1>1
<1> QED
  BY <1>2, <1>4, <1>5 DEF Loops

\* In a table with cycles, whose references are whole, some do.
LEMMA CycleIs ==
    ASSUME NEW table, IsFiniteSet(DOMAIN table), NULL \notin DOMAIN table, Cyclic(table),
           \A i \in DOMAIN table : table[i].parent \in DOMAIN table \cup {NULL}
    PROVE  \E D : Loops(table, D) /\ D # {}
<1> DEFINE S == {f \in DOMAIN table : table[f].parent = NULL}
           B == Below(table, S)
           D == DOMAIN table \ B
<1>1. B \subseteq DOMAIN table /\ S \cap DOMAIN table \subseteq B
  BY BelowIs
<1>2. \A i \in DOMAIN table : table[i].parent \in B => i \in B
  BY BelowIs
<1>3. B # DOMAIN table
  BY DEF Cyclic
<1> HIDE DEF B
<1>4. Loops(table, D) /\ D # {}
  BY <1>1, <1>2, <1>3 DEF Loops
<1> QED
  BY <1>4

\* When nothing that was walked has got another parent since, a transaction closes no
\* cycle: neither by the field that it moves, since the walk led up to a root, nor by
\* what it inserts, of which the first would hang below an older one.
LEMMA CommitForest ==
    ASSUME NEW t, IsFiniteSet(DOMAIN t), ~Cyclic(t), \A i \in DOMAIN t : t[i].parent \in DOMAIN t \cup {NULL},
           NEW live, NEW r \in live, NEW q, q.pc = "closing", Climbed(q, t, live), Edges(r, q, t),
           DOMAIN q.tx \subseteq DOMAIN t \cup NewOf(r),
           \A i \in DOMAIN q.walked \cap DOMAIN t : t[i].parent = q.walked[i].parent,
           NEW D, Loops(Over(t, q.tx, q.gone), D)
    PROVE  D = {}
<1> DEFINE t2 == Over(t, q.tx, q.gone)
           to == Target(q)
           f == q.op.field
<1>1. /\ DOMAIN t2 \subseteq DOMAIN t \cup DOMAIN q.tx
      /\ \A i \in DOMAIN t2 : t2[i] = IF i \in DOMAIN q.tx THEN q.tx[i] ELSE t[i]
  BY DEF Over
<1>2. D \subseteq DOMAIN t2 /\ NULL \notin D /\ \A i \in D : t2[i].parent \in D
  BY DEF Loops
<1> HIDE DEF t2, to
<1>3. D \subseteq DOMAIN t \cup NewOf(r)
  BY <1>1, <1>2
<1>4. \A i \in D \cap DOMAIN t : t2[i].parent # t[i].parent =>
          q.op.kind = "editField" /\ i = f /\ t2[i].parent = to
  BY <1>1, <1>2 DEF Edges, to
<1>5. CASE \E i \in D \cap DOMAIN t : t2[i].parent # t[i].parent
  <2>1. q.op.kind = "editField" /\ to \in D
    BY <1>2, <1>4, <1>5
  <2>2. /\ f \notin DOMAIN q.walked /\ to \in DOMAIN q.walked \cup {NULL}
        /\ \A i \in DOMAIN q.walked :
              Settled(i, live) /\ \/ q.walked[i].parent \in DOMAIN q.walked \cup {NULL}
                                  \/ Settled(q.walked[i].parent, live) /\ q.walked[i].parent \notin DOMAIN t
    BY <2>1 DEF Climbed, to
  <2> DEFINE E == D \cap DOMAIN q.walked
  <2>3. ASSUME NEW i \in E PROVE i \in DOMAIN t /\ t[i].parent \in E
    <3>1. i \notin NewOf(r)
      BY <2>2 DEF Settled
    <3>2. i \in DOMAIN t /\ i # f
      BY <1>3, <2>2, <3>1
    <3>3. t[i].parent = q.walked[i].parent /\ t[i].parent \in D
      BY <1>2, <1>4, <3>2
    <3>4. t[i].parent # NULL /\ (t[i].parent \in DOMAIN t \/ t[i].parent \in NewOf(r))
      BY <1>2, <1>3, <3>3
    <3>5. q.walked[i].parent \in DOMAIN q.walked
      BY <2>2, <3>3, <3>4 DEF Settled
    <3> QED
      BY <3>2, <3>3, <3>5
  <2>4. Loops(t, E)
    BY <1>2, <2>3 DEF Loops
  <2>5. E = {}
    BY <2>4, ForestIs
  <2> QED
    BY <1>2, <2>1, <2>2, <2>5
<1>6. CASE \A i \in D \cap DOMAIN t : t2[i].parent = t[i].parent
  <2> DEFINE E == D \cap DOMAIN t
  <2>1. Loops(t, E)
    BY <1>2, <1>6 DEF Loops
  <2>2. E = {}
    BY <2>1, ForestIs
  <2>3. D \subseteq NewOf(r) /\ \A i \in D : i \notin DOMAIN t /\ i \in DOMAIN q.tx /\ t2[i] = q.tx[i]
    BY <1>1, <1>2, <1>3, <2>2
  <2> SUFFICES ASSUME D # {} PROVE FALSE
    OBVIOUS
  <2> DEFINE K == {i[2] : i \in D}
  <2>4. K \in SUBSET Nat /\ K # {}
    BY <2>3 DEF NewOf
  <2>5. PICK k \in K : \A l \in K : k <= l
    <3> HIDE DEF K
    <3> QED
      BY <2>4, LeastExists
  <2>6. PICK i \in D : i[2] = k
    BY <2>5
  <2>7. q.tx[i].parent \in D
    BY <1>2, <2>3
  <2>8. q.tx[i].parent[2] < k
    BY <2>3, <2>6, <2>7 DEF Edges, Older
  <2>9. q.tx[i].parent[2] \in K /\ k \in Nat
    BY <2>4, <2>5, <2>7
  <2>10. k <= q.tx[i].parent[2]
    BY <2>5, <2>9
  <2> HIDE DEF K
  <2>11. q.tx[i].parent[2] \in Nat /\ k \in Nat
    BY <2>4, <2>9
  <2> QED
    BY <2>8, <2>10, <2>11
<1> QED
  BY <1>5, <1>6

(***************************************************************************)
(* What holds of the edges holds on, whatever the others do.               *)
(***************************************************************************)

LEMMA SettledIs ==
    ASSUME IInv
    PROVE  Settled(NULL, Live) /\ \A i \in DOMAIN fields : Settled(i, Live)
<1>1. \A s \in Live : DOMAIN fields \cap NewOf(s) = {}
  BY DEF IInv, Isolated, Fits, Live
<1>2. \A s \in Live : NULL \notin NewOf(s)
  BY NullAssumption DEF Live, NewOf, FieldIds
<1> QED
  BY <1>1, <1>2 DEF Settled

\* Others have ended, and what is committed has changed where q has nothing.
LEMMA TracesStay ==
    ASSUME NEW r, NEW q, NEW t, NEW live, Traces(r, q, t, live), NEW live2 \in SUBSET live, NEW t2,
           \A p : Settled(p, live) /\ p \notin DOMAIN t => p \notin DOMAIN t2,
           \A i \in DOMAIN q.tx : /\ i \in DOMAIN t2 <=> i \in DOMAIN t
                                  /\ i \in DOMAIN t => t2[i].parent = t[i].parent
    PROVE  Traces(r, q, t2, live2)
<1>1. \A p : Settled(p, live) => Settled(p, live2)
  BY DEF Settled
<1>2. Climbed(q, t2, live2)
  <2> SUFFICES ASSUME q.op.kind = "editField" PROVE Climbed(q, t2, live2)
    BY DEF Climbed
  <2>1. Climbed(q, t, live)
    BY DEF Traces
  <2>2. \A i \in DOMAIN q.walked :
           LET p == q.walked[i].parent IN
           /\ Settled(i, live2)
           /\ \/ p \in DOMAIN q.walked \cup {NULL}
              \/ q.pc = "walking" /\ p = q.up
              \/ Settled(p, live2) /\ p \notin DOMAIN t2
    BY <1>1, <2>1 DEF Climbed
  <2> QED
    BY <1>1, <2>1, <2>2 DEF Climbed
<1>3. Edges(r, q, t2)
  BY DEF Traces, Edges
<1> QED
  BY <1>1, <1>2, <1>3 DEF Traces

\* Request r goes on as q.
LEMMA GoesTraces ==
    ASSUME IInv, Traced, NEW r \in Requests, req[r].pc # "done", NEW q, Goes(r, q),
           q.pc \notin {"idle", "done"} => Traces(r, q, fields, Live)
    PROVE  Traced'
<1> DEFINE live2 == {s \in Requests : req'[s].pc # "done"}
<1>1. /\ fields' = fields /\ req'[r] = q /\ \A s \in Requests \ {r} : req'[s] = req[s]
  BY DEF Goes, IInv, TypeOK
<1>2. live2 \in SUBSET Live
  BY <1>1 DEF Live
<1> HIDE DEF live2
<1>3. ASSUME NEW s \in Requests, req'[s].pc \notin {"idle", "done"} PROVE Traces(s, req'[s], fields, live2)
  <2>1. Traces(s, req'[s], fields, Live)
    BY <1>1, <1>3 DEF Traced, Open
  <2>2. ASSUME NEW p, p = req'[s], NEW t, t = fields, NEW live, live = Live PROVE Traces(s, p, t, live2)
    BY <1>2, <2>1, <2>2, TracesStay
  <2> QED
    BY <2>2
<1> QED
  BY <1>1, <1>3 DEF Traced, Open, Live, live2

\* Request r ends with a commit, as which the fields are t.
LEMMA CommitTraces ==
    ASSUME IInv, Traced, NEW r \in Requests, req[r].pc # "done", req' = Answer(r, 200), NEW t, fields' = t,
           DOMAIN t \subseteq DOMAIN fields \cup NewOf(r),
           \A s \in Requests \ {r} : \A i \in DOMAIN req[s].tx :
               (i \in DOMAIN t <=> i \in DOMAIN fields) /\ (i \in DOMAIN fields => t[i] = fields[i])
    PROVE  Traced'
<1> DEFINE live2 == {s \in Requests : req'[s].pc # "done"}
           late(s) == [req[s] EXCEPT !.late = TRUE]
<1>1. /\ req'[r].pc = "done" /\ \A s \in Requests \ {r} : req'[s] = req[s] \/ req'[s] = late(s)
  BY DEF Answer, Done, Idle
<1>2. ASSUME NEW s \in Requests
      PROVE  LET q == req[s]
                 p == late(s)
             IN  /\ p.pc = q.pc /\ p.op = q.op /\ p.seen = q.seen /\ p.walked = q.walked /\ p.up = q.up /\ p.field = q.field
                 /\ p.tx = q.tx /\ p.made = q.made /\ p.stack = q.stack
  <2>1. ASSUME NEW q, DOMAIN q = DOMAIN Idle
        PROVE  LET p == [q EXCEPT !.late = TRUE]
               IN  /\ p.pc = q.pc /\ p.op = q.op /\ p.seen = q.seen /\ p.walked = q.walked /\ p.up = q.up /\ p.field = q.field
                   /\ p.tx = q.tx /\ p.made = q.made /\ p.stack = q.stack
    BY <2>1 DEF Idle
  <2>2. DOMAIN req[s] = DOMAIN Idle
    BY DEF IInv, TypeOK, ReqOK
  <2> QED
    BY <2>1, <2>2
<1> HIDE DEF late
<1>3. live2 \in SUBSET Live /\ r \in Live
  <2>1. \A s \in Requests : late(s).pc = req[s].pc
    BY <1>2
  <2>2. \A s \in Requests : req'[s].pc # "done" => req[s].pc # "done"
    BY <1>1, <2>1
  <2> QED
    BY <2>2 DEF Live
<1> HIDE DEF live2
<1>4. ASSUME NEW s \in Requests, req'[s].pc \notin {"idle", "done"} PROVE Traces(s, req'[s], t, live2)
  <2>1. s # r
    BY <1>1, <1>4
  <2>2. req[s].pc \notin {"idle", "done"}
    BY <1>1, <1>2, <1>4, <2>1
  <2>3. Traces(s, req[s], t, live2)
    <3>1. Traces(s, req[s], fields, Live)
      BY <2>2 DEF Traced, Open
    <3>2. \A p : Settled(p, Live) /\ p \notin DOMAIN fields => p \notin DOMAIN t
      BY <1>3 DEF Settled
    <3>3. ASSUME NEW q, q = req[s], NEW t0, t0 = fields, NEW live, live = Live PROVE Traces(s, q, t, live2)
      <4>1. \A i \in DOMAIN q.tx : /\ i \in DOMAIN t <=> i \in DOMAIN t0
                                   /\ i \in DOMAIN t0 => t[i].parent = t0[i].parent
        BY <2>1, <3>3
      <4> QED
        BY <1>3, <3>1, <3>2, <3>3, <4>1, TracesStay
    <3> QED
      BY <3>3
  <2>4. CASE req'[s] = late(s)
    BY <1>2, <2>3, <2>4 DEF Traces, Climbed, Target, Edges, Stacked
  <2> QED
    BY <1>1, <2>1, <2>3, <2>4
<1> QED
  BY <1>4 DEF Traced, Open, Live, live2

(***************************************************************************)
(* What is inserted hangs below what is older.                             *)
(***************************************************************************)

LEMMA OlderStays ==
    ASSUME NEW r, NEW i, NEW k \in Nat, NEW l \in Nat, k <= l, Older(r, i, k)
    PROVE  Older(r, i, l)
<1>1. CASE i \in NewOf(r)
  <2>1. i[2] \in Nat /\ i[2] < k
    BY <1>1 DEF Older, NewOf
  <2> QED
    BY <2>1 DEF Older
<1> QED
  BY <1>1 DEF Older

LEMMA FramesOlder ==
    ASSUME NEW r, NEW q, NEW T, q.stack \in Seq(T), \A f \in T : FrameOlder(r, f, q.made + 1)
    PROVE  Stacked(r, q)
<1> DEFINE s == q.stack
<1>1. \A k \in DOMAIN s : s[k] \in T
  <2> HIDE DEF s
  <2>1. s \in Seq(T)
    BY DEF s
  <2> QED
    BY <2>1
<1> QED
  BY <1>1 DEF Stacked

LEMMA OntoTraces ==
    ASSUME NEW r, NEW q, NEW t, NEW live, Traces(r, q, t, live), NEW z, Onto(q, z), Stacked(r, z)
    PROVE  Traces(r, z, t, live)
<1>1. Climbed(z, t, live)
  <2> SUFFICES ASSUME q.op.kind = "editField" PROVE Climbed(z, t, live)
    BY DEF Onto, Past, Climbed
  <2>1. Climbed(q, t, live) /\ Target(z) = Target(q)
    BY DEF Traces, Onto, Past, Target
  <2>2. /\ Settled(q.op.field, live) /\ q.op.field \notin DOMAIN q.walked
        /\ Target(q) \in DOMAIN q.walked \cup {NULL}
        /\ \A i \in DOMAIN q.walked :
              LET p == q.walked[i].parent IN
              Settled(i, live) /\ (p \in DOMAIN q.walked \cup {NULL} \/ (Settled(p, live) /\ p \notin DOMAIN t))
    BY <2>1 DEF Climbed, Onto, Past
  <2> QED
    BY <2>1, <2>2 DEF Climbed, Onto, Past
<1>2. Edges(r, z, t)
  BY DEF Traces, Edges, Onto, Past, Target
<1> QED
  BY <1>1, <1>2 DEF Traces, Onto, Past

LEMMA CloseTraces ==
    ASSUME NEW r, NEW q, NEW t, NEW live, Traces(r, q, t, live), DOMAIN q = DOMAIN Idle, q.pc # "walking"
    PROVE  Traces(r, [q EXCEPT !.pc = "closing"], t, live)
<1> DEFINE z == [q EXCEPT !.pc = "closing"]
<1>1. Onto(q, z) /\ z.stack = q.stack /\ z.made = q.made
  BY DEF Idle, Onto, Past
<1> HIDE DEF z
<1>2. Stacked(r, z)
  BY <1>1 DEF Traces, Stacked
<1> QED
  BY <1>1, <1>2, OntoTraces DEF z

\* The rows that r sees and has inserted are older than those that it will.
LEMMA SyncTraces ==
    ASSUME IInv, NEW r \in Requests, Open(r), NEW q, Traces(r, q, fields, Live), DOMAIN q = DOMAIN Idle, q.pc # "walking",
           StackOK(q), q.made \in Nat, NEW form, NEW parent, Older(r, parent, q.made + 1), NEW nodes
    PROVE  Traces(r, Sync(r, q, form, parent, nodes), fields, Live)
<1> DEFINE z == Sync(r, q, form, parent, nodes)
           f == Frame(r, q, form, parent, nodes)
           T == {q.stack[k] : k \in DOMAIN q.stack}
<1>1. DOMAIN fields \cap NewOf(r) = {}
  BY DEF IInv, Isolated, Fits, Open
<1>2. FrameOlder(r, f, q.made + 1)
  <2>1. /\ {"parent", "existing"} \subseteq DOMAIN f /\ f.parent = parent
        /\ DOMAIN f.existing \subseteq DOMAIN fields \cup DOMAIN q.tx
    BY DEF Frame, Over, ChildrenOf
  <2> HIDE DEF f
  <2>2. ASSUME NEW i \in DOMAIN f.existing PROVE Older(r, i, q.made + 1)
    BY <1>1, <2>1 DEF Traces, Edges, Older
  <2> QED
    BY <2>1, <2>2 DEF FrameOlder
<1> HIDE DEF f
<1>3. Onto(q, z) /\ z.stack = <<f>> \o q.stack /\ z.made = q.made
  BY DEF Sync, Idle, Onto, Past, f
<1> HIDE DEF z
<1>4. q.stack \in Seq(T) /\ \A g \in T : FrameOlder(r, g, q.made + 1)
  BY DEF StackOK, Traces, Stacked
<1> HIDE DEF T
<1>5. z.stack \in Seq(T \cup {f}) /\ \A g \in T \cup {f} : FrameOlder(r, g, z.made + 1)
  BY <1>2, <1>3, <1>4
<1>6. Stacked(r, z)
  BY <1>5, FramesOlder
<1>7. ASSUME NEW t, t = fields, NEW live, live = Live PROVE Traces(r, z, t, live)
  BY <1>3, <1>6, <1>7, OntoTraces
<1> QED
  BY <1>7 DEF z

\* A flush inserts one row at most, below an older one, and gives another parent to the
\* field of an update only.
LEMMA FlushTraces ==
    ASSUME IInv, NEW r \in Requests, Open(r), Traces(r, req[r], fields, Live),
           NEW ins, NEW ups, NEW del, NEW q, HasFlushed(r, ins, ups, del, q),
           Past(req[r], q), q.stack = req[r].stack,
           \/ DOMAIN ins = {} /\ q.made = req[r].made
           \/ /\ DOMAIN ins = {NewId(r)} /\ Older(r, ins[NewId(r)].parent, req[r].made + 1)
              /\ q.made = req[r].made + 1,
           \A i \in DOMAIN ups : "parent" \in DOMAIN ups[i] =>
               req[r].op.kind = "editField" /\ i = req[r].op.field /\ ups[i].parent = Target(req[r])
    PROVE  Traces(r, q, fields, Live)
<1> DEFINE p == req[r]
           new == Saved(r, ins, ups)
           new0 == View(r)
<1>1. /\ ReqOK(p) /\ Fits(r, p, fields, forms) /\ DOMAIN p = DOMAIN Idle /\ p.made \in Nat
  BY OpIs DEF ReqOK
<1>2. DOMAIN fields \cap NewOf(r) = {} /\ DOMAIN p.tx \subseteq DOMAIN fields \cup NewOf(r)
  BY <1>1 DEF Fits, Open
<1>3. /\ q.op = p.op /\ q.seen = p.seen /\ q.walked = p.walked /\ q.pc # "walking"
      /\ q.pc = "moving" => q.field = p.op.field
  BY DEF Past
<1>4. q.made \in Nat /\ p.made <= q.made
  BY <1>1
<1>5. /\ DOMAIN new0 = (DOMAIN fields \ p.gone) \cup DOMAIN p.tx
      /\ \A i \in DOMAIN new0 : new0[i] = IF i \in DOMAIN p.tx THEN p.tx[i] ELSE fields[i]
      /\ \A i \in DOMAIN new0 : FieldOK(new0[i])
  <2>1. new0 = Over(fields, p.tx, p.gone) /\ \A i \in DOMAIN new0 : FieldOK(new0[i])
    BY ViewIs
  <2> HIDE DEF new0
  <2> QED
    BY <2>1 DEF Over
<1>6. /\ DOMAIN q.tx \subseteq DOMAIN p.tx \cup DOMAIN ins \cup (DOMAIN ups \cap DOMAIN new0)
      /\ \A i \in DOMAIN q.tx : q.tx[i] = new[i]
  BY DEF HasFlushed, Written
<1>7. \A i \in DOMAIN ins : new[i] = ins[i]
  BY DEF Saved
<1>8. ASSUME NEW i \in DOMAIN new0, i \notin DOMAIN ins
      PROVE  \/ new[i].parent = new0[i].parent
             \/ p.op.kind = "editField" /\ i = p.op.field /\ new[i].parent = Target(p)
  <2>1. new[i] = new0[i] \/ (i \in DOMAIN ups /\ new[i] = Assign(new0[i], ups[i]))
    BY <1>8 DEF Saved
  <2>2. "parent" \in DOMAIN new0[i]
    BY <1>5 DEF FieldOK
  <2> HIDE DEF new, new0, p
  <2>3. i \in DOMAIN ups => Assign(new0[i], ups[i]).parent = IF "parent" \in DOMAIN ups[i] THEN ups[i].parent ELSE new0[i].parent
    BY <2>2 DEF Assign
  <2> QED
    BY <2>1, <2>3 DEF p
<1> HIDE DEF new, new0
<1>9. Edges(r, p, fields) /\ Climbed(p, fields, Live) /\ Stacked(r, p) /\ r \in Live
  BY DEF Traces, Live, Open
<1>10. ASSUME NEW i \in DOMAIN q.tx \cap DOMAIN fields, q.tx[i].parent # fields[i].parent
       PROVE  q.op.kind = "editField" /\ i = q.op.field /\ q.tx[i].parent = Target(q)
  <2>1. i \notin DOMAIN ins
    BY <1>1, <1>2 DEF NewId, NewOf
  <2> QED
    BY <1>3, <1>5, <1>6, <1>8, <1>9, <1>10, <2>1 DEF Edges, Target
<1>11. ASSUME NEW i \in DOMAIN q.tx \ DOMAIN fields
       PROVE  Older(r, i, q.made + 1) /\ Older(r, q.tx[i].parent, i[2])
  <2>1. CASE i \in DOMAIN ins
    <3>1. i = NewId(r) /\ q.made = p.made + 1 /\ Older(r, ins[i].parent, p.made + 1)
      BY <2>1
    <3>2. i[2] = p.made + 1
      BY <3>1 DEF NewId
    <3>3. Older(r, i, q.made + 1)
      BY <1>1, <3>1, <3>2 DEF Older
    <3> QED
      BY <1>6, <1>7, <2>1, <3>1, <3>2, <3>3
  <2>2. CASE i \notin DOMAIN ins
    <3>1. i \in DOMAIN p.tx \ DOMAIN fields /\ i \in DOMAIN new0 /\ new0[i] = p.tx[i]
      BY <1>5, <1>6, <2>2
    <3>2. p.op.kind = "editField" => i # p.op.field
      BY <1>2, <1>9, <3>1 DEF Climbed, Settled
    <3>3. q.tx[i].parent = p.tx[i].parent
      BY <1>6, <1>8, <2>2, <3>1, <3>2
    <3>4. Older(r, i, p.made + 1) /\ Older(r, p.tx[i].parent, i[2])
      BY <1>9, <3>1 DEF Edges
    <3>5. Older(r, i, q.made + 1)
      <4>1. p.made + 1 <= q.made + 1
        BY <1>1, <1>4
      <4> QED
        BY <1>1, <1>4, <3>4, <4>1, OlderStays
    <3> QED
      BY <3>3, <3>4, <3>5
  <2> QED
    BY <2>1, <2>2
<1>12. Stacked(r, q)
  <2>1. p.made + 1 <= q.made + 1 /\ p.made + 1 \in Nat /\ q.made + 1 \in Nat
    BY <1>1, <1>4
  <2>2. \A i : Older(r, i, p.made + 1) => Older(r, i, q.made + 1)
    BY <2>1, OlderStays
  <2> QED
    BY <1>9, <2>2 DEF Stacked, FrameOlder
<1>13. Climbed(q, fields, Live)
  <2>1. Climbed(p, fields, Live) /\ Target(q) = Target(p) /\ p.pc # "walking"
    BY <1>3, <1>9 DEF Target, Past
  <2> HIDE DEF p
  <2>2. ASSUME p.op.kind = "editField"
        PROVE  /\ Settled(p.op.field, Live) /\ p.op.field \notin DOMAIN p.walked
               /\ Target(p) \in DOMAIN p.walked \cup {NULL}
               /\ \A i \in DOMAIN p.walked :
                     LET u == p.walked[i].parent IN
                     Settled(i, Live) /\ (u \in DOMAIN p.walked \cup {NULL} \/ (Settled(u, Live) /\ u \notin DOMAIN fields))
    BY <2>1, <2>2 DEF Climbed
  <2> QED
    BY <1>3, <2>1, <2>2 DEF Climbed
<1> QED
  BY <1>3, <1>10, <1>11, <1>12, <1>13 DEF Traces, Edges

(***************************************************************************)
(* Loading and walking.                                                    *)
(***************************************************************************)

LEMMA DoneTraces ==
    ASSUME IInv, Traced, NEW r \in Requests, req[r].pc # "done", NEW code, Goes(r, Done(code))
    PROVE  Traced'
<1> DEFINE q == Done(code)
<1>1. q.pc = "done" /\ Goes(r, q)
  BY DEF Done, Idle
<1> HIDE DEF q
<1> QED
  BY <1>1, GoesTraces

LEMMA LoadTraces ==
    ASSUME IInv, Traced, NEW r \in Requests, NEW o \in Ops[r], Load(r, o)
    PROVE  Traced'
<1>1. Body(o) /\ req[r].pc = "idle"
  BY OpsAssumption DEF Load
<1>2. NULL \notin {404, 422}
  BY NullAssumption
<1>3. CASE Refusal(o) # NULL
  BY <1>1, <1>3, LoadGoes, DoneTraces
<1>4. CASE Refusal(o) = NULL
  <2>1. PICK q : Goes(r, q) /\ Loaded(o, q)
    BY <1>4, LoadGoes
  <2>2. /\ q.pc = FirstStage(o) /\ q.op = o /\ q.seen = Seen(o) /\ q.tx = Nothing /\ q.stack = <<>>
        /\ q.walked = Nothing /\ (FirstStage(o) = "walking" => q.up = Assign(fields[o.field], o.set).parent)
    BY <2>1 DEF Loaded
  <2>3. /\ o.kind = "editField" => o.field \in DOMAIN fields
        /\ o.kind = "newField" => o.parent \in DOMAIN fields \cup {NULL}
    BY <1>2, <1>4 DEF Refusal
  <2>4. ASSUME o.kind = "editField"
        PROVE  /\ FirstStage(o) \in {"walking", "flushing"} /\ Seen(o) = fields[o.field]
               /\ FirstStage(o) # "walking" => Assign(fields[o.field], o.set).parent = NULL
    BY <2>4 DEF FirstStage, Seen
  <2>5. DOMAIN Nothing = {}
    BY NothingIs
  <2>6. Climbed(q, fields, Live)
    <3> SUFFICES ASSUME o.kind = "editField" PROVE Climbed(q, fields, Live)
      BY <2>2 DEF Climbed
    <3>1. Settled(o.field, Live)
      BY <2>3, SettledIs
    <3>2. Target(q) = Assign(fields[o.field], o.set).parent
      BY <2>2, <2>4 DEF Target
    <3> QED
      BY <2>2, <2>4, <2>5, <3>1, <3>2 DEF Climbed
  <2>7. Edges(r, q, fields) /\ Stacked(r, q)
    BY <2>2, <2>5 DEF Edges, Stacked
  <2>8. o.kind = "newField" => Settled(o.parent, Live)
    BY <2>3, SettledIs
  <2>9. Traces(r, q, fields, Live)
    BY <2>2, <2>6, <2>7, <2>8 DEF Traces
  <2> QED
    BY <1>1, <2>1, <2>9, GoesTraces
<1> QED
  BY <1>3, <1>4

LEMMA ClimbsOn ==
    ASSUME NEW p, NEW t, NEW live, p.pc = "walking", p.op.kind = "editField", Climbed(p, t, live),
           Settled(NULL, live), NEW row, NEW q, Climbs(p, t, live, row, q)
    PROVE  Climbed(q, t, live)
<1>1. /\ Settled(p.op.field, live) /\ p.op.field \notin DOMAIN p.walked
      /\ \A i \in DOMAIN p.walked :
            LET u == p.walked[i].parent IN
            Settled(i, live) /\ (u \in DOMAIN p.walked \cup {NULL} \/ u = p.up \/ (Settled(u, live) /\ u \notin DOMAIN t))
      /\ (p.walked = Nothing /\ p.up = Target(p)) \/ (Target(p) \in DOMAIN p.walked /\ Settled(p.up, live))
  BY DEF Climbed
<1>2. q.op = p.op /\ Target(q) = Target(p)
  BY DEF Climbs, Target
<1>3. CASE q.walked = p.walked /\ p.walked # Nothing /\ q.pc = "flushing" /\ p.up \notin DOMAIN t
  BY <1>1, <1>2, <1>3 DEF Climbed
<1>4. CASE /\ q.walked = Put(p.walked, p.up, row) /\ p.up # p.op.field
           /\ p.up \in DOMAIN p.walked => row = p.walked[p.up]
           /\ p.up \notin DOMAIN p.walked => row.parent = NULL \/ Settled(row.parent, live)
           /\ Settled(p.up, live)
           /\ \/ q.pc = "walking" /\ q.up = row.parent /\ row.parent # NULL
              \/ q.pc = "flushing" /\ row.parent = NULL
  <2>1. /\ DOMAIN q.walked = DOMAIN p.walked \cup {p.up} /\ q.walked[p.up] = row
        /\ \A i \in DOMAIN p.walked : q.walked[i] = p.walked[i]
    BY <1>4 DEF Put
  <2>2. p.op.field \notin DOMAIN q.walked /\ Target(p) \in DOMAIN q.walked
    BY <1>1, <1>4, <2>1
  <2>3. ASSUME NEW i \in DOMAIN q.walked
        PROVE  LET u == q.walked[i].parent IN
               /\ Settled(i, live)
               /\ \/ u \in DOMAIN q.walked \cup {NULL}
                  \/ q.pc = "walking" /\ u = q.up
                  \/ Settled(u, live) /\ u \notin DOMAIN t
    <3>1. CASE i \in DOMAIN p.walked
      BY <1>1, <2>1, <3>1
    <3>2. CASE i = p.up
      BY <1>4, <2>1, <3>2
    <3> QED
      BY <2>1, <3>1, <3>2
  <2>4. q.pc = "walking" => Settled(q.up, live)
    <3>1. CASE p.up \in DOMAIN p.walked
      BY <1>1, <1>4, <3>1
    <3>2. CASE p.up \notin DOMAIN p.walked
      BY <1>4, <3>2
    <3> QED
      BY <3>1, <3>2
  <2> QED
    BY <1>1, <1>2, <1>4, <2>2, <2>3, <2>4 DEF Climbed
<1> QED
  BY <1>3, <1>4 DEF Climbs

LEMMA WalkTraces ==
    ASSUME IInv, Traced, NEW r \in Requests, Walk(r)
    PROVE  Traced'
<1> DEFINE p == req[r]
           o == p.op
           first == p.walked = Nothing
           there == p.up \in DOMAIN p.walked \cup DOMAIN fields
           row == Ancestor(r)
           other == row.form # Assign(p.seen, o.set).form
           walked == IF there THEN Put(p.walked, p.up, row) ELSE p.walked
           over == [p EXCEPT !.pc = "flushing", !.up = NULL, !.walked = walked]
           on == [p EXCEPT !.up = row.parent, !.walked = walked]
           q == IF ~there \/ row.parent = NULL THEN over ELSE on
<1>1. p.pc = "walking" /\ Open(r)
  BY DEF Walk, Open
<1>2. Goes(r, IF first /\ ~there THEN Done(404)
              ELSE IF first /\ other THEN Done(422)
              ELSE IF there /\ p.up = o.field THEN Done(422)
              ELSE q)
  BY DEF Walk, Goes
<1>3. CASE Goes(r, Done(404)) \/ Goes(r, Done(422))
  BY <1>1, <1>3, DoneTraces
<1>4. CASE ~(first /\ ~there) /\ ~(there /\ p.up = o.field) /\ Goes(r, q)
  <2>1. Traces(r, p, fields, Live) /\ DOMAIN p = DOMAIN Idle
    BY <1>1, OpIs DEF Traced, ReqOK
  <2>2. there /\ p.up \notin DOMAIN p.walked => row.parent = NULL \/ Settled(row.parent, Live)
    <3> SUFFICES ASSUME there, p.up \notin DOMAIN p.walked PROVE row.parent = NULL \/ Settled(row.parent, Live)
      OBVIOUS
    <3>1. p.up \in DOMAIN fields /\ row = fields[p.up]
      BY DEF Ancestor
    <3>2. row.parent \in DOMAIN fields \cup {NULL}
      BY <3>1 DEF IInv, TypeOK, FieldsOK
    <3> QED
      BY <3>2, SettledIs
  <2>3. p.up \in DOMAIN p.walked => row = p.walked[p.up]
    BY DEF Ancestor
  <2>4. there /\ first => Settled(p.up, Live)
    <3>1. there /\ first => p.up \in DOMAIN fields
      BY NothingIs
    <3> QED
      BY <3>1, SettledIs
  <2>5. p = req[r]
    OBVIOUS
  <2> HIDE DEF p, row
  <2>6. /\ q.op = p.op /\ q.seen = p.seen /\ q.tx = p.tx /\ q.made = p.made /\ q.stack = p.stack
        /\ q.walked = walked /\ q.pc = IF ~there \/ row.parent = NULL THEN "flushing" ELSE "walking"
        /\ q.pc = "walking" => q.up = row.parent
    BY <1>1, <2>1 DEF Idle
  <2>7. Climbed(q, fields, Live)
    <3> SUFFICES ASSUME p.op.kind = "editField" PROVE Climbed(q, fields, Live)
      BY <2>6 DEF Climbed
    <3>1. Climbed(p, fields, Live)
      BY <2>1 DEF Traces
    <3>2. there => Settled(p.up, Live)
      BY <1>1, <2>4, <3>1 DEF Climbed
    <3> HIDE DEF q
    <3>3. Climbs(p, fields, Live, row, q)
      BY <1>4, <2>2, <2>3, <2>6, <3>2 DEF Climbs
    <3>4. Settled(NULL, Live)
      BY SettledIs
    <3>5. ASSUME NEW t, t = fields, NEW live, live = Live PROVE Climbed(q, t, live)
      BY <1>1, <3>1, <3>3, <3>4, <3>5, ClimbsOn
    <3> QED
      BY <3>5
  <2> HIDE DEF q
  <2>8. Edges(r, q, fields) /\ Stacked(r, q) /\ (q.op.kind = "newField" => Settled(q.op.parent, Live))
    BY <2>1, <2>6 DEF Traces, Edges, Stacked, Target
  <2>9. Traces(r, q, fields, Live)
    BY <2>7, <2>8 DEF Traces
  <2> QED
    BY <1>1, <1>4, <2>5, <2>9, GoesTraces
<1> QED
  BY <1>2, <1>3, <1>4

(***************************************************************************)
(* Writing a tree of fields.                                               *)
(***************************************************************************)

LEMMA FlushedAlso ==
    ASSUME NEW r \in Requests, ReqOK(req[r]), NEW ins, NEW ups, NEW del
    PROVE  LET p == req[r]
               q == Flushed(p, r, ins, ups, del)
           IN  /\ q.walked = p.walked /\ q.field = p.field /\ q.made = p.made + Cardinality(DOMAIN ins)
<1> DEFINE p == req[r]
           q == Flushed(p, r, ins, ups, del)
           n == Cardinality(DOMAIN ins)
<1>1. DOMAIN p = DOMAIN Idle
  BY DEF ReqOK
<1> HIDE DEF p, n
<1>2. q.walked = p.walked /\ q.field = p.field /\ q.made = p.made + n
  BY <1>1 DEF Flushed, Idle, n
<1> QED
  BY <1>2 DEF p, n

LEMMA FlushFormTraces ==
    ASSUME IInv, Traced, NEW r \in Requests, FlushForm(r)
    PROVE  Traced'
<1> DEFINE p == req[r]
           id == To(r, p)
           nodes == p.op.fields
<1>1. p.pc = "flushing" /\ p.op.kind = "seed" /\ Open(r)
  BY FlushFormIs
<1>2. CASE Goes(r, Done(500))
  BY <1>1, <1>2, DoneTraces
<1>3. ASSUME NEW q, SameButForms(p, q), Goes(r, Sync(r, q, id, NULL, nodes)) PROVE Traced'
  <2> DEFINE z == Sync(r, q, id, NULL, nodes)
  <2>1. Goes(r, z) /\ p = req[r]
    BY <1>3
  <2>2. ReqOK(p) /\ StackOK(p) /\ Traces(r, p, fields, Live)
    BY <1>1, OpIs DEF Traced
  <2>3. DOMAIN p = DOMAIN Idle /\ p.made \in Nat
    BY <2>2 DEF ReqOK
  <2> HIDE DEF id, nodes, p
  <2>4. /\ DOMAIN q = DOMAIN Idle /\ q.pc = p.pc /\ q.stack = p.stack /\ Onto(p, q) /\ q.made = p.made
    BY <1>1, <1>3 DEF SameButForms, SameWork, Plan, Onto, Past
  <2>5. StackOK(q) /\ Stacked(r, q)
    BY <2>2, <2>4 DEF StackOK, Traces, Stacked
  <2>6. Traces(r, q, fields, Live)
    <3>1. ASSUME NEW t, t = fields, NEW live, live = Live PROVE Traces(r, q, t, live)
      BY <2>2, <2>4, <2>5, <3>1, OntoTraces
    <3> QED
      BY <3>1
  <2>7. Older(r, NULL, q.made + 1)
    BY NullAssumption DEF Older, NewOf, FieldIds
  <2>8. Traces(r, z, fields, Live)
    BY <1>1, <2>3, <2>4, <2>5, <2>6, <2>7, SyncTraces
  <2> HIDE DEF z
  <2> QED
    BY <1>1, <2>1, <2>8, GoesTraces
<1> QED
  BY <1>2, <1>3, FlushFormIs

LEMMA FlushFieldTraces ==
    ASSUME IInv, Traced, NEW r \in Requests, FlushField(r)
    PROVE  Traced'
<1> DEFINE p   == req[r]
           o   == p.op
           new == o.kind = "newField"
           id  == IF new THEN NewId(r) ELSE o.field
           to  == IF new THEN NodeRow(o.node, o.form, o.parent) ELSE Assign(p.seen, o.set)
           ins == IF new THEN [i \in {id} |-> to] ELSE Nothing
           changed == {c \in DOMAIN to : ~new /\ to[c] # p.seen[c]}
           ups == IF changed = {} THEN Nothing ELSE [i \in {id} |-> [c \in changed |-> to[c]]]
           f   == Flushed(p, r, ins, ups, {})
           q   == [f EXCEPT !.field = id]
           moving == [q EXCEPT !.pc = "moving", !.visit = {id}]
           closing == [q EXCEPT !.pc = "closing"]
<1>1. p.pc = "flushing" /\ o.kind \in {"newField", "editField"} /\ Open(r)
  BY DEF FlushField, Open
<1>2. Goes(r, IF Failure(r, ins, ups) # NULL THEN Refused(Failure(r, ins, ups), FALSE)
              ELSE IF new THEN Sync(r, q, o.form, id, o.node.subs)
              ELSE IF "form" \in changed THEN moving
              ELSE IF o.subs # NULL THEN Sync(r, q, to.form, id, o.subs)
              ELSE closing)
  BY DEF FlushField, Goes
<1>3. ReqOK(p) /\ StackOK(p) /\ Traces(r, p, fields, Live) /\ r \in Live
  BY <1>1, OpIs DEF Traced, Live, Open
<1>4. CASE Failure(r, ins, ups) # NULL
  <2> HIDE DEF ins, ups
  <2>1. Goes(r, Done(500))
    BY <1>2, <1>4 DEF Refused
  <2> QED
    BY <1>1, <2>1, DoneTraces
<1>5. CASE Failure(r, ins, ups) = NULL
  <2>1. DOMAIN p = DOMAIN Idle /\ p.made \in Nat
    BY <1>3 DEF ReqOK
  <2>2. /\ new => Settled(o.parent, Live)
        /\ ~new => Settled(o.field, Live)
    BY <1>1, <1>3 DEF Traces, Climbed
  <2>3. \/ DOMAIN ins = {} /\ IsFiniteSet(DOMAIN ins) /\ Cardinality(DOMAIN ins) = 0 /\ ~new
        \/ /\ DOMAIN ins = {NewId(r)} /\ IsFiniteSet(DOMAIN ins) /\ Cardinality(DOMAIN ins) = 1 /\ new
           /\ ins[NewId(r)].parent = o.parent
    <3>1. CASE new
      <4>1. DOMAIN ins = {NewId(r)} /\ ins[NewId(r)] = to /\ to.parent = o.parent
        BY <3>1 DEF NodeRow
      <4> HIDE DEF ins, to, new
      <4> QED
        BY <3>1, <4>1, FS_Singleton
    <3>2. CASE ~new
      <4>1. ins = Nothing
        BY <3>2
      <4> HIDE DEF ins
      <4> QED
        BY <3>2, <4>1, NothingIs, FS_EmptySet
    <3> QED
      BY <3>1, <3>2
  <2>4. \A i \in DOMAIN ups : "parent" \in DOMAIN ups[i] =>
           o.kind = "editField" /\ i = o.field /\ ups[i].parent = Target(p)
    <3>1. CASE changed = {}
      BY <3>1, NothingIs
    <3>2. CASE changed # {}
      <4>1. ~new /\ o.kind = "editField" /\ id = o.field /\ to = Assign(p.seen, o.set)
        BY <1>1, <3>2
      <4>2. DOMAIN ups = {id} /\ ups[id] = [c \in changed |-> to[c]]
        BY <3>2
      <4> HIDE DEF ups, to, changed, id
      <4> QED
        BY <4>1, <4>2 DEF Target
    <3> QED
      BY <3>1, <3>2
  <2>5. p = req[r] /\ (new => id = NewId(r)) /\ (~new => id = o.field)
    OBVIOUS
  <2> HIDE DEF ins, ups, to, changed, id
  <2>6. FlushedAs(p, r, ins, ups, {}, f)
    <3>1. ReqOK(req[r]) /\ IsFiniteSet(DOMAIN ins)
      BY <1>3, <2>3
    <3> QED
      BY <3>1, FlushedIs DEF FlushedAs
  <2>7. f.walked = p.walked /\ f.field = p.field /\ f.made = p.made + Cardinality(DOMAIN ins)
    BY <1>3, FlushedAlso
  <2> HIDE DEF f, p
  <2>8. /\ DOMAIN q = DOMAIN Idle /\ q.pc = "flushing" /\ q.op = p.op /\ q.seen = p.seen /\ q.made = f.made
        /\ q.stack = p.stack /\ q.walked = p.walked /\ q.field = id /\ SameRows(f, q)
    BY <1>1, <2>6, <2>7 DEF Idle, SameRows, FlushedAs
  <2> HIDE DEF q
  <2>9. HasFlushed(r, ins, ups, {}, q) /\ StackOK(q) /\ Past(p, q)
    <3>1. HasFlushed(r, ins, ups, {}, q)
      BY <2>6, <2>8, SameFlush DEF FlushedAs
    <3> QED
      BY <1>1, <1>3, <2>8, <3>1 DEF StackOK, Past
  <2>10. \/ DOMAIN ins = {} /\ q.made = p.made
         \/ /\ DOMAIN ins = {NewId(r)} /\ Older(r, ins[NewId(r)].parent, p.made + 1)
            /\ q.made = p.made + 1
    BY <1>3, <2>1, <2>2, <2>3, <2>7, <2>8 DEF Older, Settled
  <2>11. Traces(r, q, fields, Live)
    <3> HIDE DEF o, new
    <3>1. \A i \in DOMAIN ups : "parent" \in DOMAIN ups[i] =>
             req[r].op.kind = "editField" /\ i = req[r].op.field /\ ups[i].parent = Target(req[r])
      BY <2>4, <2>5 DEF o
    <3>2. Traces(r, req[r], fields, Live) /\ Past(req[r], q) /\ q.stack = req[r].stack
      BY <1>3, <2>5, <2>8, <2>9
    <3>3. \/ DOMAIN ins = {} /\ q.made = req[r].made
          \/ /\ DOMAIN ins = {NewId(r)} /\ Older(r, ins[NewId(r)].parent, req[r].made + 1)
             /\ q.made = req[r].made + 1
      BY <2>5, <2>10
    <3> QED
      BY <1>1, <2>9, <3>1, <3>2, <3>3, FlushTraces
  <2>12. Older(r, id, q.made + 1)
    <3>1. CASE new
      <4>1. id[2] = p.made + 1 /\ q.made = p.made + 1
        BY <2>3, <2>5, <2>7, <2>8, <3>1 DEF NewId
      <4> QED
        BY <2>1, <4>1 DEF Older
    <3>2. CASE ~new
      BY <1>3, <2>2, <2>5, <3>2 DEF Older, Settled
    <3> QED
      BY <3>1, <3>2
  <2>13. q.made \in Nat /\ req[r].pc # "done"
    BY <1>1, <2>5, <2>6, <2>8 DEF FlushedAs
  <2>14. ASSUME NEW form, NEW nodes, Goes(r, Sync(r, q, form, id, nodes)) PROVE Traced'
    <3>1. Traces(r, Sync(r, q, form, id, nodes), fields, Live)
      BY <1>1, <2>8, <2>9, <2>11, <2>12, <2>13, SyncTraces
    <3> QED
      BY <2>13, <2>14, <3>1, GoesTraces
  <2>15. ASSUME Goes(r, moving), ~new PROVE Traced'
    <3>1. Onto(q, moving) /\ moving.stack = q.stack /\ moving.made = q.made
      BY <2>5, <2>8, <2>15 DEF Idle, Onto, Past
    <3> HIDE DEF moving
    <3>2. Stacked(r, moving)
      BY <2>11, <3>1 DEF Traces, Stacked
    <3>3. ASSUME NEW t, t = fields, NEW live, live = Live PROVE Traces(r, moving, t, live)
      BY <2>11, <3>1, <3>2, <3>3, OntoTraces
    <3> QED
      BY <2>13, <2>15, <3>3, GoesTraces
  <2>16. ASSUME Goes(r, closing) PROVE Traced'
    <3>1. ASSUME NEW t, t = fields, NEW live, live = Live PROVE Traces(r, closing, t, live)
      BY <2>8, <2>11, <3>1, CloseTraces
    <3> HIDE DEF closing
    <3> QED
      BY <2>13, <2>16, <3>1, GoesTraces
  <2> HIDE DEF moving, closing
  <2> QED
    BY <1>2, <1>5, <2>14, <2>15, <2>16
<1> QED
  BY <1>4, <1>5

LEMMA MoveTraces ==
    ASSUME IInv, Traced, NEW r \in Requests, Move(r)
    PROVE  Traced'
<1> DEFINE p == req[r]
           o == p.op
           kids(i) == ChildrenOf(View(r), i) \ p.moved
           visit(i) == (p.visit \ {i}) \cup kids(i)
           moved(i) == p.moved \cup kids(i)
           q(i) == [p EXCEPT !.visit = visit(i), !.moved = moved(i)]
<1>1. p.pc = "moving" /\ Open(r)
  BY DEF Move, Open
<1>2. PICK i \in p.visit :
         Goes(r, IF q(i).visit # {} THEN q(i)
                 ELSE IF o.subs # NULL THEN Sync(r, q(i), o.set.form, q(i).field, o.subs)
                 ELSE [q(i) EXCEPT !.pc = "closing"])
  BY DEF Move, Goes
<1>3. ReqOK(p) /\ AtWork(p) /\ StackOK(p) /\ Traces(r, p, fields, Live) /\ r \in Live /\ req[r].pc # "done"
  BY <1>1, OpIs DEF Traced, Live, Open
<1>4. DOMAIN p = DOMAIN Idle /\ p.made \in Nat /\ o.kind = "editField"
  BY <1>1, <1>3 DEF ReqOK, AtWork
<1>5. p.field = o.field /\ Settled(o.field, Live)
  BY <1>1, <1>3, <1>4 DEF Traces, Climbed
<1> DEFINE z == q(i)
<1>6. Goes(r, IF z.visit # {} THEN z
              ELSE IF o.subs # NULL THEN Sync(r, z, o.set.form, z.field, o.subs)
              ELSE [z EXCEPT !.pc = "closing"])
  BY <1>2
<1> HIDE DEF visit, moved, p
<1>7. /\ DOMAIN z = DOMAIN Idle /\ z.pc = p.pc /\ z.stack = p.stack /\ z.field = p.field /\ z.made = p.made
      /\ Onto(p, z)
  BY <1>1, <1>4, <1>5 DEF Idle, Onto, Past
<1> HIDE DEF z, o
<1>8. StackOK(z) /\ Stacked(r, z)
  BY <1>3, <1>7 DEF StackOK, Traces, Stacked
<1>9. Traces(r, z, fields, Live)
  <2>1. ASSUME NEW t, t = fields, NEW live, live = Live PROVE Traces(r, z, t, live)
    BY <1>3, <1>7, <1>8, <2>1, OntoTraces
  <2> QED
    BY <2>1
<1>10. CASE Goes(r, z)
  BY <1>3, <1>9, <1>10, GoesTraces
<1>11. CASE Goes(r, Sync(r, z, o.set.form, z.field, o.subs))
  <2>1. Older(r, z.field, z.made + 1)
    BY <1>3, <1>5, <1>7 DEF Older, Settled
  <2>2. Traces(r, Sync(r, z, o.set.form, z.field, o.subs), fields, Live)
    BY <1>1, <1>4, <1>7, <1>8, <1>9, <2>1, SyncTraces
  <2> QED
    BY <1>3, <1>11, <2>2, GoesTraces
<1>12. CASE Goes(r, [z EXCEPT !.pc = "closing"])
  <2>1. ASSUME NEW t, t = fields, NEW live, live = Live PROVE Traces(r, [z EXCEPT !.pc = "closing"], t, live)
    BY <1>1, <1>7, <1>9, <2>1, CloseTraces
  <2> QED
    BY <1>3, <1>12, <2>1, GoesTraces
<1> QED
  BY <1>6, <1>10, <1>11, <1>12

LEMMA SyncNodeTraces ==
    ASSUME IInv, Traced, NEW r \in Requests, SyncNode(r)
    PROVE  Traced'
<1> DEFINE p    == req[r]
           top  == Head(p.stack)
           node == Head(top.rest)
           same == {i \in DOMAIN top.existing : top.existing[i].key = node.key}
           id   == IF same = {} THEN NewId(r) ELSE CHOOSE i \in same : TRUE
           ins  == IF same = {} THEN [i \in {id} |-> NodeRow(node, top.form, top.parent)] ELSE Nothing
           ups  == IF same = {} \/ Known(r, top, id) = node.label THEN Pending(r)
                   ELSE Put(Pending(r), id, [label |-> node.label])
           f    == Flushed(p, r, ins, ups, p.doomed)
           q    == [f EXCEPT !.stack[1].rest = Tail(@)]
<1>1. p.pc = "syncing" /\ Open(r)
  BY DEF SyncNode, Open
<1>2. Goes(r, IF Failure(r, ins, ups) # NULL THEN Refused(Failure(r, ins, ups), FALSE)
              ELSE Sync(r, q, top.form, id, node.subs))
  BY DEF SyncNode, Goes
<1>3. ReqOK(p) /\ StackOK(p) /\ Traces(r, p, fields, Live) /\ req[r].pc # "done"
  BY <1>1, OpIs DEF Traced, Open
<1>4. CASE Failure(r, ins, ups) # NULL
  <2> HIDE DEF ins, ups
  <2>1. Goes(r, Done(500))
    BY <1>2, <1>4 DEF Refused
  <2> QED
    BY <1>3, <2>1, DoneTraces
<1>5. CASE Failure(r, ins, ups) = NULL
  <2>1. /\ p.stack # <<>> /\ DOMAIN p = DOMAIN Idle /\ p.made \in Nat
    BY <1>1, <1>3 DEF ReqOK
  <2> DEFINE T == {p.stack[k] : k \in DOMAIN p.stack}
  <2>2. p.stack \in Seq(T) /\ \A g \in T : /\ "rest" \in DOMAIN g /\ g.rest \in Seq(Nodes)
                                           /\ FrameOlder(r, g, p.made + 1)
    BY <1>3 DEF StackOK, Traces, Stacked
  <2> HIDE DEF T
  <2>3. top = p.stack[1] /\ top \in T /\ 1 \in DOMAIN p.stack
    BY <2>1, <2>2
  <2>4. p = req[r]
    OBVIOUS
  <2> HIDE DEF p, top, node
  <2>5. FrameOlder(r, top, p.made + 1)
    BY <2>2, <2>3
  <2>6. \/ DOMAIN ins = {} /\ IsFiniteSet(DOMAIN ins) /\ Cardinality(DOMAIN ins) = 0 /\ Older(r, id, p.made + 1)
        \/ /\ DOMAIN ins = {NewId(r)} /\ IsFiniteSet(DOMAIN ins) /\ Cardinality(DOMAIN ins) = 1 /\ id = NewId(r)
           /\ ins[NewId(r)].parent = top.parent
    <3>1. CASE same = {}
      <4> DEFINE row == NodeRow(node, top.form, top.parent)
      <4>1. id = NewId(r) /\ row.parent = top.parent
        BY <3>1 DEF NodeRow
      <4> HIDE DEF id, row
      <4>2. DOMAIN ins = {id} /\ ins[id] = row
        BY <3>1 DEF row
      <4> HIDE DEF ins
      <4> QED
        BY <4>1, <4>2, FS_Singleton
    <3>2. CASE same # {}
      <4>1. ins = Nothing /\ id \in DOMAIN top.existing
        BY <3>2
      <4> HIDE DEF ins, id
      <4>2. Older(r, id, p.made + 1)
        BY <2>5, <4>1 DEF FrameOlder
      <4> QED
        BY <4>1, <4>2, NothingIs, FS_EmptySet
    <3> QED
      BY <3>1, <3>2
  <2> HIDE DEF ins, id, same
  <2>7. \A i \in DOMAIN ups : "parent" \notin DOMAIN ups[i]
    <3>1. \A i \in DOMAIN Pending(r) : "parent" \notin DOMAIN Pending(r)[i]
      BY DEF Pending
    <3>2. CASE ups = Pending(r)
      BY <3>1, <3>2
    <3>3. CASE ups = Put(Pending(r), id, [label |-> node.label])
      BY <3>1, <3>3 DEF Put
    <3> QED
      BY <3>2, <3>3
  <2> HIDE DEF ups
  <2> DEFINE del == p.doomed
  <2>8. /\ DOMAIN f = DOMAIN Idle /\ f.pc = p.pc /\ f.op = p.op /\ f.seen = p.seen /\ f.code = p.code
        /\ f.made \in Nat /\ f.doomed = {} /\ f.moved = {} /\ f.visit = p.visit /\ f.up = p.up
        /\ f.stack = p.stack /\ HasFlushed(r, ins, ups, del, f)
    <3>1. ReqOK(req[r]) /\ IsFiniteSet(DOMAIN ins)
      BY <1>3, <2>4, <2>6
    <3> QED
      BY <3>1, FlushedIs DEF p
  <2>9. f.walked = p.walked /\ f.field = p.field /\ f.made = p.made + Cardinality(DOMAIN ins)
    <3>1. ReqOK(req[r])
      BY <1>3, <2>4
    <3> QED
      BY <3>1, FlushedAlso DEF p
  <2> HIDE DEF f
  <2>10. Traces(r, f, fields, Live)
    <3>1. Past(req[r], f) /\ f.stack = req[r].stack /\ Traces(r, req[r], fields, Live)
      BY <1>1, <1>3, <2>4, <2>8, <2>9 DEF Past
    <3>2. \/ DOMAIN ins = {} /\ f.made = req[r].made
          \/ /\ DOMAIN ins = {NewId(r)} /\ Older(r, ins[NewId(r)].parent, req[r].made + 1)
             /\ f.made = req[r].made + 1
      BY <2>1, <2>4, <2>5, <2>6, <2>9 DEF FrameOlder
    <3> QED
      BY <1>1, <2>7, <2>8, <3>1, <3>2, FlushTraces
  <2> DEFINE top2 == [top EXCEPT !.rest = Tail(top.rest)]
             stack == [p.stack EXCEPT ![1] = top2]
  <2>11. /\ DOMAIN q = DOMAIN Idle /\ q.pc = p.pc /\ q.made = f.made /\ q.stack = stack /\ Onto(f, q)
    BY <1>1, <2>1, <2>3, <2>8 DEF Idle, Onto, Past
  <2> HIDE DEF q
  <2>12. FrameOlder(r, top, f.made + 1) /\ f.stack \in Seq(T) /\ \A g \in T : FrameOlder(r, g, f.made + 1)
    <3>1. \A k \in DOMAIN f.stack : FrameOlder(r, f.stack[k], f.made + 1)
      BY <2>10 DEF Traces, Stacked
    <3> QED
      BY <2>2, <2>3, <2>8, <3>1 DEF T
  <2>13. /\ FrameOlder(r, top2, f.made + 1)
         /\ "rest" \in DOMAIN top2 /\ top2.rest \in Seq(Nodes)
    <3>1. DOMAIN top2 = DOMAIN top /\ top2.rest = Tail(top.rest)
          /\ ("parent" \in DOMAIN top => top2.parent = top.parent)
          /\ ("existing" \in DOMAIN top => top2.existing = top.existing)
      BY <2>2, <2>3
    <3>2. top.rest \in Seq(Nodes) /\ top.rest # <<>>
      BY <2>2, <2>3 DEF SyncNode, p, top
    <3>3. Tail(top.rest) \in Seq(Nodes)
      BY <3>2
    <3> HIDE DEF top2
    <3> QED
      BY <2>2, <2>3, <2>12, <3>1, <3>3 DEF FrameOlder
  <2> HIDE DEF top2
  <2>14. q.stack \in Seq(T \cup {top2})
    <3>1. stack \in Seq(T \cup {top2})
      BY <2>2, <2>3
    <3> HIDE DEF stack
    <3> QED
      BY <2>11, <3>1
  <2>15. StackOK(q) /\ Stacked(r, q)
    <3>1. \A g \in T \cup {top2} : FrameOlder(r, g, q.made + 1)
      BY <2>11, <2>12, <2>13
    <3>2. \A g \in T \cup {top2} : "rest" \in DOMAIN g /\ g.rest \in Seq(Nodes)
      BY <2>2, <2>13
    <3> QED
      BY <2>14, <3>1, <3>2, StackFits, FramesOlder
  <2>16. Traces(r, q, fields, Live)
    <3>1. ASSUME NEW t, t = fields, NEW live, live = Live PROVE Traces(r, q, t, live)
      BY <2>10, <2>11, <2>15, <3>1, OntoTraces
    <3> QED
      BY <3>1
  <2>17. Older(r, id, q.made + 1)
    <3>1. q.made = p.made + Cardinality(DOMAIN ins)
      BY <2>9, <2>11
    <3>2. CASE id = NewId(r) /\ Cardinality(DOMAIN ins) = 1
      <4>1. id[2] = p.made + 1 /\ q.made = p.made + 1
        BY <2>4, <3>1, <3>2 DEF NewId
      <4> QED
        BY <2>1, <4>1 DEF Older
    <3>3. CASE Older(r, id, p.made + 1) /\ Cardinality(DOMAIN ins) = 0
      <4>1. q.made = p.made
        BY <2>1, <3>1, <3>3
      <4> QED
        BY <3>3, <4>1
    <3> QED
      BY <2>6, <3>2, <3>3
  <2>18. Traces(r, Sync(r, q, top.form, id, node.subs), fields, Live)
    BY <1>1, <2>8, <2>11, <2>15, <2>16, <2>17, SyncTraces
  <2> QED
    BY <1>2, <1>3, <1>5, <2>18, GoesTraces
<1> QED
  BY <1>4, <1>5

LEMMA SyncEndTraces ==
    ASSUME IInv, Traced, NEW r \in Requests, SyncEnd(r)
    PROVE  Traced'
<1> DEFINE p == req[r]
           top == Head(p.stack)
           obsolete == {i \in DOMAIN top.existing : top.existing[i].key \notin top.expected}
           pc == IF Len(p.stack) = 1 THEN "closing" ELSE "syncing"
           rest == Tail(p.stack)
           doomed == p.doomed \cup Below(View(r), obsolete)
           q == [p EXCEPT !.pc = pc, !.stack = rest, !.doomed = doomed]
<1>1. p.pc = "syncing" /\ Open(r)
  BY DEF SyncEnd, Open
<1>2. ReqOK(p) /\ StackOK(p) /\ Traces(r, p, fields, Live) /\ req[r].pc # "done"
  BY <1>1, OpIs DEF Traced, Open
<1>3. DOMAIN req = Requests /\ DOMAIN p = DOMAIN Idle /\ p.stack # <<>>
  BY <1>1, <1>2 DEF IInv, TypeOK, ReqOK
<1>4. Goes(r, q)
  BY <1>3 DEF SyncEnd, Goes, Idle
<1>5. pc \in {"closing", "syncing"}
  OBVIOUS
<1> DEFINE T == {p.stack[k] : k \in DOMAIN p.stack}
<1>6. p.stack \in Seq(T) /\ \A g \in T : FrameOlder(r, g, p.made + 1)
  BY <1>2 DEF StackOK, Traces, Stacked
<1> HIDE DEF T, p, obsolete
<1>7. rest \in Seq(T)
  BY <1>3, <1>6
<1> HIDE DEF rest, doomed, pc
<1>8. Onto(p, q) /\ q.stack = rest /\ q.made = p.made
  BY <1>1, <1>3, <1>5 DEF Idle, Onto, Past
<1> HIDE DEF q
<1>9. Stacked(r, q)
  BY <1>6, <1>7, <1>8, FramesOlder
<1>10. ASSUME NEW t, t = fields, NEW live, live = Live PROVE Traces(r, q, t, live)
  BY <1>2, <1>8, <1>9, <1>10, OntoTraces
<1> QED
  BY <1>2, <1>4, <1>10, GoesTraces

(***************************************************************************)
(* Commits.                                                                *)
(***************************************************************************)

\* Where r leaves the rows that q has, others have none.
LEMMA CommitStays ==
    ASSUME IInv, Traced, NEW r \in Requests, req[r].pc # "done", req' = Answer(r, 200),
           NEW q, DOMAIN q.tx \subseteq DOMAIN fields \cup NewOf(r), \A s \in Requests \ {r} : Apart(q, req[s], fields),
           fields' = Over(fields, q.tx, q.gone)
    PROVE  Traced'
<1> DEFINE t == Over(fields, q.tx, q.gone)
<1>1. /\ DOMAIN t = (DOMAIN fields \ q.gone) \cup DOMAIN q.tx
      /\ \A i \in DOMAIN t : t[i] = IF i \in DOMAIN q.tx THEN q.tx[i] ELSE fields[i]
      /\ fields' = t
  BY DEF Over
<1> HIDE DEF t
<1>2. ASSUME NEW s \in Requests \ {r}, NEW i \in DOMAIN req[s].tx
      PROVE  (i \in DOMAIN t <=> i \in DOMAIN fields) /\ (i \in DOMAIN fields => t[i] = fields[i])
  <2>1. i \notin DOMAIN q.tx /\ i \notin q.gone
    BY DEF Apart
  <2> QED
    BY <1>1, <2>1
<1> QED
  BY <1>1, <1>2, CommitTraces

LEMMA CommitFieldsIs ==
    ASSUME IInv, Traced, NEW r \in Requests, CommitFields(r)
    PROVE  \/ fields' = fields /\ \E code : Goes(r, Done(code))
           \/ \E q : /\ req' = Answer(r, 200) /\ fields' = Over(fields, q.tx, q.gone)
                     /\ q.pc = "closing" /\ q.walked = req[r].walked /\ Traces(r, q, fields, Live)
                     /\ DOMAIN q.tx \subseteq DOMAIN fields \cup NewOf(r)
                     /\ \A s \in Requests \ {r} : Apart(q, req[s], fields)
<1> DEFINE p == req[r]
           ups == Pending(r)
           del == p.doomed
           q == Flushed(p, r, Nothing, ups, del)
<1>1. p.pc = "closing" /\ Free(r, Nothing, ups, del) /\ Open(r)
  BY DEF CommitFields, Open
<1>2. ReqOK(p) /\ Traces(r, p, fields, Live)
  BY <1>1, OpIs DEF Traced
<1>3. CASE Failure(r, Nothing, ups) # NULL
  BY <1>3 DEF CommitFields, Goes, Refused
<1>4. CASE Failure(r, Nothing, ups) = NULL
  <2>1. fields' = Over(fields, q.tx, q.gone) /\ req' = Answer(r, 200)
    BY <1>4 DEF CommitFields
  <2>2. /\ DOMAIN q = DOMAIN Idle /\ q.pc = p.pc /\ q.op = p.op /\ q.seen = p.seen /\ q.code = p.code
        /\ q.made \in Nat /\ q.doomed = {} /\ q.moved = {} /\ q.visit = p.visit /\ q.up = p.up
        /\ q.stack = p.stack /\ HasFlushed(r, Nothing, ups, del, q)
    BY <1>2, NothingIs, FlushedIs
  <2>3. q.walked = p.walked /\ q.made = p.made
    <3>1. q.walked = p.walked /\ q.made = p.made + Cardinality(DOMAIN Nothing)
      BY <1>2, FlushedAlso
    <3>2. Cardinality(DOMAIN Nothing) = 0 /\ p.made \in Nat
      BY <1>2, NothingIs, FS_EmptySet DEF ReqOK
    <3> HIDE DEF p, q
    <3> QED
      BY <3>1, <3>2
  <2>4. Writes(r, Nothing, ups)
    BY NothingIs, PendingIs DEF Writes
  <2>5. \A i \in DOMAIN ups : "parent" \notin DOMAIN ups[i]
    BY DEF Pending
  <2> HIDE DEF ups, del, q
  <2>6. DOMAIN q.tx \subseteq DOMAIN fields \cup NewOf(r) /\ \A s \in Requests \ {r} : Apart(q, req[s], fields)
    BY <1>1, <1>4, <2>2, <2>4, FlushKeeps
  <2>7. Past(p, q)
    BY <1>1, <2>2, <2>3 DEF Past
  <2>8. Traces(r, q, fields, Live)
    BY <1>1, <1>2, <2>2, <2>3, <2>5, <2>7, NothingIs, FlushTraces
  <2> QED
    BY <1>1, <2>1, <2>2, <2>3, <2>6, <2>8
<1> QED
  BY <1>3, <1>4

LEMMA CommitFieldsTraces ==
    ASSUME IInv, Traced, NEW r \in Requests, CommitFields(r)
    PROVE  Traced'
<1>1. req[r].pc # "done"
  BY DEF CommitFields
<1>2. CASE \E code : Goes(r, Done(code))
  BY <1>1, <1>2, DoneTraces
<1>3. CASE \E q : /\ req' = Answer(r, 200) /\ fields' = Over(fields, q.tx, q.gone)
                  /\ DOMAIN q.tx \subseteq DOMAIN fields \cup NewOf(r)
                  /\ \A s \in Requests \ {r} : Apart(q, req[s], fields)
  BY <1>1, <1>3, CommitStays
<1> QED
  BY <1>2, <1>3, CommitFieldsIs

LEMMA CommitFormTraces ==
    ASSUME IInv, Traced, NEW r \in Requests, CommitForm(r)
    PROVE  Traced'
<1>1. req[r].pc # "done" /\ fields' = fields
  BY DEF CommitForm
<1>2. Goes(r, Done(500)) \/ Goes(r, Done(409)) \/ req' = Answer(r, 200)
  BY DEF CommitForm, Goes
<1>3. CASE Goes(r, Done(500)) \/ Goes(r, Done(409))
  BY <1>1, <1>3, DoneTraces
<1>4. CASE req' = Answer(r, 200)
  <2>1. ASSUME NEW t, t = fields, fields' = t PROVE Traced'
    BY <1>1, <1>4, <2>1, CommitTraces
  <2> QED
    BY <1>1, <2>1
<1> QED
  BY <1>2, <1>3, <1>4

LEMMA CommitDropTraces ==
    ASSUME IInv, Traced, NEW r \in Requests, CommitDrop(r)
    PROVE  Traced'
<1>1. req[r].pc # "done" /\ req' = Answer(r, 200)
  BY DEF CommitDrop
<1>2. PICK q : /\ DOMAIN q.tx = {} /\ \A s \in Requests \ {r} : Apart(q, req[s], fields)
               /\ fields' = Over(fields, q.tx, q.gone)
  BY DropIs
<1> QED
  BY <1>1, <1>2, CommitStays

\* A commit closes no cycle, unless something that it has walked has got another parent.
LEMMA CommitFieldsForest ==
    ASSUME IInv, IInv', Traced, NEW r \in Requests, CommitFields(r), ~Cyclic(fields),
           \A i \in DOMAIN req[r].walked \cap DOMAIN fields : fields[i].parent = req[r].walked[i].parent
    PROVE  ~Cyclic(fields')
<1>1. /\ IsFiniteSet(DOMAIN fields) /\ FieldsOK(fields, forms)
      /\ IsFiniteSet(DOMAIN fields') /\ FieldsOK(fields', forms')
  BY DEF IInv, TypeOK, Isolated
<1>2. CASE fields' = fields
  BY <1>2
<1>3. CASE \E q : /\ fields' = Over(fields, q.tx, q.gone)
                  /\ q.pc = "closing" /\ q.walked = req[r].walked /\ Traces(r, q, fields, Live)
                  /\ DOMAIN q.tx \subseteq DOMAIN fields \cup NewOf(r)
  <2>1. PICK q : /\ fields' = Over(fields, q.tx, q.gone)
                 /\ q.pc = "closing" /\ q.walked = req[r].walked /\ Traces(r, q, fields, Live)
                 /\ DOMAIN q.tx \subseteq DOMAIN fields \cup NewOf(r)
    BY <1>3
  <2>2. r \in Live
    BY DEF CommitFields, Live
  <2>3. ASSUME NEW D, Loops(Over(fields, q.tx, q.gone), D) PROVE D = {}
    <3>1. ASSUME NEW t, t = fields, NEW live, live = Live PROVE D = {}
      <4>1. \A i \in DOMAIN t : t[i].parent \in DOMAIN t \cup {NULL}
        BY <1>1, <3>1 DEF FieldsOK
      <4>2. Climbed(q, t, live) /\ Edges(r, q, t) /\ r \in live
        BY <2>1, <2>2, <3>1 DEF Traces
      <4>3. IsFiniteSet(DOMAIN t) /\ ~Cyclic(t) /\ Loops(Over(t, q.tx, q.gone), D)
        BY <1>1, <2>3, <3>1
      <4>4. DOMAIN q.tx \subseteq DOMAIN t \cup NewOf(r) /\ \A i \in DOMAIN q.walked \cap DOMAIN t : t[i].parent = q.walked[i].parent
        BY <2>1, <3>1
      <4> QED
        BY <2>1, <4>1, <4>2, <4>3, <4>4, CommitForest
    <3> QED
      BY <3>1
  <2>4. ASSUME NEW t2, t2 = fields', Cyclic(t2) PROVE FALSE
    <3>1. /\ IsFiniteSet(DOMAIN t2) /\ NULL \notin DOMAIN t2
          /\ \A i \in DOMAIN t2 : t2[i].parent \in DOMAIN t2 \cup {NULL}
      BY <1>1, <2>4, NullAssumption DEF FieldsOK
    <3>2. PICK D : Loops(t2, D) /\ D # {}
      BY <2>4, <3>1, CycleIs
    <3> QED
      BY <2>1, <2>3, <2>4, <3>2
  <2> QED
    BY <2>4
<1> QED
  BY <1>2, <1>3, CommitFieldsIs

LEMMA CommitDropForest ==
    ASSUME IInv, IInv', NEW r \in Requests, CommitDrop(r), ~Cyclic(fields)
    PROVE  ~Cyclic(fields')
<1>1. /\ IsFiniteSet(DOMAIN fields)
      /\ IsFiniteSet(DOMAIN fields') /\ FieldsOK(fields', forms')
  BY DEF IInv, TypeOK, Isolated
<1>2. PICK q : DOMAIN q.tx = {} /\ fields' = Over(fields, q.tx, q.gone)
  BY DropIs
<1>3. DOMAIN fields' \subseteq DOMAIN fields /\ \A i \in DOMAIN fields' : fields'[i] = fields[i]
  BY <1>2 DEF Over
<1>4. ASSUME NEW t, t = fields, NEW t2, t2 = fields', Cyclic(t2) PROVE FALSE
  <2>1. /\ IsFiniteSet(DOMAIN t2) /\ NULL \notin DOMAIN t2
        /\ \A i \in DOMAIN t2 : t2[i].parent \in DOMAIN t2 \cup {NULL}
    BY <1>1, <1>4, NullAssumption DEF FieldsOK
  <2>2. PICK D : Loops(t2, D) /\ D # {}
    BY <1>4, <2>1, CycleIs
  <2>3. Loops(t, D)
    BY <1>3, <1>4, <2>2 DEF Loops
  <2>4. IsFiniteSet(DOMAIN t) /\ ~Cyclic(t)
    BY <1>1, <1>4
  <2> QED
    BY <2>2, <2>3, <2>4, ForestIs
<1> QED
  BY <1>4

(***************************************************************************)
(* Cycles take races.                                                      *)
(***************************************************************************)

LEMMA NextTraces == IInv /\ Traced /\ [Next]_vars => Traced'
<1> SUFFICES ASSUME IInv, Traced, [Next]_vars PROVE Traced'
  OBVIOUS
<1>1. CASE \E r \in Requests : \E o \in Ops[r] : Load(r, o)
  BY <1>1, LoadTraces
<1>2. ASSUME NEW r \in Requests, Proceed(r) PROVE Traced'
  BY <1>2, WalkTraces, FlushFieldTraces, FlushFormTraces, MoveTraces, SyncNodeTraces, SyncEndTraces,
     CommitFieldsTraces, CommitFormTraces, CommitDropTraces DEF Proceed
<1>3. ASSUME NEW r \in Requests, Abort(r) PROVE Traced'
  <2>1. Goes(r, Done(500)) /\ req[r].pc # "done"
    BY <1>3 DEF Abort, Goes, Open
  <2> QED
    BY <2>1, DoneTraces
<1>4. CASE UNCHANGED vars
  BY <1>4 DEF vars, Traced, Live, Open
<1> QED
  BY <1>1, <1>2, <1>3, <1>4 DEF Next, Terminated

LEMMA CycleTakesRace ==
    ASSUME IInv, IInv', Traced, Next, ~Cyclic(fields), Cyclic(fields')
    PROVE  \E r \in Requests :
              /\ req[r].pc = "closing" /\ req'[r].code = 200
              /\ \E i \in DOMAIN req[r].walked :
                    /\ i \in DOMAIN fields
                    /\ fields[i].parent # req[r].walked[i].parent
<1>1. fields' # fields
  OBVIOUS
<1>2. PICK r \in Requests : CommitFields(r) \/ CommitDrop(r)
  <2>1. ASSUME NEW r \in Requests,
               \/ \E o \in Ops[r] : Load(r, o)
               \/ Walk(r) \/ FlushField(r) \/ FlushForm(r) \/ Move(r) \/ SyncNode(r) \/ SyncEnd(r)
               \/ CommitForm(r) \/ Abort(r)
        PROVE  fields' = fields
    BY <2>1 DEF Load, Walk, FlushField, FlushForm, Move, SyncNode, SyncEnd, CommitForm, Abort
  <2>2. Terminated => fields' = fields
    BY DEF Terminated, vars
  <2> QED
    BY <1>1, <2>1, <2>2 DEF Next, Proceed
<1>3. CommitFields(r)
  BY <1>2, CommitDropForest
<1>4. \E i \in DOMAIN req[r].walked : i \in DOMAIN fields /\ fields[i].parent # req[r].walked[i].parent
  BY <1>3, CommitFieldsForest
<1>5. req[r].pc = "closing" /\ req' = Answer(r, 200)
  BY <1>1, <1>3 DEF CommitFields
<1>6. req'[r].code = 200
  BY <1>5 DEF Answer, Done, Idle
<1> QED
  BY <1>4, <1>5, <1>6

\* Whatever the payloads and however requests overlap: as long as the fields are a forest, a
\* commit that closes a cycle has walked a field that has got another parent since.
THEOREM CyclesTakeRaces == Spec => CyclesNeedRaces
<1>1. Init => Traced
  BY DEF Init, Traced, Open, Idle
<1>2. IInv /\ IInv' /\ Traced /\ [Next]_vars =>
         [~Cyclic(fields) /\ Cyclic(fields') =>
            \E r \in Requests :
                /\ req[r].pc = "closing" /\ req'[r].code = 200
                /\ \E i \in DOMAIN req[r].walked :
                      /\ i \in DOMAIN fields
                      /\ fields[i].parent # req[r].walked[i].parent]_vars
  BY CycleTakesRace
<1>3. Spec => []Traced
  BY <1>1, InitKeeps, NextKeeps, NextTraces, PTL DEF Spec
<1> QED
  BY <1>2, <1>3, TransactionsApart, PTL DEF Spec, CyclesNeedRaces

(***************************************************************************)
(* What FormBook says of trees, in the words of Forms.                     *)
(***************************************************************************)

\* Nothing else is below a set of rows than what is in every set that has the rows and
\* all children of its own.
LEMMA BelowLeast ==
    ASSUME NEW table, NEW S, IsFiniteSet(DOMAIN table), NEW U, S \cap DOMAIN table \subseteq U,
           \A i \in DOMAIN table : table[i].parent \in U => i \in U
    PROVE  Below(table, S) \subseteq U
<1> DEFINE n == Cardinality(DOMAIN table)
           f == Levels(table, S)
<1>1. n \in Nat
  BY FS_CardinalityType
<1>2. Below(table, S) = f[n]
  BY DEF Below, Levels, Add
<1>3. \A m \in 0..n : f[m] = IF m = 0 THEN S \cap DOMAIN table ELSE Add(table, f[m-1])
  BY LevelsAre
<1> HIDE DEF f, n
<1> DEFINE T == {m \in 0..n : ~(f[m] \subseteq U)}
<1>4. ASSUME T # {} PROVE FALSE
  <2>1. PICK m \in T : \A l \in T : m <= l
    <3>1. T \in SUBSET Nat
      BY <1>1
    <3> HIDE DEF T
    <3> QED
      BY <1>4, <3>1, LeastExists
  <2>2. CASE m = 0
    BY <1>3, <2>1, <2>2
  <2>3. CASE m # 0
    <3>1. m - 1 \in 0..n /\ ~(m <= m - 1)
      BY <1>1, <2>1, <2>3
    <3>2. f[m-1] \subseteq U /\ f[m] = Add(table, f[m-1])
      BY <1>3, <2>1, <2>3, <3>1
    <3> QED
      BY <2>1, <3>2 DEF Add
  <2> QED
    BY <2>2, <2>3
<1>5. n \in 0..n
  BY <1>1
<1> QED
  BY <1>2, <1>4, <1>5

\* FormBook collects the same.
LEMMA UnderIs ==
    ASSUME NEW t, NEW S \in SUBSET DOMAIN t
    PROVE  Book!Under(t, S) = Below(t, S)
<1> DEFINE Of(X) == (CHOOSE f : f = [n \in 0..Cardinality(DOMAIN t) |->
                                        IF n = 0 THEN X ELSE Add(t, f[n-1])])[Cardinality(DOMAIN t)]
<1>1. S \cap DOMAIN t = S
  OBVIOUS
<1>2. Below(t, S) = Of(S \cap DOMAIN t)
  BY DEF Below, Add
<1>3. Book!Under(t, S) = Of(S)
  <2>1. Book!Cardinality(DOMAIN t) = Cardinality(DOMAIN t)
    BY DEF Cardinality, Book!Cardinality, IsFiniteSet, Book!IsFiniteSet
  <2> QED
    BY <2>1 DEF Book!Under, Add
<1> HIDE DEF Of
<1> QED
  BY <1>1, <1>2, <1>3

LEMMA BookForest ==
    ASSUME NEW t
    PROVE  Book!Forest(t) <=> ~Cyclic(t) /\ SameForms(t)
<1>1. Book!Under(t, {f \in DOMAIN t : t[f].parent = NULL}) = Below(t, {f \in DOMAIN t : t[f].parent = NULL})
  <2> DEFINE S == {f \in DOMAIN t : t[f].parent = NULL}
  <2>1. S \in SUBSET DOMAIN t
    OBVIOUS
  <2> HIDE DEF S
  <2>2. Book!Under(t, S) = Below(t, S)
    BY <2>1, UnderIs
  <2> QED
    BY <2>2 DEF S
<1> QED
  BY <1>1 DEF Book!Forest, Cyclic, SameForms

\* The rows below a field, it included: only the field has its parent elsewhere, and
\* all are of its form.
LEMMA TreeIs ==
    ASSUME NEW t, Wood(t), NEW f \in DOMAIN t
    PROVE  LET B == Below(t, {f}) IN
           /\ B \subseteq DOMAIN t /\ f \in B
           /\ \A i \in DOMAIN t : t[i].parent \in B => i \in B
           /\ \A i \in B \ {f} : t[i].parent \in B
           /\ t[f].parent \notin B
           /\ \A i \in B : t[i].form = t[f].form
<1> DEFINE B == Below(t, {f})
           U == {i \in B : i = f \/ t[i].parent \in B}
           V == {i \in DOMAIN t : t[i].form = t[f].form}
<1>1. B \subseteq DOMAIN t /\ f \in B /\ \A i \in DOMAIN t : t[i].parent \in B => i \in B
  BY BelowIs DEF Wood
<1> HIDE DEF B
<1>2. B \subseteq U
  <2>1. {f} \cap DOMAIN t \subseteq U /\ \A i \in DOMAIN t : t[i].parent \in U => i \in U
    BY <1>1
  <2> HIDE DEF U
  <2> QED
    BY <2>1, BelowLeast DEF B, Wood
<1>3. B \subseteq V
  <2>1. {f} \cap DOMAIN t \subseteq V /\ \A i \in DOMAIN t : t[i].parent \in V => i \in V
    BY DEF Wood, SameForms
  <2> HIDE DEF V
  <2> QED
    BY <2>1, BelowLeast DEF B, Wood
<1>4. t[f].parent \notin B
  <2> SUFFICES ASSUME t[f].parent \in B PROVE FALSE
    OBVIOUS
  <2>1. Loops(t, B)
    BY <1>1, <1>2 DEF Loops, Wood
  <2> QED
    BY <1>1, <2>1, ForestIs DEF Wood
<1> QED
  BY <1>1, <1>2, <1>3, <1>4 DEF B

(***************************************************************************)
(* The tree of a request.                                                  *)
(***************************************************************************)

LEMMA BaseIs ==
    ASSUME NEW r, NEW q, NEW t, Wood(t), DOMAIN t \cap NewOf(r) = {}, NULL \notin NewOf(r),
           OnFields(q), Current(r, q, t), NEW live, Climbed(q, t, live), q.pc # "walking"
    PROVE  Base(r, q, t)
<1>1. ASSUME q.op.kind = "editField"
      PROVE  /\ q.op.field \notin DOMAIN q.walked
             /\ \A i \in DOMAIN q.walked : t[i].parent \in DOMAIN q.walked \cup {NULL}
             /\ Target(q) \in DOMAIN q.walked \cup {NULL}
  <2>1. \A i \in DOMAIN q.walked : i \in DOMAIN t /\ q.walked[i] = t[i]
    BY <1>1 DEF Current
  <2>2. q.op.field \notin DOMAIN q.walked /\ Target(q) \in DOMAIN q.walked \cup {NULL}
    BY <1>1 DEF Climbed
  <2>3. ASSUME NEW i \in DOMAIN q.walked PROVE t[i].parent \in DOMAIN q.walked \cup {NULL}
    <3>1. q.walked[i].parent \in DOMAIN q.walked \cup {NULL} \/ q.walked[i].parent \notin DOMAIN t
      BY <1>1 DEF Climbed
    <3>2. t[i].parent \in DOMAIN t \cup {NULL}
      BY <2>1 DEF Wood
    <3> QED
      BY <2>1, <3>1, <3>2
  <2> QED
    BY <2>2, <2>3
<1> QED
  BY <1>1 DEF Base

\* The new parent of a field is not below it.
LEMMA TargetIsOut ==
    ASSUME NEW r, NEW q, NEW t, Base(r, q, t), q.op.kind = "editField"
    PROVE  Target(q) \notin Below(t, {q.op.field})
<1> DEFINE f == q.op.field
           B == Below(t, {f})
           D == B \cap DOMAIN q.walked
<1>1. /\ Wood(t) /\ f \in DOMAIN t /\ f \notin DOMAIN q.walked /\ Target(q) \in DOMAIN q.walked \cup {NULL}
      /\ \A i \in DOMAIN q.walked : t[i].parent \in DOMAIN q.walked \cup {NULL}
  BY DEF Base, Current
<1>2. B \subseteq DOMAIN t /\ \A i \in B \ {f} : t[i].parent \in B
  BY <1>1, TreeIs
<1> HIDE DEF B, f
<1>3. NULL \notin B
  BY <1>1, <1>2 DEF Wood
<1>4. \A i \in D : t[i].parent \in D
  BY <1>1, <1>2, <1>3
<1>5. Loops(t, D)
  BY <1>2, <1>3, <1>4 DEF Loops
<1>6. D = {}
  BY <1>1, <1>5, ForestIs DEF Wood
<1> QED
  BY <1>1, <1>3, <1>6 DEF B, f

\* What hangs below a row of the tree is of the tree, and not its root.
LEMMA PlotCloses ==
    ASSUME NEW r, NEW q, NEW t, Base(r, q, t), NEW v, EdgesIn(r, q, t, v)
    PROVE  \A i \in DOMAIN v : v[i].parent \in Plot(r, q, t) => i \in Inner(r, q, t)
<1>1. SUFFICES ASSUME NEW i \in DOMAIN v, v[i].parent \in Plot(r, q, t) PROVE i \in Inner(r, q, t)
  OBVIOUS
<1>2. /\ Wood(t) /\ DOMAIN t \cap NewOf(r) = {} /\ NULL \notin NewOf(r) /\ OnFields(q) /\ Current(r, q, t)
  BY DEF Base
<1>3. CASE q.op.kind = "newField"
  <2>1. Plot(r, q, t) = NewOf(r) /\ Inner(r, q, t) = NewOf(r) \ {q.field}
    BY <1>3 DEF Plot, Inner, Root
  <2>2. q.op.parent \notin NewOf(r)
    BY <1>2, <1>3 DEF Current
  <2>3. i \notin DOMAIN t \/ v[i].parent # t[i].parent
    BY <1>1, <1>2, <2>1 DEF Wood
  <2> QED
    BY <1>1, <1>3, <2>1, <2>2, <2>3 DEF EdgesIn
<1>4. CASE q.op.kind = "editField"
  <2> DEFINE f == q.op.field
             B == Below(t, {f})
  <2>1. Plot(r, q, t) = NewOf(r) \cup B /\ Inner(r, q, t) = (NewOf(r) \cup B) \ {f}
    BY <1>4 DEF Plot, Inner, Root
  <2>2. f \in DOMAIN t /\ Target(q) \in DOMAIN t \cup {NULL}
    BY <1>2, <1>4 DEF Base, Current
  <2>3. /\ B \subseteq DOMAIN t /\ t[f].parent \notin B
        /\ \A j \in DOMAIN t : t[j].parent \in B => j \in B
    BY <1>2, <2>2, TreeIs
  <2>4. Target(q) \notin B
    BY <1>4, TargetIsOut
  <2> HIDE DEF B, f
  <2>5. CASE i \in DOMAIN t /\ v[i].parent = t[i].parent
    <3>1. v[i].parent \in B
      BY <1>1, <1>2, <2>1, <2>5 DEF Wood
    <3> QED
      BY <2>1, <2>3, <2>5, <3>1
  <2>6. CASE i = f /\ v[i].parent = Target(q)
    BY <1>1, <1>2, <2>1, <2>2, <2>4, <2>6
  <2>7. CASE i \in NewOf(r)
    BY <1>2, <2>1, <2>2, <2>7
  <2> QED
    BY <1>4, <2>5, <2>6, <2>7 DEF EdgesIn, f
<1>5. CASE q.op.kind = "seed"
  <2>1. /\ Plot(r, q, t) = NewOf(r) \cup {j \in DOMAIN t : t[j].form = To(r, q)}
        /\ Inner(r, q, t) = Plot(r, q, t)
    BY <1>5 DEF Plot, Inner, Root
  <2>2. CASE i \in DOMAIN t /\ v[i].parent = t[i].parent
    <3>1. v[i].parent \in DOMAIN t /\ v[i].parent # NULL /\ t[v[i].parent].form = To(r, q)
      BY <1>1, <1>2, <2>1, <2>2 DEF Wood
    <3>2. t[i].form = To(r, q)
      BY <1>2, <2>2, <3>1 DEF Wood, SameForms
    <3> QED
      BY <2>1, <2>2, <3>2
  <2>3. CASE i \in NewOf(r)
    BY <2>1, <2>3
  <2> QED
    BY <1>5, <2>2, <2>3 DEF EdgesIn
<1> QED
  BY <1>2, <1>3, <1>4, <1>5 DEF OnFields

LEMMA BelowStaysIn ==
    ASSUME NEW r, NEW q, NEW t, Base(r, q, t), NEW v, IsFiniteSet(DOMAIN v), EdgesIn(r, q, t, v),
           NEW S \in SUBSET Inner(r, q, t)
    PROVE  Below(v, S) \subseteq Inner(r, q, t)
<1>1. \A i \in DOMAIN v : v[i].parent \in Inner(r, q, t) => i \in Inner(r, q, t)
  <2>1. \A i \in DOMAIN v : v[i].parent \in Plot(r, q, t) => i \in Inner(r, q, t)
    BY PlotCloses
  <2> QED
    BY <2>1 DEF Inner
<1> QED
  BY <1>1, BelowLeast

\* The edges that a transaction sees.
LEMMA ViewEdges ==
    ASSUME NEW r, NEW q, NEW t, Edges(r, q, t), DOMAIN q.tx \subseteq DOMAIN t \cup NewOf(r), Within(r, q, t),
           DOMAIN t \cap NewOf(r) = {}
    PROVE  EdgesIn(r, q, t, Over(t, q.tx, q.gone))
<1> DEFINE v == Over(t, q.tx, q.gone)
<1>1. /\ DOMAIN v \subseteq DOMAIN t \cup DOMAIN q.tx
      /\ \A i \in DOMAIN v : v[i] = IF i \in DOMAIN q.tx THEN q.tx[i] ELSE t[i]
  BY DEF Over
<1> HIDE DEF v
<1>2. ASSUME NEW i \in DOMAIN v
      PROVE  \/ i \in DOMAIN t /\ v[i].parent = t[i].parent
             \/ q.op.kind = "editField" /\ i = q.op.field /\ v[i].parent = Target(q)
             \/ i \in NewOf(r) /\ (q.op.kind = "newField" /\ i = q.field => v[i].parent = q.op.parent)
  <2>1. CASE i \in DOMAIN t
    BY <1>1, <2>1 DEF Edges
  <2>2. CASE i \notin DOMAIN t
    <3>1. i \in DOMAIN q.tx \ DOMAIN t /\ i \in NewOf(r) /\ v[i] = q.tx[i]
      BY <1>1, <2>2
    <3>2. q.op.kind = "newField" /\ i = q.field => i \in Root(q)
      BY DEF Root
    <3> QED
      BY <3>1, <3>2 DEF Within
  <2> QED
    BY <2>1, <2>2
<1> QED
  BY <1>2 DEF EdgesIn, v

LEMMA SamePlan ==
    ASSUME NEW r, NEW q, NEW z, Plan(q, z)
    PROVE  /\ To(r, z) = To(r, q) /\ Root(z) = Root(q) /\ Target(z) = Target(q)
           /\ \A t : Plot(r, z, t) = Plot(r, q, t) /\ Inner(r, z, t) = Inner(r, q, t)
<1>1. To(r, z) = To(r, q) /\ Root(z) = Root(q) /\ Target(z) = Target(q)
  BY DEF To, Root, Plan, Target
<1>2. \A t : Plot(r, z, t) = Plot(r, q, t)
  BY <1>1 DEF Plot, Plan
<1> QED
  BY <1>1, <1>2 DEF Inner

\* A flush inserts and deletes within the tree, and gives the moved rows their form.
LEMMA FlushWithin ==
    ASSUME NEW r, NEW q, NEW t, FieldsFit(q, t), Within(r, q, t), Formed(r, q, t), q.visit = {},
           q.pc \notin {"walking", "flushing"},
           NEW new, NEW written, NEW dead, NEW z, FlushOf(t, q, new, written, dead, z),
           Plan(q, z), z.stack = q.stack, z.visit = {}, z.moved = {}, z.doomed = {}, z.pc # "moving",
           written \subseteq Plot(r, q, t), dead \subseteq Inner(r, q, t),
           NEW view, view = Over(t, q.tx, q.gone),
           \A i \in DOMAIN view : new[i].parent = view[i].parent /\ new[i].form = After(r, q, view, i),
           \A i \in DOMAIN new \ DOMAIN view : Hangs(r, q, t, view, i, new[i])
    PROVE  Within(r, z, t) /\ Formed(r, z, t)
<1> DEFINE to == To(r, q)
           plot == Plot(r, q, t)
           inner == Inner(r, q, t)
           now == Over(t, z.tx, z.gone)
<1>1. /\ FieldsFit(z, t) /\ now = RowsIn(new, DOMAIN new \ dead)
  BY FlushFits
<1>2. /\ DOMAIN now = DOMAIN new \ dead /\ \A i \in DOMAIN now : now[i] = new[i]
      /\ \A i \in DOMAIN now : now[i].parent \in DOMAIN now \cup {NULL}
  BY <1>1 DEF RowsIn, FieldsFit
<1>3. /\ DOMAIN view = (DOMAIN t \ q.gone) \cup DOMAIN q.tx
      /\ \A i \in DOMAIN view : view[i] = IF i \in DOMAIN q.tx THEN q.tx[i] ELSE t[i]
      /\ \A i \in DOMAIN view : view[i].parent \in DOMAIN view \cup {NULL}
  BY DEF Over, FieldsFit
<1>4. /\ DOMAIN new = DOMAIN view \cup written
      /\ DOMAIN z.tx = (DOMAIN q.tx \cup written) \ dead /\ \A i \in DOMAIN z.tx : z.tx[i] = new[i]
      /\ z.gone = q.gone \cup (dead \cap DOMAIN t)
  BY DEF FlushOf
<1>5. /\ To(r, z) = to /\ Root(z) = Root(q) /\ Plot(r, z, t) = plot /\ Inner(r, z, t) = inner /\ z.op = q.op
  BY SamePlan DEF Plan
<1>6. /\ DOMAIN q.tx \subseteq plot /\ q.gone \subseteq inner
      /\ \A k \in DOMAIN q.stack :
            /\ DOMAIN q.stack[k].existing \subseteq inner
            /\ q.stack[k].parent \in plot \/ (q.op.kind = "seed" /\ q.stack[k].parent = NULL)
      /\ \A i \in DOMAIN q.tx \ DOMAIN t :
            IF i \in Root(q) THEN q.tx[i].parent = q.op.parent
            ELSE q.tx[i].parent \in plot \/ (q.op.kind = "seed" /\ q.tx[i].parent = NULL)
  BY DEF Within
<1>7. /\ \A i \in DOMAIN q.tx : q.tx[i].form = to \/ (i \in DOMAIN t /\ q.tx[i].form = t[i].form)
      /\ \A i \in DOMAIN view : view[i].parent # NULL => After(r, q, view, i) = After(r, q, view, view[i].parent)
      /\ \A i \in Root(q) : i \in DOMAIN view \cap plot /\ view[i].form = to
      /\ \A k \in DOMAIN q.stack :
            /\ q.stack[k].form = to
            /\ q.stack[k].parent \in DOMAIN view => After(r, q, view, q.stack[k].parent) = to
            /\ \A i \in DOMAIN q.stack[k].existing \cap DOMAIN view : view[i].form = to
  BY DEF Formed
<1>8. \A i \in DOMAIN view : After(r, q, view, i) \in {to, view[i].form}
  BY DEF After
<1> HIDE DEF now, to, plot, inner
<1>9. Within(r, z, t)
  <2>1. DOMAIN z.tx \cup z.visit \subseteq plot /\ z.gone \cup z.doomed \cup z.moved \subseteq inner
    BY <1>4, <1>6 DEF plot, inner
  <2>2. ASSUME NEW i \in DOMAIN z.tx \ DOMAIN t
        PROVE  IF i \in Root(q) THEN z.tx[i].parent = q.op.parent
               ELSE z.tx[i].parent \in plot \/ (q.op.kind = "seed" /\ z.tx[i].parent = NULL)
    <3>1. CASE i \in DOMAIN view
      <4>1. i \in DOMAIN q.tx \ DOMAIN t /\ z.tx[i].parent = q.tx[i].parent
        BY <1>3, <1>4, <3>1
      <4> QED
        BY <1>6, <4>1
    <3>2. CASE i \notin DOMAIN view
      <4>1. i \in DOMAIN new \ DOMAIN view /\ z.tx[i] = new[i]
        BY <1>3, <1>4, <3>2
      <4> QED
        BY <4>1 DEF Hangs, plot
    <3> QED
      BY <3>1, <3>2
  <2> QED
    BY <1>5, <1>6, <2>1, <2>2 DEF Within
<1>10. \A i \in DOMAIN new : i \notin DOMAIN view => new[i].form = to
  BY DEF Hangs, to
<1>11. \A i \in DOMAIN z.tx : z.tx[i].form = to \/ (i \in DOMAIN t /\ z.tx[i].form = t[i].form)
  <2> SUFFICES ASSUME NEW i \in DOMAIN z.tx PROVE z.tx[i].form = to \/ (i \in DOMAIN t /\ z.tx[i].form = t[i].form)
    OBVIOUS
  <2>1. i \in DOMAIN new /\ z.tx[i] = new[i]
    <3>1. DOMAIN q.tx \subseteq DOMAIN view
      BY <1>3
    <3>2. i \in DOMAIN q.tx \cup written
      BY <1>4
    <3> QED
      BY <1>4, <3>1, <3>2
  <2>2. CASE i \in DOMAIN view
    <3>1. new[i].form = to \/ new[i].form = view[i].form
      BY <1>8, <2>2
    <3> QED
      BY <1>3, <1>7, <2>1, <2>2, <3>1
  <2> QED
    BY <1>10, <2>1, <2>2
<1>12. ASSUME NEW i \in DOMAIN now, now[i].parent # NULL
       PROVE  now[i].form = now[now[i].parent].form
  <2>1. now[i] = new[i] /\ i \in DOMAIN new /\ now[i].parent \in DOMAIN now /\ now[now[i].parent] = new[now[i].parent]
    BY <1>2, <1>12
  <2>2. CASE i \in DOMAIN view
    <3>1. new[i].parent = view[i].parent /\ view[i].parent # NULL
      BY <1>12, <2>1, <2>2
    <3>2. view[i].parent \in DOMAIN view
      BY <1>3, <2>2, <3>1
    <3>3. new[view[i].parent].form = After(r, q, view, view[i].parent) /\ new[i].form = After(r, q, view, i)
      BY <2>2, <3>2
    <3> QED
      BY <1>7, <2>1, <2>2, <3>1, <3>3
  <2>3. CASE i \notin DOMAIN view
    <3>1. /\ new[i].form = to
          /\ new[i].parent \in DOMAIN view => After(r, q, view, new[i].parent) = to
      BY <2>1, <2>3 DEF Hangs, to
    <3>2. new[new[i].parent].form = to
      <4>1. CASE new[i].parent \in DOMAIN view
        BY <3>1, <4>1
      <4>2. CASE new[i].parent \notin DOMAIN view
        BY <1>2, <1>10, <2>1, <4>2
      <4> QED
        BY <4>1, <4>2
    <3> QED
      BY <2>1, <3>1, <3>2
  <2> QED
    BY <2>2, <2>3
<1>13. \A i \in Root(q) : i \in DOMAIN now \cap plot /\ now[i].form = to
  <2>1. Root(q) \cap dead = {}
    BY DEF Inner
  <2> QED
    BY <1>2, <1>4, <1>7, <1>8, <2>1
<1>14. ASSUME NEW k \in DOMAIN q.stack
       PROVE  /\ q.stack[k].form = to
              /\ q.stack[k].parent \in DOMAIN now => now[q.stack[k].parent].form = to
              /\ \A i \in DOMAIN q.stack[k].existing \cap DOMAIN now : now[i].form = to
  <2>1. \A i \in DOMAIN now : i \in DOMAIN view /\ After(r, q, view, i) = to => now[i].form = to
    BY <1>2
  <2>2. \A i \in DOMAIN now : i \notin DOMAIN view => now[i].form = to
    BY <1>2, <1>10
  <2>3. \A i \in DOMAIN view : view[i].form = to => After(r, q, view, i) = to
    BY <1>8
  <2> QED
    BY <1>7, <2>1, <2>2, <2>3
<1>15. \A i : After(r, z, now, i) = now[i].form
  BY DEF After
<1>16. Formed(r, z, t)
  BY <1>5, <1>11, <1>12, <1>13, <1>14, <1>15 DEF Formed, now
<1> QED
  BY <1>9, <1>16

(***************************************************************************)
(* The steps of a request in time.                                         *)
(***************************************************************************)

LEMMA GoesCalm ==
    ASSUME IInv, Calm, NEW r \in Requests, NEW q, Goes(r, q), calm' = calm,
           ~raced /\ q.pc \notin {"idle", "done"} /\ ~q.late => InTime(r, q, fields)
    PROVE  Calm'
<1>1. /\ fields' = fields /\ raced' = raced /\ req'[r] = q /\ \A s \in Requests \ {r} : req'[s] = req[s]
  BY DEF Goes, IInv, TypeOK
<1> SUFFICES ASSUME ~raced
             PROVE  /\ calm' = fields' /\ Book!Forest(fields') /\ fields' = [i \in DOMAIN fields' |-> fields'[i]]
                    /\ \A s \in Requests : Open(s)' /\ ~req'[s].late => InTime(s, req'[s], fields')
  BY <1>1 DEF Calm
<1>2. /\ calm = fields /\ Book!Forest(fields) /\ fields = [i \in DOMAIN fields |-> fields[i]]
      /\ \A s \in Requests : Open(s) /\ ~req[s].late => InTime(s, req[s], fields)
  BY DEF Calm
<1>3. ASSUME NEW s \in Requests, Open(s)', ~req'[s].late PROVE InTime(s, req'[s], fields)
  <2>1. CASE s = r
    BY <1>1, <1>3, <2>1 DEF Open
  <2>2. CASE s # r
    BY <1>1, <1>2, <1>3, <2>2 DEF Open
  <2> QED
    BY <2>1, <2>2
<1> QED
  BY <1>1, <1>2, <1>3

LEMMA DoneCalm ==
    ASSUME IInv, Calm, NEW r \in Requests, NEW code, Goes(r, Done(code)), calm' = calm
    PROVE  Calm'
<1> DEFINE q == Done(code)
<1>1. q.pc = "done" /\ Goes(r, q)
  BY DEF Done, Idle
<1> HIDE DEF q
<1> QED
  BY <1>1, GoesCalm

LEMMA WoodIs ==
    ASSUME IInv, Calm, ~raced
    PROVE  Wood(fields) /\ \A r \in Requests : NULL \notin NewOf(r)
<1>1. IsFiniteSet(DOMAIN fields) /\ FieldsOK(fields, forms)
  BY DEF IInv, TypeOK, Isolated
<1>2. NULL \notin FieldIds
  BY NullAssumption
<1>3. DOMAIN fields \subseteq FieldIds /\ \A i \in DOMAIN fields : fields[i].parent \in DOMAIN fields \cup {NULL}
  BY <1>1 DEF FieldsOK
<1>4. ~Cyclic(fields) /\ SameForms(fields)
  BY BookForest DEF Calm
<1>5. \A r \in Requests : NULL \notin NewOf(r)
  BY <1>2 DEF NewOf, FieldIds
<1> QED
  BY <1>1, <1>2, <1>3, <1>4, <1>5 DEF Wood

LEMMA InTimeIs ==
    ASSUME IInv, Traced, Calm, NEW r \in Requests, Open(r), InTimeNow(r)
    PROVE  /\ Wood(fields) /\ NULL \notin NewOf(r) /\ DOMAIN fields \cap NewOf(r) = {}
           /\ InTime(r, req[r], fields) /\ Traces(r, req[r], fields, Live)
           /\ FieldsFit(req[r], fields) /\ DOMAIN req[r].tx \subseteq DOMAIN fields \cup NewOf(r)
           /\ ReqOK(req[r]) /\ StackOK(req[r]) /\ AtWork(req[r])
<1>1. ReqOK(req[r]) /\ StackOK(req[r]) /\ AtWork(req[r]) /\ Fits(r, req[r], fields, forms)
  BY OpIs
<1> QED
  BY <1>1, WoodIs DEF Traced, Calm, InTimeNow, Fits, Open

\* What r has by then.
LEMMA WorkIs ==
    ASSUME IInv, Traced, Calm, NEW r \in Requests, Open(r), InTimeNow(r), OnFields(req[r]), req[r].pc # "walking",
           Within(r, req[r], fields)
    PROVE  Base(r, req[r], fields) /\ EdgesIn(r, req[r], fields, View(r)) /\ IsFiniteSet(DOMAIN View(r))
<1>1. /\ Wood(fields) /\ NULL \notin NewOf(r) /\ DOMAIN fields \cap NewOf(r) = {}
      /\ Current(r, req[r], fields) /\ Traces(r, req[r], fields, Live)
      /\ DOMAIN req[r].tx \subseteq DOMAIN fields \cup NewOf(r)
  BY InTimeIs DEF InTime
<1>2. ASSUME NEW q, q = req[r], NEW t, t = fields, NEW live, live = Live PROVE Base(r, q, t)
  BY <1>1, <1>2, BaseIs DEF Traces
<1>3. ASSUME NEW q, q = req[r], NEW t, t = fields PROVE EdgesIn(r, q, t, Over(t, q.tx, q.gone))
  BY <1>1, <1>3, ViewEdges DEF Traces
<1>4. View(r) = Over(fields, req[r].tx, req[r].gone) /\ IsFiniteSet(DOMAIN View(r))
  BY ViewIs
<1> QED
  BY <1>2, <1>3, <1>4

LEMMA FreshIs ==
    ASSUME NEW r, NEW q, NEW t, Fresh(q), Wood(t)
    PROVE  Within(r, q, t) /\ Formed(r, q, t)
<1>1. /\ DOMAIN q.tx = {} /\ q.gone = {} /\ q.moved = {} /\ q.visit = {} /\ DOMAIN q.stack = {} /\ q.doomed = {}
      /\ q.pc \in {"walking", "flushing"}
  BY NothingIs DEF Fresh
<1> DEFINE v == Over(t, q.tx, q.gone)
<1>2. DOMAIN v = DOMAIN t /\ \A i \in DOMAIN v : v[i] = t[i]
  BY <1>1 DEF Over
<1> HIDE DEF v
<1>3. Within(r, q, t)
  BY <1>1 DEF Within
<1>4. \A i \in DOMAIN v : v[i].parent # NULL => v[i].parent \in DOMAIN v /\ v[i].form = v[v[i].parent].form
  BY <1>2 DEF Wood, SameForms
<1>5. \A i : After(r, q, v, i) = v[i].form
  BY <1>1 DEF After
<1>6. Formed(r, q, t)
  BY <1>1, <1>4, <1>5 DEF Formed, v
<1> QED
  BY <1>3, <1>6

LEMMA LoadCalm ==
    ASSUME IInv, Calm, NEW r \in Requests, NEW o \in Ops[r], Load(r, o)
    PROVE  Calm'
<1>1. calm' = calm
  BY DEF Load
<1>2. NULL \notin {404, 422}
  BY NullAssumption
<1>3. CASE Refusal(o) # NULL
  BY <1>1, <1>3, LoadGoes, DoneCalm
<1>4. CASE Refusal(o) = NULL
  <2>1. PICK q : Goes(r, q) /\ Loaded(o, q)
    BY <1>4, LoadGoes
  <2>2. /\ q.pc = FirstStage(o) /\ q.op = o /\ q.seen = Seen(o) /\ q.tx = Nothing /\ q.stack = <<>>
        /\ q.walked = Nothing /\ q.gone = {} /\ q.moved = {} /\ q.visit = {} /\ q.doomed = Reached(o)
    BY <2>1 DEF Loaded
  <2>3. DOMAIN Nothing = {}
    BY NothingIs
  <2> SUFFICES ASSUME ~raced PROVE InTime(r, q, fields)
    BY <1>1, <2>1, GoesCalm
  <2>4. Wood(fields)
    BY WoodIs
  <2>5. o.kind = "newField" /\ o.parent # NULL => o.parent \in DOMAIN fields /\ fields[o.parent].form = o.form
    BY <1>2, <1>4 DEF Refusal
  <2>6. o.kind = "editField" => o.field \in DOMAIN fields /\ Seen(o) = fields[o.field]
    BY <1>2, <1>4 DEF Refusal, Seen
  <2>7. o.kind = "dropField" => o.field \in DOMAIN fields /\ Reached(o) = Below(fields, {o.field})
    BY <1>2, <1>4 DEF Refusal, Reached
  <2>8. o.kind = "dropForm" => Reached(o) = Below(fields, {f \in DOMAIN fields : fields[f].form = o.form})
    BY DEF Reached
  <2>9. /\ FirstStage(o) \in {"walking", "flushing"} => Reached(o) = {}
        /\ OnFields(q) => FirstStage(o) \in {"walking", "flushing"}
    BY <2>2 DEF FirstStage, Reached, OnFields
  <2>10. Current(r, q, fields) /\ Unwritten(q)
    BY <2>2, <2>3, <2>5, <2>6, <2>7, <2>8, <2>9 DEF Current, Unwritten
  <2>11. OnFields(q) => Within(r, q, fields) /\ Formed(r, q, fields)
    <3> SUFFICES ASSUME OnFields(q) PROVE Within(r, q, fields) /\ Formed(r, q, fields)
      OBVIOUS
    <3>1. Fresh(q)
      BY <2>2, <2>9 DEF Fresh
    <3> QED
      BY <2>4, <3>1, FreshIs
  <2> QED
    BY <2>10, <2>11 DEF InTime
<1> QED
  BY <1>3, <1>4

LEMMA WalkCalm ==
    ASSUME IInv, Traced, Calm, NEW r \in Requests, Walk(r)
    PROVE  Calm'
<1> DEFINE p == req[r]
           o == p.op
           first == p.walked = Nothing
           there == p.up \in DOMAIN p.walked \cup DOMAIN fields
           row == Ancestor(r)
           other == row.form # Assign(p.seen, o.set).form
           walked == IF there THEN Put(p.walked, p.up, row) ELSE p.walked
           over == [p EXCEPT !.pc = "flushing", !.up = NULL, !.walked = walked]
           on == [p EXCEPT !.up = row.parent, !.walked = walked]
           q == IF ~there \/ row.parent = NULL THEN over ELSE on
<1>1. p.pc = "walking" /\ Open(r) /\ calm' = calm
  BY DEF Walk, Open
<1>2. Goes(r, IF first /\ ~there THEN Done(404)
              ELSE IF first /\ other THEN Done(422)
              ELSE IF there /\ p.up = o.field THEN Done(422)
              ELSE q)
  BY DEF Walk, Goes
<1>3. CASE Goes(r, Done(404)) \/ Goes(r, Done(422))
  BY <1>1, <1>3, DoneCalm
<1>4. CASE ~(first /\ ~there) /\ ~(first /\ other) /\ Goes(r, q)
  <2>1. DOMAIN p = DOMAIN Idle /\ p = req[r]
    BY <1>1, OpIs DEF ReqOK
  <2>2. /\ p.up \in DOMAIN p.walked => row = p.walked[p.up]
        /\ p.up \notin DOMAIN p.walked => row = fields[p.up]
    BY DEF Ancestor
  <2> HIDE DEF p, row
  <2>3. /\ q.op = p.op /\ q.seen = p.seen /\ q.tx = p.tx /\ q.gone = p.gone /\ q.moved = p.moved /\ q.visit = p.visit
        /\ q.stack = p.stack /\ q.doomed = p.doomed /\ q.walked = walked /\ q.pc \in {"walking", "flushing"}
        /\ q.late = p.late
    BY <1>1, <2>1 DEF Idle
  <2> HIDE DEF q
  <2> SUFFICES ASSUME ~raced, ~q.late PROVE InTime(r, q, fields)
    BY <1>1, <1>4, GoesCalm
  <2>4. /\ Wood(fields) /\ Current(r, p, fields) /\ Unwritten(p) /\ Traces(r, p, fields, Live)
        /\ OnFields(p) => Within(r, p, fields) /\ Formed(r, p, fields)
    <3>1. InTimeNow(r)
      BY <2>1, <2>3 DEF InTimeNow
    <3> QED
      BY <1>1, <2>1, <3>1, InTimeIs DEF InTime
  <2>5. To(r, q) = To(r, p) /\ Target(q) = Target(p)
    BY <2>3 DEF To, Target
  <2>6. \A i \in DOMAIN p.walked : i \in DOMAIN fields /\ p.walked[i] = fields[i]
    BY <2>4 DEF Current
  <2>7. \A i \in DOMAIN walked : i \in DOMAIN fields /\ walked[i] = fields[i]
    BY <2>2, <2>6 DEF Put
  <2>8. p.op.kind = "editField" /\ Target(p) \in DOMAIN walked => walked[Target(p)].form = To(r, p)
    <3> SUFFICES ASSUME p.op.kind = "editField", Target(p) \in DOMAIN walked PROVE walked[Target(p)].form = To(r, p)
      OBVIOUS
    <3>1. CASE Target(p) \in DOMAIN p.walked
      <4>1. p.walked[Target(p)].form = To(r, p)
        BY <2>4, <3>1 DEF Current
      <4> QED
        BY <2>6, <2>7, <3>1, <4>1
    <3>2. CASE Target(p) \notin DOMAIN p.walked
      <4>1. first /\ p.up = Target(p) /\ there
        BY <1>1, <1>4, <2>4, <3>2 DEF Traces, Climbed
      <4>2. row.form = To(r, p)
        BY <1>4, <4>1 DEF To
      <4> QED
        BY <4>1, <4>2 DEF Put
    <3> QED
      BY <3>1, <3>2
  <2>9. Current(r, q, fields) /\ Unwritten(q)
    <3>1. OnFields(q) = OnFields(p)
      BY <2>3 DEF OnFields
    <3> HIDE DEF walked
    <3>2. p.tx = Nothing /\ p.gone = {} /\ p.moved = {} /\ p.visit = {} /\ p.stack = <<>> /\ p.doomed = {}
      BY <1>1, <2>4 DEF Unwritten
    <3>3. Unwritten(q)
      BY <2>3, <2>4, <3>1, <3>2 DEF Unwritten
    <3>4. Current(r, q, fields)
      BY <2>3, <2>4, <2>5, <2>7, <2>8 DEF Current
    <3> QED
      BY <3>3, <3>4
  <2>10. Fresh(q)
    BY <1>1, <2>3, <2>4 DEF Fresh, Unwritten
  <2> QED
    BY <2>4, <2>9, <2>10, FreshIs DEF InTime
<1> QED
  BY <1>2, <1>3, <1>4

LEMMA FramesIn ==
    ASSUME NEW r, NEW q, NEW t, Within(r, q, t), Formed(r, q, t)
    PROVE  \A k \in DOMAIN q.stack : FrameIn(r, q, t, q.stack[k])
BY DEF Within, Formed, FrameIn

\* A request goes on with another stack.
LEMMA StageOn ==
    ASSUME NEW r, NEW q, NEW t, Within(r, q, t), Formed(r, q, t), NEW z, SameWork(q, z), Settles(z), Rooted(r, q, t),
           \A k \in DOMAIN z.stack : FrameIn(r, q, t, z.stack[k])
    PROVE  Within(r, z, t) /\ Formed(r, z, t)
<1> DEFINE view == Over(t, q.tx, q.gone)
<1>1. /\ To(r, z) = To(r, q) /\ Root(z) = Root(q) /\ Plot(r, z, t) = Plot(r, q, t) /\ Inner(r, z, t) = Inner(r, q, t)
      /\ z.op = q.op
  BY SamePlan DEF SameWork, Plan
<1>2. /\ z.tx = q.tx /\ z.gone = q.gone /\ z.moved = q.moved /\ z.visit = {} /\ q.visit = {} /\ z.doomed = q.doomed
      /\ z.pc \notin {"walking", "flushing", "moving"}
  BY DEF SameWork, Settles
<1>3. Over(t, z.tx, z.gone) = view
  BY <1>2
<1>4. Within(r, z, t)
  <2>1. \A k \in DOMAIN z.stack :
           /\ DOMAIN z.stack[k].existing \subseteq Inner(r, q, t)
           /\ z.stack[k].parent \in Plot(r, q, t) \/ (q.op.kind = "seed" /\ z.stack[k].parent = NULL)
    BY DEF FrameIn
  <2> QED
    BY <1>1, <1>2, <2>1 DEF Within
<1> HIDE DEF view
<1>5. \A i : After(r, z, view, i) = After(r, q, view, i)
  BY <1>1, <1>2 DEF After
<1>6. Formed(r, z, t)
  <2>1. \A k \in DOMAIN z.stack :
           /\ z.stack[k].form = To(r, q)
           /\ z.stack[k].parent \in DOMAIN view => After(r, q, view, z.stack[k].parent) = To(r, q)
           /\ \A i \in DOMAIN z.stack[k].existing \cap DOMAIN view : view[i].form = To(r, q)
    BY DEF FrameIn, view
  <2>2. \A i \in Root(q) : i \in DOMAIN view \cap Plot(r, q, t) /\ view[i].form = To(r, q)
    BY DEF Rooted, view
  <2>3. /\ \A i \in DOMAIN q.tx : q.tx[i].form = To(r, q) \/ (i \in DOMAIN t /\ q.tx[i].form = t[i].form)
        /\ \A i \in DOMAIN view : view[i].parent # NULL => After(r, q, view, i) = After(r, q, view, view[i].parent)
        /\ \A i \in q.moved : i \in DOMAIN view /\ view[i].form # To(r, q)
    BY <1>2 DEF Formed, view
  <2> QED
    BY <1>1, <1>2, <1>3, <1>5, <2>1, <2>2, <2>3 DEF Formed
<1> QED
  BY <1>4, <1>6

LEMMA CloseWithin ==
    ASSUME NEW r, NEW q, DOMAIN q = DOMAIN Idle, NEW t, Within(r, q, t), Formed(r, q, t), Rooted(r, q, t), q.visit = {}
    PROVE  LET z == [q EXCEPT !.pc = "closing"] IN Within(r, z, t) /\ Formed(r, z, t)
<1> DEFINE z == [q EXCEPT !.pc = "closing"]
<1>1. SameWork(q, z) /\ Settles(z) /\ z.stack = q.stack
  BY DEF Idle, SameWork, Plan, Settles
<1> HIDE DEF z
<1>2. Within(r, z, t) /\ Formed(r, z, t)
  BY <1>1, FramesIn, StageOn
<1> QED
  BY <1>2 DEF z

\* A frame of the rows below a row of the tree, or of the top of a form.
LEMMA SyncWithin ==
    ASSUME NEW r, NEW q, DOMAIN q = DOMAIN Idle, NEW T, q.stack \in Seq(T), q.visit = {},
           Within(r, q, fields), Formed(r, q, fields), Rooted(r, q, fields),
           NEW view, view = Over(fields, q.tx, q.gone), EdgesIn(r, q, fields, view), Base(r, q, fields),
           NEW parent, NEW nodes, NEW form, form = To(r, q),
           parent \in Plot(r, q, fields) \/ (q.op.kind = "seed" /\ parent = NULL),
           parent \in DOMAIN view => After(r, q, view, parent) = To(r, q)
    PROVE  LET z == Sync(r, q, form, parent, nodes) IN Within(r, z, fields) /\ Formed(r, z, fields)
<1> DEFINE z == Sync(r, q, form, parent, nodes)
           top == Frame(r, q, form, parent, nodes)
<1>1. SameWork(q, z) /\ Settles(z) /\ z.stack = <<top>> \o q.stack
  <2> HIDE DEF top
  <2>1. z = [q EXCEPT !.pc = "syncing", !.stack = <<top>> \o @]
    BY DEF Sync, top
  <2> QED
    BY <2>1 DEF Idle, SameWork, Plan, Settles
<1>2. /\ top.form = form /\ top.parent = parent
      /\ DOMAIN top.existing = {i \in ChildrenOf(view, parent) : view[i].form = form}
  BY DEF Frame
<1> HIDE DEF z, top
<1>3. DOMAIN top.existing \subseteq Inner(r, q, fields)
  <2>1. CASE parent \in Plot(r, q, fields)
    <3>1. ASSUME NEW t, t = fields PROVE \A i \in DOMAIN view : view[i].parent \in Plot(r, q, t) => i \in Inner(r, q, t)
      BY <3>1, PlotCloses
    <3>2. \A i \in DOMAIN view : view[i].parent \in Plot(r, q, fields) => i \in Inner(r, q, fields)
      BY <3>1
    <3> QED
      BY <1>2, <2>1, <3>2 DEF ChildrenOf
  <2>2. CASE q.op.kind = "seed"
    <3>1. Inner(r, q, fields) = Plot(r, q, fields) /\ {i \in DOMAIN fields : fields[i].form = To(r, q)} \subseteq Plot(r, q, fields)
      BY <2>2 DEF Inner, Plot, Root
    <3>2. DOMAIN q.tx \subseteq Plot(r, q, fields)
      BY DEF Within
    <3>3. ASSUME NEW i \in DOMAIN view, view[i].form = To(r, q) PROVE i \in Plot(r, q, fields)
      BY <3>1, <3>2, <3>3 DEF Over
    <3> QED
      BY <1>2, <3>1, <3>3 DEF ChildrenOf
  <2> QED
    BY <2>1, <2>2
<1>4. FrameIn(r, q, fields, top)
  BY <1>2, <1>3 DEF FrameIn, ChildrenOf
<1>5. \A k \in DOMAIN z.stack : FrameIn(r, q, fields, z.stack[k])
  <2>1. \A k \in DOMAIN q.stack : FrameIn(r, q, fields, q.stack[k])
    <3>1. ASSUME NEW t, t = fields PROVE \A k \in DOMAIN q.stack : FrameIn(r, q, t, q.stack[k])
      BY <3>1, FramesIn
    <3> QED
      BY <3>1
  <2>2. ASSUME NEW k \in DOMAIN z.stack PROVE z.stack[k] = top \/ \E l \in DOMAIN q.stack : z.stack[k] = q.stack[l]
    <3>1. Len(q.stack) \in Nat /\ DOMAIN q.stack = 1..Len(q.stack)
      OBVIOUS
    <3>2. DOMAIN z.stack = 1..(1 + Len(q.stack)) /\ z.stack[1] = top /\ (k # 1 => z.stack[k] = q.stack[k-1])
      BY <1>1, <3>1
    <3> QED
      BY <3>1, <3>2
  <2> QED
    BY <1>4, <2>1, <2>2
<1>6. ASSUME NEW t, t = fields PROVE Within(r, z, t) /\ Formed(r, z, t)
  BY <1>1, <1>5, <1>6, StageOn
<1> QED
  BY <1>6 DEF z

LEMMA FlushFormCalm ==
    ASSUME IInv, IInv', Traced, Traced', Calm, NEW r \in Requests, FlushForm(r)
    PROVE  Calm'
<1> DEFINE p == req[r]
           id == To(r, p)
           nodes == p.op.fields
<1>1. p.pc = "flushing" /\ p.op.kind = "seed" /\ Open(r) /\ calm' = calm
  BY FlushFormIs
<1>2. CASE Goes(r, Done(500))
  BY <1>1, <1>2, DoneCalm
<1>3. ASSUME NEW q, SameButForms(p, q), Goes(r, Sync(r, q, id, NULL, nodes)) PROVE Calm'
  <2> DEFINE z == Sync(r, q, id, NULL, nodes)
  <2>1. p = req[r] /\ StackOK(p)
    BY <1>1, OpIs
  <2>2. Goes(r, z)
    BY <1>3
  <2> HIDE DEF id, nodes, p
  <2>3. DOMAIN q = DOMAIN Idle /\ q.stack = p.stack /\ q.late = p.late /\ q.walked = p.walked /\ SameWork(p, q)
        /\ q.pc = p.pc
    BY <1>3 DEF SameButForms, SameWork, Plan
  <2>4. z.late = q.late /\ z.stack # <<>> /\ z.pc = "syncing" /\ z.walked = q.walked /\ SameWork(q, z)
    <3> DEFINE top == Frame(r, q, id, NULL, nodes)
    <3>1. z = [q EXCEPT !.pc = "syncing", !.stack = <<top>> \o @]
      BY DEF Sync
    <3> HIDE DEF z, top
    <3>2. q.stack \in Seq({q.stack[k] : k \in DOMAIN q.stack})
      BY <2>1, <2>3 DEF StackOK
    <3>3. <<top>> \o q.stack # <<>>
      BY <3>2
    <3> QED
      BY <2>3, <3>1, <3>3 DEF Idle, SameWork, Plan
  <2> HIDE DEF z
  <2> SUFFICES ASSUME ~raced, ~z.late PROVE InTime(r, z, fields)
    BY <1>1, <2>2, GoesCalm
  <2>5. InTimeNow(r)
    BY <2>1, <2>3, <2>4 DEF InTimeNow
  <2>6. OnFields(p) /\ Within(r, p, fields) /\ Formed(r, p, fields) /\ Wood(fields) /\ Current(r, p, fields) /\ Unwritten(p)
    BY <1>1, <2>1, <2>5, InTimeIs DEF InTime, OnFields
  <2>7. Base(r, p, fields) /\ EdgesIn(r, p, fields, View(r)) /\ View(r) = Over(fields, p.tx, p.gone)
    <3>1. View(r) = Over(fields, p.tx, p.gone)
      BY <2>1 DEF View
    <3> QED
      BY <1>1, <2>1, <2>5, <2>6, <3>1, WorkIs
  <2>8. Current(r, q, fields) /\ Current(r, z, fields) /\ Unwritten(z)
    BY <1>1, <2>3, <2>4, <2>6 DEF Current, Unwritten, SameWork, Plan, OnFields, Target, To
  <2>9. Within(r, q, fields) /\ Formed(r, q, fields) /\ q.visit = {} /\ q.stack = <<>>
    <3>1. Fresh(q)
      BY <1>1, <2>3, <2>6 DEF Fresh, Unwritten, SameWork
    <3>2. Within(r, q, fields) /\ Formed(r, q, fields)
      BY <2>6, <3>1, FreshIs
    <3> QED
      BY <3>1, <3>2 DEF Fresh
  <2>10. Base(r, q, fields) /\ EdgesIn(r, q, fields, View(r)) /\ OnFields(q) /\ OnFields(z)
    BY <2>3, <2>4, <2>6, <2>7, <2>8 DEF Base, EdgesIn, OnFields, SameWork, Plan, Target
  <2>11. /\ q.op.kind = "seed" /\ id = To(r, q) /\ NULL \notin DOMAIN View(r) /\ View(r) = Over(fields, q.tx, q.gone)
         /\ Rooted(r, q, fields)
    <3>1. q.op.kind = "seed" /\ id = To(r, q) /\ Rooted(r, q, fields)
      BY <1>1, <2>3 DEF SameWork, Plan, To, id, Rooted, Root
    <3>2. View(r) = Over(fields, q.tx, q.gone)
      BY <2>3, <2>7 DEF SameWork
    <3>3. NULL \notin DOMAIN View(r)
      BY <1>1, ViewIs, NullAssumption
    <3> QED
      BY <3>1, <3>2, <3>3
  <2>12. Within(r, z, fields) /\ Formed(r, z, fields)
    <3>1. q.stack \in Seq({})
      BY <2>9
    <3> QED
      BY <2>3, <2>9, <2>10, <2>11, <3>1, SyncWithin DEF z
  <2> QED
    BY <2>8, <2>12 DEF InTime
<1> QED
  BY <1>2, <1>3, FlushFormIs

LEMMA CurrentOn ==
    ASSUME NEW r, NEW q, NEW t, Current(r, q, t), OnFields(q), NEW z, z.op = q.op, z.seen = q.seen, z.walked = q.walked
    PROVE  /\ Current(r, z, t) /\ OnFields(z) /\ (z.pc \notin {"walking", "flushing"} => Unwritten(z))
           /\ (Base(r, q, t) => Base(r, z, t))
<1>1. OnFields(z) /\ To(r, z) = To(r, q) /\ Target(z) = Target(q)
  BY DEF OnFields, To, Target
<1>2. Current(r, z, t)
  BY <1>1 DEF Current, OnFields
<1> QED
  BY <1>1, <1>2 DEF Base, Unwritten

LEMMA SyncSame ==
    ASSUME NEW r, NEW q, DOMAIN q = DOMAIN Idle, NEW form, NEW parent, NEW nodes
    PROVE  LET z == Sync(r, q, form, parent, nodes) IN
           SameWork(q, z) /\ z.pc = "syncing" /\ z.late = q.late /\ z.made = q.made
<1> DEFINE top == Frame(r, q, form, parent, nodes)
<1>1. Sync(r, q, form, parent, nodes) = [q EXCEPT !.pc = "syncing", !.stack = <<top>> \o @]
  BY DEF Sync
<1> HIDE DEF top
<1> QED
  BY <1>1 DEF Idle, SameWork, Plan

\* What the invariants say of a request that has gone on.
LEMMA OnwardIs ==
    ASSUME IInv, IInv', Traced', NEW r \in Requests, NEW z, Goes(r, z), z.pc \notin {"idle", "done"}
    PROVE  /\ Edges(r, z, fields) /\ FieldsFit(z, fields) /\ DOMAIN z.tx \subseteq DOMAIN fields \cup NewOf(r)
           /\ ReqOK(z) /\ StackOK(z) /\ IsFiniteSet(DOMAIN Over(fields, z.tx, z.gone))
<1>1. req'[r] = z /\ fields' = fields /\ forms' = forms
  BY DEF Goes, IInv, TypeOK
<1>2. ReqOK(z) /\ Fits(r, z, fields, forms) /\ IsFiniteSet(DOMAIN fields)
  BY <1>1 DEF IInv, TypeOK, Isolated
<1>3. Edges(r, z, fields)
  <2>1. Open(r)'
    BY <1>1 DEF Open
  <2>2. Traces(r, z, fields, Live')
    BY <1>1, <2>1 DEF Traced
  <2> QED
    BY <2>2 DEF Traces
<1>4. IsFiniteSet(DOMAIN Over(fields, z.tx, z.gone))
  <2>1. DOMAIN Over(fields, z.tx, z.gone) = (DOMAIN fields \ z.gone) \cup DOMAIN z.tx
    BY DEF Over
  <2>2. IsFiniteSet(DOMAIN fields \ z.gone) /\ IsFiniteSet(DOMAIN z.tx)
    BY <1>2, FS_Subset DEF Fits
  <2> QED
    BY <2>1, <2>2, FS_Union
<1> QED
  BY <1>2, <1>3, <1>4 DEF Fits

\* Nothing is below nothing.
LEMMA BelowNone ==
    ASSUME NEW t, IsFiniteSet(DOMAIN t)
    PROVE  Below(t, {}) = {}
<1>1. Below(t, {}) \subseteq {}
  BY BelowLeast
<1> QED
  BY <1>1

\* A new field that is flushed: the root of its tree.
LEMMA NewFieldIn ==
    ASSUME NEW r, NEW q, NEW t, Base(r, q, t), q.op.kind = "newField", q.gone = {}, q.moved = {}, q.visit = {},
           q.doomed = {}, q.stack = <<>>, q.pc # "moving", NEW f, f = q.field, f \in NewOf(r), DOMAIN q.tx = {f},
           q.tx[f].form = q.op.form, q.tx[f].parent = q.op.parent
    PROVE  Within(r, q, t) /\ Formed(r, q, t) /\ Rooted(r, q, t)
<1> DEFINE v == Over(t, q.tx, q.gone)
<1>1. DOMAIN v = DOMAIN t \cup {f} /\ v[f] = q.tx[f] /\ \A i \in DOMAIN t : v[i] = t[i]
  BY DEF Over, Base
<1>2. Plot(r, q, t) = NewOf(r) /\ Root(q) = {f} /\ To(r, q) = q.op.form /\ DOMAIN q.stack = {}
  BY DEF Plot, Root, To
<1>3. /\ f \notin DOMAIN t /\ Wood(t)
      /\ q.op.parent # NULL => q.op.parent \in DOMAIN t /\ t[q.op.parent].form = q.op.form
  BY DEF Base, Current
<1>4. Within(r, q, t)
  BY <1>2 DEF Within
<1> HIDE DEF v
<1>5. \A i \in DOMAIN v : v[i].parent # NULL => v[i].form = v[v[i].parent].form
  <2>1. ASSUME NEW i \in DOMAIN t, v[i].parent # NULL PROVE v[i].form = v[v[i].parent].form
    BY <1>1, <1>3, <2>1 DEF Wood, SameForms
  <2>2. v[f].parent # NULL => v[f].form = v[v[f].parent].form
    BY <1>1, <1>3
  <2> QED
    BY <1>1, <2>1, <2>2
<1>6. \A i : After(r, q, v, i) = v[i].form
  BY DEF After
<1>7. Formed(r, q, t)
  BY <1>1, <1>2, <1>5, <1>6 DEF Formed, v
<1> QED
  BY <1>1, <1>2, <1>4, <1>7 DEF Rooted, v

\* An update that is flushed: the tree of its field follows, if it gets another form.
LEMMA EditFieldIn ==
    ASSUME NEW r, NEW q, NEW t, Base(r, q, t), q.op.kind = "editField", q.gone = {}, q.moved = {},
           q.doomed = {}, q.stack = <<>>, DOMAIN q.tx \subseteq {q.op.field},
           NEW v, v = Over(t, q.tx, q.gone), v[q.op.field].form = To(r, q), v[q.op.field].parent = Target(q),
           Starts(r, q)
    PROVE  Within(r, q, t) /\ Formed(r, q, t) /\ Rooted(r, q, t)
<1> DEFINE f == q.op.field
<1> USE DEF Starts
<1>1. /\ Wood(t) /\ f \in DOMAIN t /\ q.seen = t[f] /\ f \notin DOMAIN q.walked
      /\ Target(q) \in DOMAIN q.walked \cup {NULL}
      /\ \A i \in DOMAIN q.walked : i \in DOMAIN t /\ q.walked[i] = t[i]
      /\ Target(q) \in DOMAIN q.walked => q.walked[Target(q)].form = To(r, q)
  BY DEF Base, Current
<1>2. DOMAIN v = DOMAIN t /\ \A i \in DOMAIN t \ {f} : v[i] = t[i]
  BY <1>1 DEF Over
<1>3. f \in DOMAIN q.tx => v[f] = q.tx[f]
  BY <1>1 DEF Over
<1>4. Plot(r, q, t) = NewOf(r) \cup Below(t, {f}) /\ Root(q) = {f} /\ DOMAIN q.stack = {} /\ f \in Below(t, {f})
  <2>1. Plot(r, q, t) = NewOf(r) \cup Below(t, {q.op.field}) /\ Root(q) = {q.op.field}
    BY DEF Plot, Root
  <2>2. ASSUME NEW i, i \in DOMAIN t PROVE i \in Below(t, {i})
    <3>1. Wood(t)
      BY <1>1
    <3> QED
      BY <2>2, <3>1, TreeIs
  <2> QED
    BY <1>1, <2>1, <2>2
<1>5. Within(r, q, t)
  BY <1>1, <1>4 DEF Within
<1>6. \A i \in DOMAIN v : v[i].parent # NULL => v[i].form = v[v[i].parent].form \/ v[i].parent \in q.visit
  <2>1. ASSUME NEW i \in DOMAIN t \ {f}, v[i].parent # NULL, v[i].parent # f PROVE v[i].form = v[v[i].parent].form
    BY <1>1, <1>2, <2>1 DEF Wood, SameForms
  <2>2. ASSUME NEW i \in DOMAIN t \ {f}, v[i].parent = f PROVE v[i].form = v[f].form \/ f \in q.visit
    <3>1. t[i].form = t[f].form
      <4>1. t[i].parent = f /\ f # NULL
        BY <1>1, <1>2, <2>2 DEF Wood
      <4> QED
        BY <1>1, <4>1 DEF Wood, SameForms
    <3> QED
      BY <1>1, <1>2, <2>2, <3>1
  <2>3. v[f].parent # NULL => v[f].form = v[v[f].parent].form
    BY <1>1, <1>2
  <2> QED
    BY <1>2, <2>1, <2>2, <2>3
<1>7. \A i : After(r, q, v, i) = v[i].form
  BY DEF After
<1>8. \A i \in DOMAIN q.tx : q.tx[i].form = To(r, q)
  BY <1>3
<1>9. \A i \in Root(q) : i \in DOMAIN v \cap Plot(r, q, t) /\ v[i].form = To(r, q)
  BY <1>1, <1>2, <1>4
<1>10. Formed(r, q, t)
  <2>1. \A i \in q.visit : i \in DOMAIN v /\ After(r, q, v, i) = To(r, q)
    BY <1>1, <1>2, <1>7
  <2>2. \A i \in DOMAIN v : v[i].parent # NULL =>
           After(r, q, v, i) = After(r, q, v, v[i].parent) \/ v[i].parent \in q.visit
    BY <1>6, <1>7
  <2> QED
    BY <1>4, <1>8, <1>9, <2>1, <2>2 DEF Formed
<1> QED
  BY <1>5, <1>9, <1>10 DEF Rooted

LEMMA FlushedLate ==
    ASSUME NEW r \in Requests, ReqOK(req[r]), NEW ins, NEW ups, NEW del
    PROVE  Flushed(req[r], r, ins, ups, del).late = req[r].late
<1> DEFINE p == req[r]
<1>1. DOMAIN p = DOMAIN Idle
  BY DEF ReqOK
<1> HIDE DEF p
<1>2. Flushed(p, r, ins, ups, del).late = p.late
  BY <1>1 DEF Flushed, Idle
<1> QED
  BY <1>2 DEF p

LEMMA FirstFlush ==
    ASSUME IInv, NEW r \in Requests, Open(r), req[r].tx = Nothing, req[r].gone = {},
           NEW ins, IsFiniteSet(DOMAIN ins), NEW ups, NEW q, HasFlushed(r, ins, ups, {}, q),
           NEW new, new = Saved(r, ins, ups)
    PROVE  FirstRows(fields, ins, ups, q, new)
<1> DEFINE dead == Below(new, {})
<1>1. DOMAIN Nothing = {}
  BY NothingIs
<1>2. DOMAIN View(r) = DOMAIN fields /\ \A i \in DOMAIN fields : View(r)[i] = fields[i]
  BY <1>1 DEF View, Over
<1>3. /\ DOMAIN new = DOMAIN fields \cup DOMAIN ins
      /\ \A i \in DOMAIN new :
            new[i] = IF i \in DOMAIN ins THEN ins[i]
                     ELSE IF i \in DOMAIN ups THEN Assign(fields[i], ups[i]) ELSE fields[i]
  BY <1>2 DEF Saved
<1>4. Written(r, ins, ups) = DOMAIN ins \cup (DOMAIN ups \cap DOMAIN fields)
  BY <1>2 DEF Written
<1>5. /\ q.tx = [i \in (DOMAIN req[r].tx \cup Written(r, ins, ups)) \ dead |-> new[i]]
      /\ q.gone = req[r].gone \cup (dead \cap DOMAIN fields)
  BY DEF HasFlushed
<1>6. dead = {}
  <2>1. IsFiniteSet(DOMAIN fields)
    BY DEF IInv, Isolated
  <2>2. IsFiniteSet(DOMAIN new)
    <3>1. IsFiniteSet(DOMAIN fields \cup DOMAIN ins)
      BY <2>1, FS_Union
    <3> QED
      BY <1>3, <3>1
  <2> QED
    BY <2>2, BelowNone
<1> HIDE DEF dead
<1>7. DOMAIN q.tx = DOMAIN ins \cup (DOMAIN ups \cap DOMAIN fields) /\ \A i \in DOMAIN q.tx : q.tx[i] = new[i]
  <2>1. q.tx = [i \in DOMAIN ins \cup (DOMAIN ups \cap DOMAIN fields) |-> new[i]]
    BY <1>1, <1>4, <1>5, <1>6
  <2> QED
    BY <2>1
<1>8. q.gone = {}
  BY <1>5, <1>6
<1> QED
  BY <1>3, <1>7, <1>8 DEF FirstRows

\* The first flush, of a new field.
LEMMA NewFieldFlush ==
    ASSUME IInv, Traced, Calm, NEW r \in Requests, Open(r), InTimeNow(r), req[r].pc = "flushing",
           NEW o, o = req[r].op, o.kind = "newField", NEW row, row.form = o.form, row.parent = o.parent,
           NEW ins, DOMAIN ins = {NewId(r)}, ins[NewId(r)] = row,
           NEW q, HasFlushed(r, ins, Nothing, {}, q), q.op = o, q.seen = req[r].seen, q.walked = req[r].walked,
           q.field = NewId(r), q.moved = {}, q.doomed = {}, q.visit = {}, q.stack = <<>>, q.pc # "moving"
    PROVE  /\ Within(r, q, fields) /\ Formed(r, q, fields) /\ Rooted(r, q, fields)
           /\ Base(r, q, fields) /\ Current(r, q, fields) /\ OnFields(q) /\ To(r, q) = o.form
           /\ NewId(r) \in Plot(r, q, fields)
<1>1. /\ OnFields(req[r]) /\ Current(r, req[r], fields) /\ Unwritten(req[r]) /\ Within(r, req[r], fields)
      /\ ReqOK(req[r])
  BY InTimeIs DEF InTime, OnFields
<1>2. Base(r, req[r], fields)
  BY <1>1, WorkIs
<1>3. Base(r, q, fields) /\ Current(r, q, fields) /\ OnFields(q)
  BY <1>1, <1>2, CurrentOn
<1>4. NewId(r) \in NewOf(r)
  <2>1. req[r].made \in Nat
    BY <1>1 DEF ReqOK
  <2>2. req[r].made + 1 \in Nat \ {0}
    BY <2>1
  <2> QED
    BY <2>2 DEF NewId, NewOf
<1>5. req[r].tx = Nothing /\ req[r].gone = {}
  BY <1>1 DEF Unwritten
<1>6. q.gone = {} /\ DOMAIN q.tx = {NewId(r)} /\ q.tx[NewId(r)] = row
  <2>1. IsFiniteSet(DOMAIN ins) /\ DOMAIN Nothing = {}
    BY FS_Singleton, NothingIs
  <2> DEFINE new == Saved(r, ins, Nothing)
  <2>2. FirstRows(fields, ins, Nothing, q, new)
    <3>1. new = Saved(r, ins, Nothing)
      OBVIOUS
    <3> HIDE DEF new
    <3> QED
      BY <1>5, <2>1, <3>1, FirstFlush
  <2> HIDE DEF new
  <2> QED
    BY <2>1, <2>2 DEF FirstRows
<1>7. /\ To(r, q) = o.form
      /\ Plot(r, q, fields) = NewOf(r)
  BY DEF To, Plot
<1>8. Within(r, q, fields) /\ Formed(r, q, fields) /\ Rooted(r, q, fields)
  <2>1. q.tx[q.field].form = q.op.form /\ q.tx[q.field].parent = q.op.parent
    BY <1>6
  <2>2. ASSUME NEW t, t = fields PROVE Within(r, q, t) /\ Formed(r, q, t) /\ Rooted(r, q, t)
    BY <1>3, <1>4, <1>6, <2>1, <2>2, NewFieldIn
  <2> QED
    BY <2>2
<1> QED
  BY <1>3, <1>4, <1>7, <1>8

\* Once the columns that change are assigned the row is what it shall be.
LEMMA Changing ==
    ASSUME NEW seen, NEW to, DOMAIN seen = DOMAIN to, NEW changed, changed = Changed(to, seen),
           NEW ups, NEW f, Assigns(ups, f, to, changed),
           NEW row, f \in DOMAIN ups => row = Assign(seen, ups[f]), f \notin DOMAIN ups => row = seen
    PROVE  \A c \in DOMAIN to : row[c] = to[c]
<1>1. CASE changed = {}
  <2>1. DOMAIN ups = {}
    BY <1>1, NothingIs DEF Assigns
  <2> QED
    BY <1>1, <2>1 DEF Changed
<1>2. CASE changed # {}
  <2> DEFINE some == [c \in changed |-> to[c]]
  <2>1. f \in DOMAIN ups /\ ups[f] = some
    BY <1>2 DEF Assigns
  <2>2. DOMAIN some = changed /\ \A c \in changed : some[c] = to[c]
    OBVIOUS
  <2> HIDE DEF some
  <2>3. \A c \in DOMAIN to : Assign(seen, some)[c] = IF c \in changed THEN to[c] ELSE seen[c]
    BY <2>2 DEF Assign
  <2> QED
    BY <2>1, <2>3 DEF Changed
<1> QED
  BY <1>1, <1>2

\* The first flush, of what an update assigns.
LEMMA EditFieldFlush ==
    ASSUME IInv, Traced, Calm, NEW r \in Requests, Open(r), InTimeNow(r), req[r].pc = "flushing",
           NEW o, o = req[r].op, o.kind = "editField", NEW to, to = Assign(req[r].seen, o.set),
           NEW changed, changed = Changed(to, req[r].seen),
           NEW ups, Assigns(ups, o.field, to, changed),
           NEW q, HasFlushed(r, Nothing, ups, {}, q), q.op = o, q.seen = req[r].seen, q.walked = req[r].walked,
           q.moved = {}, q.doomed = {}, q.stack = <<>>, Turns(q, o.field, changed)
    PROVE  /\ Within(r, q, fields) /\ Formed(r, q, fields) /\ Rooted(r, q, fields)
           /\ Base(r, q, fields) /\ Current(r, q, fields) /\ OnFields(q) /\ To(r, q) = to.form
           /\ o.field \in Plot(r, q, fields)
<1>1. /\ OnFields(req[r]) /\ Current(r, req[r], fields) /\ Unwritten(req[r]) /\ Within(r, req[r], fields)
      /\ ReqOK(req[r]) /\ Wood(fields) /\ FieldOK(req[r].seen)
  BY InTimeIs DEF InTime, OnFields, AtWork
<1>2. Base(r, req[r], fields)
  BY <1>1, WorkIs
<1>3. Base(r, q, fields) /\ Current(r, q, fields) /\ OnFields(q)
  BY <1>1, <1>2, CurrentOn
<1>4. o.field \in DOMAIN fields /\ req[r].seen = fields[o.field]
  BY <1>1 DEF Current
<1>5. req[r].tx = Nothing /\ req[r].gone = {}
  BY <1>1 DEF Unwritten
<1>6. To(r, q) = to.form /\ Target(q) = to.parent
  BY DEF To, Target
<1>7. DOMAIN to = {"form", "parent", "key", "label"} /\ DOMAIN req[r].seen = DOMAIN to
  BY <1>1 DEF FieldOK, Assign
<1> DEFINE new == Saved(r, Nothing, ups)
           v == Over(fields, q.tx, q.gone)
<1>8. DOMAIN Nothing = {} /\ IsFiniteSet(DOMAIN Nothing)
  BY NothingIs
<1>9. /\ DOMAIN new = DOMAIN fields /\ q.gone = {}
      /\ DOMAIN q.tx = DOMAIN ups \cap DOMAIN fields
      /\ \A i \in DOMAIN q.tx : q.tx[i] = new[i]
      /\ \A i \in DOMAIN new : new[i] = IF i \in DOMAIN ups THEN Assign(fields[i], ups[i]) ELSE fields[i]
  <2>1. FirstRows(fields, Nothing, ups, q, new)
    <3>1. new = Saved(r, Nothing, ups)
      OBVIOUS
    <3> HIDE DEF new
    <3> QED
      BY <1>5, <1>8, <3>1, FirstFlush
  <2> HIDE DEF new
  <2> QED
    BY <1>8, <2>1 DEF FirstRows
<1> HIDE DEF new
<1>10. DOMAIN ups \subseteq {o.field}
  BY <1>8 DEF Assigns
<1>11. DOMAIN q.tx \subseteq {o.field}
  BY <1>9, <1>10
<1>12. v[o.field] = new[o.field]
  BY <1>4, <1>9 DEF Over
<1>13. new[o.field].form = to.form /\ new[o.field].parent = to.parent
  <2>1. new[o.field] = IF o.field \in DOMAIN ups THEN Assign(req[r].seen, ups[o.field]) ELSE req[r].seen
    <3>1. o.field \in DOMAIN new
      BY <1>4, <1>9
    <3>2. new[o.field] = IF o.field \in DOMAIN ups THEN Assign(fields[o.field], ups[o.field]) ELSE fields[o.field]
      BY <1>9, <3>1
    <3> QED
      BY <1>4, <3>2
  <2>2. \A c \in DOMAIN to : new[o.field][c] = to[c]
    <3>1. ASSUME NEW seen, seen = req[r].seen, NEW row, row = new[o.field], NEW f, f = o.field
          PROVE  \A c \in DOMAIN to : row[c] = to[c]
      <4>1. /\ f \in DOMAIN ups => row = Assign(seen, ups[f])
            /\ f \notin DOMAIN ups => row = seen
        BY <2>1, <3>1
      <4>2. DOMAIN seen = DOMAIN to /\ changed = Changed(to, seen) /\ Assigns(ups, f, to, changed)
        BY <1>7, <3>1
      <4> QED
        BY <4>1, <4>2, Changing
    <3> QED
      BY <3>1
  <2> QED
    BY <1>7, <2>2
<1>14. Starts(r, q)
  <2>1. "form" \in changed <=> to.form # req[r].seen.form
    BY <1>7 DEF Changed
  <2> QED
    BY <1>6, <2>1 DEF Starts, Turns
<1>15. Within(r, q, fields) /\ Formed(r, q, fields) /\ Rooted(r, q, fields)
  <2>1. v[o.field].form = To(r, q) /\ v[o.field].parent = Target(q) /\ q.op.kind = "editField" /\ o.field = q.op.field
    BY <1>6, <1>12, <1>13
  <2> HIDE DEF v
  <2>2. ASSUME NEW t, t = fields, NEW w, w = v PROVE Within(r, q, t) /\ Formed(r, q, t) /\ Rooted(r, q, t)
    <3>1. w = Over(t, q.tx, q.gone)
      BY <2>2 DEF v
    <3>2. Base(r, q, t) /\ w[q.op.field].form = To(r, q) /\ w[q.op.field].parent = Target(q)
      BY <1>3, <2>1, <2>2
    <3>4. DOMAIN q.tx \subseteq {q.op.field} /\ q.op.kind = "editField"
      BY <1>11, <2>1
    <3>3. q.gone = {} /\ q.moved = {} /\ q.doomed = {} /\ q.stack = <<>>
      BY <1>9
    <3> HIDE DEF new
    <3> QED
      BY <1>14, <3>1, <3>2, <3>3, <3>4, EditFieldIn
  <2> QED
    BY <2>2
<1>16. o.field \in Plot(r, q, fields)
  <2>1. Root(q) = {o.field}
    BY DEF Root
  <2> QED
    BY <1>15, <2>1 DEF Rooted
<1> QED
  BY <1>3, <1>6, <1>15, <1>16

LEMMA FlushFieldCalm ==
    ASSUME IInv, IInv', Traced, Traced', Calm, NEW r \in Requests, FlushField(r)
    PROVE  Calm'
<1> DEFINE p   == req[r]
           o   == p.op
           new == o.kind = "newField"
           id  == IF new THEN NewId(r) ELSE o.field
           to  == IF new THEN NodeRow(o.node, o.form, o.parent) ELSE Assign(p.seen, o.set)
           ins == IF new THEN [i \in {id} |-> to] ELSE Nothing
           changed == {c \in DOMAIN to : ~new /\ to[c] # p.seen[c]}
           ups == IF changed = {} THEN Nothing ELSE [i \in {id} |-> [c \in changed |-> to[c]]]
           f   == Flushed(p, r, ins, ups, {})
           q   == [f EXCEPT !.field = id]
           moving == [q EXCEPT !.pc = "moving", !.visit = {id}]
           closing == [q EXCEPT !.pc = "closing"]
<1>1. p.pc = "flushing" /\ o.kind \in {"newField", "editField"} /\ Open(r) /\ calm' = calm /\ p = req[r]
  BY DEF FlushField, Open
<1>2. Goes(r, IF Failure(r, ins, ups) # NULL THEN Refused(Failure(r, ins, ups), FALSE)
              ELSE IF new THEN Sync(r, q, o.form, id, o.node.subs)
              ELSE IF "form" \in changed THEN moving
              ELSE IF o.subs # NULL THEN Sync(r, q, to.form, id, o.subs)
              ELSE closing)
  BY DEF FlushField, Goes
<1>3. ReqOK(p) /\ StackOK(p) /\ DOMAIN p = DOMAIN Idle
  BY <1>1, OpIs DEF ReqOK
<1>4. CASE Failure(r, ins, ups) # NULL
  <2> HIDE DEF ins, ups
  <2>1. Goes(r, Done(500))
    BY <1>2, <1>4 DEF Refused
  <2> QED
    BY <1>1, <2>1, DoneCalm
<1>5. CASE Failure(r, ins, ups) = NULL
  <2>1. new => /\ id = NewId(r) /\ to.form = o.form /\ to.parent = o.parent /\ ups = Nothing
               /\ DOMAIN ins = {id} /\ ins[id] = to
    <3> SUFFICES ASSUME new
                 PROVE  /\ id = NewId(r) /\ to.form = o.form /\ to.parent = o.parent /\ ups = Nothing
                        /\ DOMAIN ins = {id} /\ ins[id] = to
      OBVIOUS
    <3>1. id = NewId(r) /\ to = NodeRow(o.node, o.form, o.parent) /\ changed = {}
      OBVIOUS
    <3>2. to.form = o.form /\ to.parent = o.parent
      BY <3>1 DEF NodeRow
    <3>3. ups = Nothing
      BY <3>1
    <3>4. ins = [i \in {id} |-> to]
      OBVIOUS
    <3> HIDE DEF new, id, to, ins, ups
    <3> QED
      BY <3>1, <3>2, <3>3, <3>4
  <2>2. ~new => /\ id = o.field /\ to = Assign(p.seen, o.set) /\ ins = Nothing
                /\ changed = Changed(to, p.seen)
                /\ Assigns(ups, o.field, to, changed)
    <3> SUFFICES ASSUME ~new
                 PROVE  /\ id = o.field /\ to = Assign(p.seen, o.set) /\ ins = Nothing
                        /\ changed = Changed(to, p.seen)
                        /\ Assigns(ups, o.field, to, changed)
      OBVIOUS
    <3>1. id = o.field /\ to = Assign(p.seen, o.set) /\ ins = Nothing
      OBVIOUS
    <3>2. changed = Changed(to, p.seen)
      BY DEF Changed
    <3>3. ups = IF changed = {} THEN Nothing ELSE [i \in {id} |-> [c \in changed |-> to[c]]]
      OBVIOUS
    <3> HIDE DEF new, id, to, ins, ups, changed
    <3>4. Assigns(ups, o.field, to, changed)
      BY <3>1, <3>3 DEF Assigns
    <3> QED
      BY <3>1, <3>2, <3>4
  <2>3. IsFiniteSet(DOMAIN ins)
    <3>1. IsFiniteSet(DOMAIN Nothing) /\ IsFiniteSet({id})
      BY NothingIs, FS_Singleton
    <3> HIDE DEF new, id, to
    <3> QED
      BY <2>1, <2>2, <3>1
  <2>4. new \/ o.kind = "editField"
    BY <1>1
  <2> HIDE DEF ins, ups, to, changed, id
  <2>5. FlushedAs(p, r, ins, ups, {}, f)
    <3>1. ReqOK(req[r]) /\ IsFiniteSet(DOMAIN ins)
      BY <1>3, <2>3
    <3> QED
      BY <3>1, FlushedIs DEF FlushedAs
  <2>6. f.walked = p.walked /\ f.field = p.field /\ f.made = p.made + Cardinality(DOMAIN ins)
    BY <1>3, FlushedAlso
  <2>7. f.late = p.late
    <3>1. ReqOK(req[r])
      BY <1>3
    <3> QED
      BY <3>1, FlushedLate
  <2> HIDE DEF f, p
  <2>8. /\ DOMAIN q = DOMAIN Idle /\ q.pc = "flushing" /\ q.op = p.op /\ q.seen = p.seen
        /\ q.stack = p.stack /\ q.walked = p.walked /\ q.field = id /\ SameRows(f, q) /\ q.late = p.late
        /\ q.visit = p.visit /\ q.moved = {} /\ q.doomed = {}
    BY <1>1, <2>5, <2>6, <2>7 DEF Idle, SameRows, FlushedAs
  <2> HIDE DEF q
  <2>9. HasFlushed(r, ins, ups, {}, q)
    BY <2>5, <2>8, SameFlush DEF FlushedAs
  <2>10. ASSUME InTimeNow(r)
         PROVE  q.visit = {} /\ q.stack = <<>> /\ q.stack \in Seq({})
    <3>1. Unwritten(p)
      BY <1>1, <2>10, InTimeIs DEF InTime
    <3>2. p.visit = {} /\ p.stack = <<>>
      BY <1>1, <3>1 DEF Unwritten
    <3>3. q.visit = {} /\ q.stack = <<>>
      BY <2>8, <3>2
    <3> QED
      BY <3>3
  <2> HIDE DEF o, new
  <2>11. ASSUME NEW form, NEW nodes, Goes(r, Sync(r, q, form, id, nodes)), q.pc # "moving", q.visit = {} \/ ~InTimeNow(r),
                InTimeNow(r) => /\ Within(r, q, fields) /\ Formed(r, q, fields) /\ Rooted(r, q, fields)
                                /\ Base(r, q, fields) /\ Current(r, q, fields) /\ OnFields(q) /\ form = To(r, q)
                                /\ id \in Plot(r, q, fields) /\ id \in Root(q)
         PROVE  Calm'
    <3> DEFINE z == Sync(r, q, form, id, nodes)
    <3>1. SameWork(q, z) /\ z.pc = "syncing" /\ z.late = q.late /\ z.made = q.made
      BY <2>8, SyncSame
    <3> SUFFICES ASSUME ~raced, ~z.late PROVE InTime(r, z, fields)
      BY <1>1, <2>11, GoesCalm
    <3>2. InTimeNow(r)
      BY <1>1, <2>8, <3>1 DEF InTimeNow
    <3>3. Edges(r, z, fields) /\ DOMAIN z.tx \subseteq DOMAIN fields \cup NewOf(r)
      BY <2>11, <3>1, OnwardIs
    <3> HIDE DEF z
    <3>4. Edges(r, q, fields) /\ DOMAIN q.tx \subseteq DOMAIN fields \cup NewOf(r)
      BY <3>1, <3>3 DEF Edges, SameWork, Plan, Target
    <3> DEFINE view == Over(fields, q.tx, q.gone)
    <3>5. EdgesIn(r, q, fields, view)
      <4>1. DOMAIN fields \cap NewOf(r) = {}
        BY <1>1, <3>2, InTimeIs
      <4>2. ASSUME NEW t, t = fields PROVE EdgesIn(r, q, t, Over(t, q.tx, q.gone))
        BY <2>11, <3>2, <3>4, <4>1, <4>2, ViewEdges
      <4> QED
        BY <4>2
    <3>6. After(r, q, view, id) = To(r, q)
      <4>1. view[id].form = To(r, q)
        BY <2>11, <3>2 DEF Rooted
      <4> QED
        BY <2>8, <4>1 DEF After
    <3>7. Within(r, z, fields) /\ Formed(r, z, fields)
      <4>1. view = Over(fields, q.tx, q.gone) /\ q.stack \in Seq({}) /\ q.visit = {}
        BY <2>10, <3>2
      <4>2. /\ Within(r, q, fields) /\ Formed(r, q, fields) /\ Rooted(r, q, fields)
            /\ Base(r, q, fields) /\ form = To(r, q) /\ id \in Plot(r, q, fields)
        BY <2>11, <3>2
      <4> HIDE DEF view
      <4> QED
        BY <2>8, <3>5, <3>6, <4>1, <4>2, SyncWithin DEF z
    <3>8. Current(r, z, fields) /\ Unwritten(z) /\ OnFields(z)
      <4>1. z.op = q.op /\ z.seen = q.seen /\ z.walked = q.walked
        BY <3>1 DEF SameWork, Plan
      <4> QED
        BY <2>11, <3>1, <3>2, <4>1, CurrentOn
    <3> QED
      BY <3>7, <3>8 DEF InTime
  <2>12. CASE new
    <3>1. InTimeNow(r) => /\ Within(r, q, fields) /\ Formed(r, q, fields) /\ Rooted(r, q, fields)
                          /\ Base(r, q, fields) /\ Current(r, q, fields) /\ OnFields(q) /\ To(r, q) = o.form
                          /\ NewId(r) \in Plot(r, q, fields)
      <4> SUFFICES ASSUME InTimeNow(r)
                   PROVE  /\ Within(r, q, fields) /\ Formed(r, q, fields) /\ Rooted(r, q, fields)
                          /\ Base(r, q, fields) /\ Current(r, q, fields) /\ OnFields(q) /\ To(r, q) = o.form
                          /\ NewId(r) \in Plot(r, q, fields)
        OBVIOUS
      <4>1. o = req[r].op /\ o.kind = "newField" /\ q.op = o /\ q.seen = req[r].seen /\ q.walked = req[r].walked
        BY <1>1, <2>8, <2>12 DEF o, new
      <4>2. /\ req[r].pc = "flushing" /\ q.pc # "moving" /\ q.field = NewId(r) /\ q.moved = {} /\ q.doomed = {}
            /\ q.visit = {} /\ q.stack = <<>>
        BY <1>1, <2>1, <2>8, <2>10, <2>12
      <4>3. /\ to.form = o.form /\ to.parent = o.parent /\ DOMAIN ins = {NewId(r)} /\ ins[NewId(r)] = to
            /\ HasFlushed(r, ins, Nothing, {}, q)
        BY <2>1, <2>9, <2>12
      <4> QED
        BY <1>1, <4>1, <4>2, <4>3, NewFieldFlush
    <3>2. Goes(r, Sync(r, q, o.form, id, o.node.subs))
      BY <1>2, <1>5, <2>12
    <3>3. id = NewId(r) /\ id \in Root(q)
      BY <2>1, <2>8, <2>12 DEF Root, o, new
    <3> QED
      BY <2>8, <2>10, <2>11, <3>1, <3>2, <3>3
  <2>13. CASE ~new
    <3>1. /\ o = req[r].op /\ o.kind = "editField" /\ to = Assign(req[r].seen, o.set) /\ req[r].pc = "flushing"
          /\ changed = Changed(to, req[r].seen) /\ id = o.field
          /\ Assigns(ups, o.field, to, changed)
      BY <1>1, <2>2, <2>4, <2>13 DEF o
    <3>2. ASSUME InTimeNow(r), NEW z, SameRows(q, z), z.op = q.op, z.seen = q.seen, z.walked = q.walked, z.moved = {},
                 z.doomed = {}, z.stack = q.stack, Turns(z, o.field, changed)
          PROVE  /\ Within(r, z, fields) /\ Formed(r, z, fields) /\ Rooted(r, z, fields)
                 /\ Base(r, z, fields) /\ Current(r, z, fields) /\ OnFields(z) /\ To(r, z) = to.form
                 /\ o.field \in Plot(r, z, fields)
      <4>1. HasFlushed(r, Nothing, ups, {}, z)
        <5>1. HasFlushed(r, Nothing, ups, {}, q)
          BY <2>2, <2>9, <2>13
        <5> QED
          BY <3>2, <5>1, SameFlush
      <4>2. z.op = o /\ z.seen = req[r].seen /\ z.walked = req[r].walked /\ z.stack = <<>>
        BY <1>1, <2>8, <2>10, <3>2 DEF o
      <4> HIDE DEF p
      <4> QED
        BY <1>1, <3>1, <3>2, <4>1, <4>2, EditFieldFlush
    <3>3. CASE "form" \in changed
      <4>1. Goes(r, moving)
        BY <1>2, <1>5, <2>13, <3>3
      <4>2. /\ SameRows(q, moving) /\ moving.op = q.op /\ moving.seen = q.seen /\ moving.walked = q.walked
            /\ moving.moved = {} /\ moving.doomed = {} /\ moving.stack = q.stack /\ moving.pc = "moving"
            /\ moving.visit = {o.field} /\ moving.late = q.late
        BY <2>8, <3>1 DEF Idle, SameRows
      <4> HIDE DEF moving
      <4> SUFFICES ASSUME ~raced, ~moving.late PROVE InTime(r, moving, fields)
        BY <1>1, <4>1, GoesCalm
      <4>3. InTimeNow(r)
        BY <1>1, <2>8, <4>2 DEF InTimeNow
      <4>4. /\ Within(r, moving, fields) /\ Formed(r, moving, fields)
            /\ Current(r, moving, fields) /\ OnFields(moving)
        <5>1. Turns(moving, o.field, changed)
          BY <3>3, <4>2 DEF Turns
        <5> QED
          BY <3>2, <4>2, <4>3, <5>1
      <4> QED
        BY <4>2, <4>4 DEF InTime, Unwritten
    <3>4. CASE "form" \notin changed
      <4>1. InTimeNow(r) => /\ Within(r, q, fields) /\ Formed(r, q, fields) /\ Rooted(r, q, fields)
                            /\ Base(r, q, fields) /\ Current(r, q, fields) /\ OnFields(q) /\ To(r, q) = to.form
                            /\ o.field \in Plot(r, q, fields)
        <5>1. SameRows(q, q) /\ q.pc # "moving" /\ q.moved = {} /\ q.doomed = {}
          BY <2>8 DEF SameRows
        <5>2. InTimeNow(r) => Turns(q, o.field, changed)
          BY <2>10, <3>4, <5>1 DEF Turns
        <5> QED
          BY <3>2, <5>1, <5>2
      <4>2. CASE Goes(r, Sync(r, q, to.form, id, o.subs))
        <5>1. id \in Root(q)
          BY <2>8, <3>1 DEF Root, o
        <5> QED
          BY <2>8, <2>10, <2>11, <3>1, <4>1, <4>2, <5>1
      <4>3. CASE Goes(r, closing)
        <5>1. closing.late = q.late /\ closing.pc = "closing" /\ closing.op = q.op /\ closing.seen = q.seen
              /\ closing.walked = q.walked
          BY <2>8 DEF Idle
        <5>2. InTimeNow(r) => Within(r, closing, fields) /\ Formed(r, closing, fields)
          <6> SUFFICES ASSUME InTimeNow(r) PROVE Within(r, closing, fields) /\ Formed(r, closing, fields)
            OBVIOUS
          <6>1. q.visit = {} /\ DOMAIN q = DOMAIN Idle
            BY <2>8, <2>10
          <6>2. ASSUME NEW t, t = fields PROVE Within(r, closing, t) /\ Formed(r, closing, t)
            BY <4>1, <6>1, <6>2, CloseWithin
          <6> QED
            BY <6>2
        <5> HIDE DEF closing
        <5> SUFFICES ASSUME ~raced, ~closing.late PROVE InTime(r, closing, fields)
          BY <1>1, <4>3, GoesCalm
        <5>3. InTimeNow(r)
          BY <1>1, <2>8, <5>1 DEF InTimeNow
        <5>4. Current(r, closing, fields) /\ OnFields(closing) /\ Unwritten(closing)
          BY <4>1, <5>1, <5>3, CurrentOn
        <5> QED
          BY <5>2, <5>3, <5>4 DEF InTime
      <4> HIDE DEF closing
      <4>4. \/ Goes(r, Sync(r, q, to.form, id, o.subs))
            \/ Goes(r, closing)
        BY <1>2, <1>5, <2>13, <3>4
      <4> QED
        BY <4>2, <4>3, <4>4
    <3> QED
      BY <3>3, <3>4
  <2> QED
    BY <2>12, <2>13
<1> QED
  BY <1>4, <1>5

LEMMA TreeForm ==
    ASSUME NEW t, Wood(t), NEW f \in DOMAIN t, NEW i \in Below(t, {f})
    PROVE  t[i].form = t[f].form
<1> DEFINE B == Below(t, {f})
<1>1. \A j \in B : t[j].form = t[f].form
  BY TreeIs
<1> HIDE DEF B
<1> QED
  BY <1>1 DEF B

\* The tree of the field that is moved.
LEMMA MovedIn ==
    ASSUME NEW r, NEW p, NEW t, Base(r, p, t), Within(r, p, t), Formed(r, p, t), p.pc = "moving", p.op.kind = "editField",
           NEW view, view = Over(t, p.tx, p.gone), EdgesIn(r, p, t, view), DOMAIN p.tx \subseteq DOMAIN t \cup NewOf(r),
           NEW i \in p.visit, NEW kids, kids = ChildrenOf(view, i) \ p.moved,
           NEW z, Plan(p, z), z.tx = p.tx, z.gone = p.gone, z.doomed = p.doomed, z.stack = p.stack,
           z.visit = (p.visit \ {i}) \cup kids, z.moved = p.moved \cup kids, z.pc = "moving" \/ z.visit = {},
           z.pc \notin {"walking", "flushing"}
    PROVE  Within(r, z, t) /\ Formed(r, z, t) /\ Rooted(r, z, t)
<1> DEFINE to == To(r, p)
           plot == Plot(r, p, t)
           inner == Inner(r, p, t)
           f == p.op.field
<1>1. To(r, z) = to /\ Root(z) = Root(p) /\ Plot(r, z, t) = plot /\ Inner(r, z, t) = inner /\ z.op = p.op /\ z.seen = p.seen
  BY SamePlan DEF Plan
<1>2. Root(p) = {f} /\ plot = NewOf(r) \cup Below(t, {f}) /\ inner = plot \ {f}
  BY DEF Root, Plot, Inner
<1>3. Wood(t) /\ f \in DOMAIN t /\ p.seen = t[f]
  BY DEF Base, Current
<1>4. /\ DOMAIN p.tx \cup p.visit \subseteq plot /\ p.gone \cup p.doomed \cup p.moved \subseteq inner
      /\ \A k \in DOMAIN p.stack :
            /\ DOMAIN p.stack[k].existing \subseteq inner
            /\ p.stack[k].parent \in plot \/ (p.op.kind = "seed" /\ p.stack[k].parent = NULL)
      /\ \A j \in DOMAIN p.tx \ DOMAIN t :
            IF j \in Root(p) THEN p.tx[j].parent = p.op.parent
            ELSE p.tx[j].parent \in plot \/ (p.op.kind = "seed" /\ p.tx[j].parent = NULL)
  BY DEF Within
<1>5. /\ \A j \in DOMAIN p.tx : p.tx[j].form = to \/ (j \in DOMAIN t /\ p.tx[j].form = t[j].form)
      /\ \A j \in DOMAIN view : view[j].parent # NULL =>
            \/ After(r, p, view, j) = After(r, p, view, view[j].parent)
            \/ view[j].parent \in p.visit
      /\ DOMAIN p.tx \subseteq {f} /\ p.seen.form # to
      /\ \A j \in p.visit : j \in DOMAIN view /\ After(r, p, view, j) = to
      /\ \A j \in p.moved : j \in DOMAIN view /\ view[j].form # to
      /\ f \in DOMAIN view \cap plot /\ view[f].form = to
      /\ \A k \in DOMAIN p.stack :
            /\ p.stack[k].form = to
            /\ p.stack[k].parent \in DOMAIN view => After(r, p, view, p.stack[k].parent) = to
            /\ \A j \in DOMAIN p.stack[k].existing \cap DOMAIN view : view[j].form = to
  <2>1. Root(p) = {f}
    BY <1>2
  <2> HIDE DEF f, to, plot
  <2> QED
    BY <2>1 DEF Formed, to, plot
<1>6. kids \subseteq inner /\ kids \subseteq DOMAIN view /\ \A j \in kids : view[j].parent = i
  <2>1. \A j \in DOMAIN view : view[j].parent \in plot => j \in inner
    BY PlotCloses
  <2> HIDE DEF plot, inner
  <2> QED
    BY <1>4, <2>1 DEF ChildrenOf
<1>7. \A j \in DOMAIN view : j \in DOMAIN p.tx \/ (j \in DOMAIN t /\ view[j] = t[j])
  BY DEF Over
<1>8. ASSUME NEW j \in kids PROVE view[j].form # to
  <2>1. j \in DOMAIN t /\ view[j] = t[j] /\ j \in plot
    BY <1>2, <1>5, <1>6, <1>7
  <2>2. j \in Below(t, {f})
    BY <1>2, <2>1 DEF Base
  <2>3. t[j].form = t[f].form
    <3> HIDE DEF f
    <3> QED
      BY <1>3, <2>2, TreeForm
  <2> QED
    BY <1>3, <1>5, <2>1, <2>3
<1> HIDE DEF to, plot, inner, f
<1>9. \A j : After(r, z, view, j) = IF j \in kids THEN to ELSE After(r, p, view, j)
  BY <1>1 DEF After, to
<1>10. Within(r, z, t)
  <2>1. DOMAIN z.tx \cup z.visit \subseteq plot /\ z.gone \cup z.doomed \cup z.moved \subseteq inner
    BY <1>2, <1>4, <1>6
  <2> QED
    BY <1>1, <1>4, <2>1 DEF Within
<1>11. \A j \in DOMAIN view : view[j].parent # NULL =>
          \/ After(r, z, view, j) = After(r, z, view, view[j].parent)
          \/ view[j].parent \in z.visit
  <2> SUFFICES ASSUME NEW j \in DOMAIN view, view[j].parent # NULL, view[j].parent \notin z.visit
               PROVE  After(r, z, view, j) = After(r, z, view, view[j].parent)
    OBVIOUS
  <2>1. CASE view[j].parent = i
    <3>1. j \in kids \/ j \in p.moved
      BY <2>1 DEF ChildrenOf
    <3>2. After(r, z, view, j) = to
      BY <1>9, <3>1 DEF After, to
    <3> QED
      BY <1>5, <1>9, <2>1, <3>2
  <2>2. CASE view[j].parent # i
    <3>1. view[j].parent \notin p.visit /\ view[j].parent \notin kids /\ j \notin kids
      BY <1>6, <2>2
    <3> QED
      BY <1>5, <1>9, <3>1
  <2> QED
    BY <2>1, <2>2
<1>12. Over(t, z.tx, z.gone) = view
  OBVIOUS
<1>13. /\ \A j \in z.visit : j \in DOMAIN view /\ After(r, z, view, j) = to
       /\ \A j \in z.moved : j \in DOMAIN view /\ view[j].form # to
  BY <1>5, <1>6, <1>8, <1>9
<1>14. \A k \in DOMAIN z.stack :
          /\ z.stack[k].form = to
          /\ z.stack[k].parent \in DOMAIN view => After(r, z, view, z.stack[k].parent) = to
          /\ \A j \in DOMAIN z.stack[k].existing \cap DOMAIN view : view[j].form = to
  BY <1>5, <1>9
<1>15. z.visit # {} => z.pc = "moving"
  OBVIOUS
<1>16. Formed(r, z, t)
  <2> DEFINE now == Over(t, z.tx, z.gone)
  <2>1. now = view /\ z.tx = p.tx
    BY <1>12
  <2>2. \A j \in Root(z) : j \in DOMAIN view \cap plot /\ view[j].form = to
    BY <1>1, <1>2, <1>5
  <2>3. z.pc = "moving" => DOMAIN z.tx \subseteq Root(z) /\ z.seen.form # to
    BY <1>1, <1>2, <1>5
  <2> HIDE DEF now
  <2>4. /\ \A j \in DOMAIN z.tx : z.tx[j].form = to \/ (j \in DOMAIN t /\ z.tx[j].form = t[j].form)
        /\ \A j \in DOMAIN now : now[j].parent # NULL =>
              \/ After(r, z, now, j) = After(r, z, now, now[j].parent)
              \/ now[j].parent \in z.visit
    BY <1>5, <1>11, <2>1
  <2> QED
    BY <1>1, <1>13, <1>14, <1>15, <2>1, <2>2, <2>3, <2>4 DEF Formed, now
<1>17. Rooted(r, z, t)
  BY <1>1, <1>2, <1>5, <1>12 DEF Rooted
<1> QED
  BY <1>10, <1>16, <1>17

LEMMA MoveCalm ==
    ASSUME IInv, IInv', Traced, Traced', Calm, NEW r \in Requests, Move(r)
    PROVE  Calm'
<1> DEFINE p == req[r]
           o == p.op
           kids(i) == ChildrenOf(View(r), i) \ p.moved
           visit(i) == (p.visit \ {i}) \cup kids(i)
           moved(i) == p.moved \cup kids(i)
           q(i) == [p EXCEPT !.visit = visit(i), !.moved = moved(i)]
<1>1. p.pc = "moving" /\ Open(r) /\ calm' = calm /\ p = req[r]
  BY DEF Move, Open
<1>2. PICK i \in p.visit :
         Goes(r, IF q(i).visit # {} THEN q(i)
                 ELSE IF o.subs # NULL THEN Sync(r, q(i), o.set.form, q(i).field, o.subs)
                 ELSE [q(i) EXCEPT !.pc = "closing"])
  BY DEF Move, Goes
<1>3. DOMAIN p = DOMAIN Idle /\ o.kind = "editField" /\ StackOK(p) /\ p.field = o.field
  <2>1. ReqOK(p) /\ AtWork(p) /\ StackOK(p) /\ Traces(r, p, fields, Live)
    BY <1>1, OpIs DEF Traced
  <2> QED
    BY <1>1, <2>1 DEF ReqOK, AtWork, Traces, Climbed
<1> DEFINE z == q(i)
<1>4. Goes(r, IF z.visit # {} THEN z
              ELSE IF o.subs # NULL THEN Sync(r, z, o.set.form, z.field, o.subs)
              ELSE [z EXCEPT !.pc = "closing"])
  BY <1>2
<1> HIDE DEF visit, moved, p
<1>5. /\ DOMAIN z = DOMAIN Idle /\ z.pc = p.pc /\ z.stack = p.stack /\ Plan(p, z) /\ z.late = p.late
      /\ z.tx = p.tx /\ z.gone = p.gone /\ z.doomed = p.doomed /\ z.visit = visit(i) /\ z.moved = moved(i)
  BY <1>1, <1>3 DEF Idle, Plan
<1> HIDE DEF z
<1>6. StackOK(z) /\ z.op = o /\ z.field = o.field
  BY <1>3, <1>5 DEF StackOK, Plan
\* What holds of z in time, whatever the stage is that follows.
<1>7. ASSUME InTimeNow(r), NEW y, Plan(z, y), y.tx = z.tx, y.gone = z.gone, y.doomed = z.doomed, y.stack = z.stack,
             y.visit = z.visit, y.moved = z.moved, y.pc = "moving" \/ z.visit = {}, y.pc \notin {"walking", "flushing"}
      PROVE  Within(r, y, fields) /\ Formed(r, y, fields) /\ Rooted(r, y, fields)
  <2>1. /\ Within(r, p, fields) /\ Formed(r, p, fields) /\ OnFields(p) /\ DOMAIN p.tx \subseteq DOMAIN fields \cup NewOf(r)
    BY <1>1, <1>3, <1>7, InTimeIs DEF InTime, OnFields
  <2>2. Base(r, p, fields) /\ EdgesIn(r, p, fields, View(r)) /\ View(r) = Over(fields, p.tx, p.gone)
    <3>1. View(r) = Over(fields, p.tx, p.gone)
      BY <1>1 DEF View
    <3> QED
      BY <1>1, <1>7, <2>1, <3>1, WorkIs
  <2>3. /\ Plan(p, y) /\ y.tx = p.tx /\ y.gone = p.gone /\ y.doomed = p.doomed /\ y.stack = p.stack
        /\ y.pc = "moving" \/ y.visit = {}
    BY <1>5, <1>7 DEF Plan
  <2>4. y.visit = (p.visit \ {i}) \cup kids(i) /\ y.moved = p.moved \cup kids(i)
    BY <1>5, <1>7 DEF visit, moved
  <2>5. kids(i) = ChildrenOf(View(r), i) \ p.moved
    BY <1>1
  <2> HIDE DEF kids
  <2>6. ASSUME NEW t, t = fields, NEW view, view = View(r), NEW k, k = kids(i)
        PROVE  Within(r, y, t) /\ Formed(r, y, t) /\ Rooted(r, y, t)
    <3>1. Base(r, p, t) /\ Within(r, p, t) /\ Formed(r, p, t) /\ view = Over(t, p.tx, p.gone) /\ EdgesIn(r, p, t, view)
          /\ DOMAIN p.tx \subseteq DOMAIN t \cup NewOf(r)
      BY <2>1, <2>2, <2>6
    <3>2. y.visit = (p.visit \ {i}) \cup k /\ y.moved = p.moved \cup k /\ k = ChildrenOf(view, i) \ p.moved
      BY <2>4, <2>5, <2>6
    <3>3. p.op.kind = "editField" /\ p.pc = "moving" /\ i \in p.visit
      BY <1>1, <1>2, <1>3
    <3> HIDE DEF o
    <3> QED
      BY <1>7, <2>3, <3>1, <3>2, <3>3, MovedIn
  <2> QED
    BY <2>6
<1>8. ASSUME InTimeNow(r), NEW y, y.op = z.op, y.seen = z.seen, y.walked = z.walked, y.pc \notin {"walking", "flushing"}
      PROVE  Current(r, y, fields) /\ Unwritten(y) /\ OnFields(y) /\ Base(r, y, fields)
  <2>1. Within(r, p, fields) /\ OnFields(p) /\ Current(r, p, fields)
    BY <1>1, <1>3, <1>8, InTimeIs DEF InTime, OnFields
  <2>2. Base(r, p, fields)
    BY <1>1, <1>8, <2>1, WorkIs
  <2>3. y.op = p.op /\ y.seen = p.seen /\ y.walked = p.walked
    BY <1>5, <1>8 DEF Plan
  <2> QED
    BY <1>8, <2>1, <2>2, <2>3, CurrentOn
<1>9. InTimeNow(r) /\ z.visit = {} => Within(r, z, fields) /\ Formed(r, z, fields) /\ Rooted(r, z, fields)
  <2>1. Plan(z, z)
    BY DEF Plan
  <2> QED
    BY <1>1, <1>5, <1>7, <2>1
<1>10. CASE Goes(r, z) /\ z.visit # {}
  <2> SUFFICES ASSUME ~raced, ~z.late PROVE InTime(r, z, fields)
    BY <1>1, <1>10, GoesCalm
  <2>1. InTimeNow(r) /\ Plan(z, z)
    BY <1>1, <1>5 DEF InTimeNow, Plan
  <2>2. Within(r, z, fields) /\ Formed(r, z, fields)
    BY <1>1, <1>5, <1>7, <2>1
  <2> QED
    BY <1>1, <1>5, <1>8, <2>1, <2>2 DEF InTime
<1>11. CASE Goes(r, Sync(r, z, o.set.form, z.field, o.subs)) /\ z.visit = {}
  <2> DEFINE y == Sync(r, z, o.set.form, z.field, o.subs)
  <2>1. SameWork(z, y) /\ y.pc = "syncing" /\ y.late = z.late /\ y.made = z.made
    BY <1>5, SyncSame
  <2> SUFFICES ASSUME ~raced, ~y.late PROVE InTime(r, y, fields)
    BY <1>1, <1>11, GoesCalm
  <2>2. InTimeNow(r)
    BY <1>1, <1>5, <2>1 DEF InTimeNow
  <2>3. Within(r, z, fields) /\ Formed(r, z, fields) /\ Rooted(r, z, fields) /\ Base(r, z, fields)
    BY <1>1, <1>5, <1>8, <1>9, <1>11, <2>2
  <2> DEFINE view == Over(fields, z.tx, z.gone)
  <2>4. EdgesIn(r, z, fields, view)
    <3>1. Within(r, p, fields) /\ OnFields(p)
      BY <1>1, <1>3, <2>2, InTimeIs DEF InTime, OnFields
    <3>2. EdgesIn(r, p, fields, View(r)) /\ View(r) = view
      <4>1. View(r) = Over(fields, p.tx, p.gone)
        BY <1>1 DEF View
      <4> QED
        BY <1>1, <1>5, <2>2, <3>1, <4>1, WorkIs
    <3> HIDE DEF view
    <3> QED
      BY <1>5, <3>2 DEF EdgesIn, Plan, Target
  <2>5. o.set.form = To(r, z) /\ z.field \in Root(z)
    <3>1. p.seen.form # To(r, p) /\ FieldOK(p.seen)
      BY <1>1, <1>3, <2>2, InTimeIs DEF InTime, OnFields, Formed, AtWork
    <3>2. To(r, p) = o.set.form
      BY <1>3, <3>1 DEF To, Assign, FieldOK
    <3> QED
      BY <1>3, <1>5, <1>6, <3>2 DEF To, Root, Plan
  <2>6. z.field \in Plot(r, z, fields) /\ view[z.field].form = To(r, z)
    BY <2>3, <2>5 DEF Rooted
  <2>7. Within(r, y, fields) /\ Formed(r, y, fields)
    <3>1. z.stack \in Seq({z.stack[k] : k \in DOMAIN z.stack})
      BY <1>6 DEF StackOK
    <3>2. After(r, z, view, z.field) = To(r, z)
      BY <2>6 DEF After
    <3>3. view = Over(fields, z.tx, z.gone) /\ z.visit = {}
      BY <1>11
    <3> HIDE DEF view, o
    <3>4. ASSUME NEW form, form = o.set.form
          PROVE  /\ Within(r, Sync(r, z, form, z.field, o.subs), fields)
                 /\ Formed(r, Sync(r, z, form, z.field, o.subs), fields)
      BY <1>5, <2>3, <2>4, <2>5, <2>6, <3>1, <3>2, <3>3, <3>4, SyncWithin
    <3> QED
      BY <3>4
  <2>8. Current(r, y, fields) /\ Unwritten(y) /\ OnFields(y)
    <3>1. y.op = z.op /\ y.seen = z.seen /\ y.walked = z.walked
      BY <2>1 DEF SameWork, Plan
    <3> HIDE DEF y
    <3> QED
      BY <1>8, <2>1, <2>2, <3>1
  <2> QED
    BY <2>7, <2>8 DEF InTime
<1>12. CASE Goes(r, [z EXCEPT !.pc = "closing"]) /\ z.visit = {}
  <2> DEFINE y == [z EXCEPT !.pc = "closing"]
  <2>1. y.late = z.late /\ y.pc = "closing" /\ y.op = z.op /\ y.seen = z.seen /\ y.walked = z.walked
    BY <1>5 DEF Idle
  <2>2. InTimeNow(r) => Within(r, y, fields) /\ Formed(r, y, fields)
    <3> SUFFICES ASSUME InTimeNow(r) PROVE Within(r, y, fields) /\ Formed(r, y, fields)
      OBVIOUS
    <3>1. ASSUME NEW t, t = fields PROVE Within(r, y, t) /\ Formed(r, y, t)
      BY <1>5, <1>9, <1>12, <3>1, CloseWithin
    <3> QED
      BY <3>1
  <2> HIDE DEF y
  <2> SUFFICES ASSUME ~raced, ~y.late PROVE InTime(r, y, fields)
    BY <1>1, <1>12, GoesCalm DEF y
  <2>3. InTimeNow(r)
    BY <1>1, <1>5, <2>1 DEF InTimeNow
  <2> QED
    BY <1>8, <2>1, <2>2, <2>3 DEF InTime
<1> QED
  BY <1>4, <1>10, <1>11, <1>12

LEMMA FlushIs ==
    ASSUME IInv, NEW r \in Requests, Open(r), NEW ins, NEW ups, NEW del,
           IsFiniteSet(DOMAIN ins), DOMAIN ins \subseteq NewOf(r),
           Failure(r, ins, ups) = NULL, NEW p, HasFlushed(r, ins, ups, del, p),
           NEW new, new = Saved(r, ins, ups), NEW dead, dead = Below(new, del),
           NEW written, written = Written(r, ins, ups)
    PROVE  /\ FlushOf(fields, req[r], new, written, dead, p) /\ SavedIs(View(r), ins, ups, new, written)
           /\ IsFiniteSet(DOMAIN new)
<1> DEFINE q == req[r]
           view == View(r)
<1>1. /\ view = Over(fields, q.tx, q.gone) /\ DOMAIN view = (DOMAIN fields \ q.gone) \cup DOMAIN q.tx
      /\ IsFiniteSet(DOMAIN view)
  BY ViewIs
<1>2. Fits(r, q, fields, forms) /\ q.pc # "done"
  BY OpIs DEF Open
<1>3. DOMAIN ups \subseteq DOMAIN view /\ Sound(r, new, written)
  BY NullAssumption DEF Failure
<1>4. /\ DOMAIN new = DOMAIN view \cup DOMAIN ins
      /\ \A i \in DOMAIN new : new[i] = IF i \in DOMAIN ins THEN ins[i]
                                        ELSE IF i \in DOMAIN ups THEN Assign(view[i], ups[i]) ELSE view[i]
      /\ written = DOMAIN ins \cup (DOMAIN ups \cap DOMAIN view)
  BY DEF Saved, Written
<1>5. /\ p.tx = [i \in (DOMAIN q.tx \cup written) \ dead |-> new[i]] /\ p.gone = q.gone \cup (dead \cap DOMAIN fields)
  BY DEF HasFlushed
<1>6. IsFiniteSet(DOMAIN new)
  <2>1. IsFiniteSet(DOMAIN view \cup DOMAIN ins)
    BY <1>1, FS_Union
  <2> QED
    BY <1>4, <2>1
<1>7. dead \subseteq DOMAIN new /\ \A i \in DOMAIN new : new[i].parent \in dead => i \in dead
  BY <1>6, BelowIs
<1>8. \A i \in written : /\ new[i].parent \in DOMAIN new \cup {NULL}
                         /\ \A j \in DOMAIN new \ {i} : FormKey(new[j]) # FormKey(new[i])
  BY <1>3 DEF Sound
<1> HIDE DEF q, view
<1>9. written \cap q.gone = {}
  <2>1. q.gone \subseteq DOMAIN fields /\ DOMAIN q.tx \cap q.gone = {} /\ DOMAIN fields \cap NewOf(r) = {}
    BY <1>2 DEF Fits, FieldsFit
  <2> QED
    BY <1>1, <1>4, <2>1
<1>10. FlushOf(fields, q, new, written, dead, p)
  <2>1. \A i \in DOMAIN new \ written : new[i] = view[i]
    BY <1>3, <1>4
  <2>2. written \subseteq DOMAIN new /\ DOMAIN new = DOMAIN view \cup written
    BY <1>3, <1>4
  <2> QED
    BY <1>1, <1>5, <1>7, <1>8, <1>9, <2>1, <2>2 DEF FlushOf
<1>11. SavedIs(view, ins, ups, new, written)
  BY <1>3, <1>4 DEF SavedIs
<1> QED
  BY <1>6, <1>10, <1>11 DEF q, view

\* The rows that are moved are of the tree of an update, whose form is another.
LEMMA MovedForm ==
    ASSUME NEW r, NEW q, NEW t, Base(r, q, t), Within(r, q, t), Formed(r, q, t), NEW i \in q.moved,
           q.op.kind = "editField" => FieldOK(q.seen)
    PROVE  q.op.kind = "editField" /\ To(r, q) = q.op.set.form
<1> DEFINE view == Over(t, q.tx, q.gone)
<1>1. i \in DOMAIN view /\ view[i].form # To(r, q)
  BY DEF Formed
<1>2. i \in DOMAIN t /\ view[i].form = t[i].form
  BY <1>1 DEF Formed, Over
<1>3. i \in Plot(r, q, t) /\ i \notin NewOf(r) /\ OnFields(q)
  BY <1>2 DEF Within, Inner, Base
<1>4. CASE q.op.kind = "newField"
  BY <1>3, <1>4 DEF Plot
<1>5. CASE q.op.kind = "seed"
  <2>1. i \in {j \in DOMAIN t : t[j].form = To(r, q)}
    BY <1>3, <1>5 DEF Plot
  <2> QED
    BY <1>1, <1>2, <2>1
<1>6. CASE q.op.kind = "editField"
  <2> DEFINE f == q.op.field
  <2>1. i \in Below(t, {f})
    BY <1>3, <1>6 DEF Plot
  <2>2. f \in DOMAIN t /\ q.seen = t[f] /\ Wood(t)
    BY <1>6 DEF Base, Current
  <2>3. t[i].form = t[f].form
    <3> HIDE DEF f
    <3> QED
      BY <2>1, <2>2, TreeForm
  <2>4. q.seen.form # To(r, q)
    BY <1>1, <1>2, <2>2, <2>3
  <2> QED
    BY <1>6, <2>4 DEF To, Assign, FieldOK
<1> QED
  BY <1>3, <1>4, <1>5, <1>6 DEF OnFields

\* A flush that comes later, of rows of the tree.
LEMMA TreeFlush ==
    ASSUME IInv, Traced, Calm, NEW r \in Requests, Open(r), InTimeNow(r), NEW p, p = req[r], OnFields(p),
           p.pc \in {"syncing", "closing"},
           NEW ins, IsFiniteSet(DOMAIN ins), DOMAIN ins \subseteq NewOf(r), NEW view, view = View(r),
           DOMAIN ins \cap DOMAIN view = {}, \A i \in DOMAIN ins : Hangs(r, p, fields, view, i, ins[i]),
           NEW ups, Tends(r, p, fields, ups), Failure(r, ins, ups) = NULL,
           NEW z, HasFlushed(r, ins, ups, p.doomed, z), Plan(p, z), z.stack = p.stack, z.visit = {}, z.moved = {},
           z.doomed = {}, z.pc = p.pc
    PROVE  Within(r, z, fields) /\ Formed(r, z, fields)
<1> DEFINE new == Saved(r, ins, ups)
           dead == Below(new, p.doomed)
           written == Written(r, ins, ups)
<1>1. /\ Within(r, p, fields) /\ Formed(r, p, fields) /\ FieldsFit(p, fields) /\ AtWork(p) /\ p.op.kind # "newForm"
  BY InTimeIs DEF InTime, OnFields
<1>2. Base(r, p, fields) /\ EdgesIn(r, p, fields, view)
  BY <1>1, WorkIs
<1>3. new = Saved(r, ins, ups) /\ dead = Below(new, p.doomed) /\ written = Written(r, ins, ups)
  OBVIOUS
<1> HIDE DEF new, dead, written
<1>4. /\ FlushOf(fields, p, new, written, dead, z) /\ SavedIs(view, ins, ups, new, written) /\ IsFiniteSet(DOMAIN new)
  BY <1>3, FlushIs
<1>5. /\ view = Over(fields, p.tx, p.gone) /\ \A i \in DOMAIN view : FieldOK(view[i])
  BY ViewIs
<1>6. /\ DOMAIN ups \subseteq DOMAIN view /\ DOMAIN new = DOMAIN view \cup DOMAIN ins
      /\ written = DOMAIN ins \cup DOMAIN ups
      /\ \A i \in DOMAIN new : new[i] = IF i \in DOMAIN ins THEN ins[i]
                                        ELSE IF i \in DOMAIN ups THEN Assign(view[i], ups[i]) ELSE view[i]
  BY <1>4 DEF SavedIs
<1>7. /\ p.moved \subseteq DOMAIN ups /\ DOMAIN ups \subseteq Inner(r, p, fields)
      /\ \A i \in DOMAIN ups : "parent" \notin DOMAIN ups[i]
      /\ \A i \in p.moved : "form" \in DOMAIN ups[i] /\ ups[i].form = p.op.set.form
      /\ \A i \in DOMAIN ups \ p.moved : "form" \notin DOMAIN ups[i]
  BY DEF Tends
<1>8. \A i \in p.moved : p.op.set.form = To(r, p)
  <2>1. p.op.kind = "editField" => FieldOK(p.seen)
    BY <1>1 DEF AtWork
  <2>2. ASSUME NEW t, t = fields, NEW i \in p.moved PROVE To(r, p) = p.op.set.form
    BY <1>1, <1>2, <2>1, <2>2, MovedForm
  <2> QED
    BY <2>2
<1>9. ASSUME NEW i \in DOMAIN view PROVE new[i].parent = view[i].parent /\ new[i].form = After(r, p, view, i)
  <2>1. i \in DOMAIN new /\ i \notin DOMAIN ins /\ {"form", "parent"} \subseteq DOMAIN view[i]
    BY <1>5, <1>6 DEF FieldOK
  <2>2. CASE i \in DOMAIN ups
    <3>1. new[i] = Assign(view[i], ups[i])
      BY <1>6, <2>1, <2>2
    <3>2. /\ new[i].parent = view[i].parent
          /\ new[i].form = IF "form" \in DOMAIN ups[i] THEN ups[i].form ELSE view[i].form
      BY <1>7, <2>1, <2>2, <3>1 DEF Assign
    <3> QED
      BY <1>7, <1>8, <2>2, <3>2 DEF After
  <2>3. CASE i \notin DOMAIN ups
    BY <1>6, <1>7, <2>1, <2>3 DEF After
  <2> QED
    BY <2>2, <2>3
<1>10. \A i \in DOMAIN new \ DOMAIN view : Hangs(r, p, fields, view, i, new[i])
  BY <1>6
<1>11. EdgesIn(r, p, fields, new)
  <2>1. ASSUME NEW i \in DOMAIN new
        PROVE  \/ i \in DOMAIN fields /\ new[i].parent = fields[i].parent
               \/ p.op.kind = "editField" /\ i = p.op.field /\ new[i].parent = Target(p)
               \/ i \in NewOf(r) /\ (p.op.kind = "newField" /\ i = p.field => new[i].parent = p.op.parent)
    <3>1. CASE i \in DOMAIN view
      BY <1>2, <1>9, <3>1 DEF EdgesIn
    <3>2. CASE i \notin DOMAIN view
      <4>1. i \in NewOf(r) \ Root(p)
        BY <1>10, <3>2 DEF Hangs
      <4> QED
        BY <4>1 DEF Root
    <3> QED
      BY <3>1, <3>2
  <2> QED
    BY <2>1 DEF EdgesIn
<1>12. dead \subseteq Inner(r, p, fields) /\ written \subseteq Plot(r, p, fields)
  <2>1. p.doomed \subseteq Inner(r, p, fields)
    BY <1>1 DEF Within
  <2>2. ASSUME NEW t, t = fields, NEW v, v = new, NEW S, S = p.doomed PROVE Below(v, S) \subseteq Inner(r, p, t)
    BY <1>2, <1>4, <1>11, <2>1, <2>2, BelowStaysIn
  <2>3. dead \subseteq Inner(r, p, fields)
    BY <1>3, <2>2
  <2>4. NewOf(r) \subseteq Plot(r, p, fields) /\ Inner(r, p, fields) \subseteq Plot(r, p, fields)
    BY DEF Plot, Inner
  <2> QED
    BY <1>6, <1>7, <2>3, <2>4
<1>13. p.visit = {}
  BY <1>1 DEF Formed
<1>14. ASSUME NEW t, t = fields, NEW n, n = new, NEW d, d = dead, NEW w, w = written PROVE Within(r, z, t) /\ Formed(r, z, t)
  <2>1. FieldsFit(p, t) /\ Within(r, p, t) /\ Formed(r, p, t) /\ FlushOf(t, p, n, w, d, z)
    BY <1>1, <1>4, <1>14
  <2>2. w \subseteq Plot(r, p, t) /\ d \subseteq Inner(r, p, t) /\ view = Over(t, p.tx, p.gone)
    BY <1>5, <1>12, <1>14
  <2>3. /\ \A i \in DOMAIN view : n[i].parent = view[i].parent /\ n[i].form = After(r, p, view, i)
        /\ \A i \in DOMAIN n \ DOMAIN view : Hangs(r, p, t, view, i, n[i])
    BY <1>9, <1>10, <1>14
  <2>4. p.pc \notin {"walking", "flushing"} /\ z.pc # "moving"
    OBVIOUS
  <2> QED
    BY <1>13, <2>1, <2>2, <2>3, <2>4, FlushWithin
<1> QED
  BY <1>14

LEMMA PendingTends ==
    ASSUME NEW r, NEW p, p = req[r], NEW t, Within(r, p, t)
    PROVE  Tends(r, p, t, Pending(r))
<1>1. DOMAIN Pending(r) = p.moved /\ \A i \in p.moved : Pending(r)[i] = [form |-> p.op.set.form]
  BY DEF Pending
<1>2. p.moved \subseteq Inner(r, p, t)
  BY DEF Within
<1> QED
  BY <1>1, <1>2 DEF Tends

LEMMA NewIdIs ==
    ASSUME IInv, Traced, Calm, NEW r \in Requests, Open(r), InTimeNow(r)
    PROVE  NewId(r) \in NewOf(r) /\ NewId(r) \notin DOMAIN View(r)
<1> DEFINE p == req[r]
           n == NewId(r)
<1>1. /\ DOMAIN fields \cap NewOf(r) = {} /\ Traces(r, p, fields, Live) /\ ReqOK(p)
  BY InTimeIs
<1>2. DOMAIN View(r) = (DOMAIN fields \ p.gone) \cup DOMAIN p.tx
  BY ViewIs
<1>3. p.made \in Nat /\ n = <<r, p.made + 1>>
  BY <1>1 DEF ReqOK, NewId
<1> HIDE DEF p
<1>4. n \in NewOf(r) /\ n[2] = p.made + 1
  BY <1>3 DEF NewOf
<1>5. \A i \in DOMAIN p.tx \ DOMAIN fields : Older(r, i, p.made + 1)
  BY <1>1 DEF Traces, Edges
<1> HIDE DEF n
<1>6. n \notin DOMAIN p.tx
  <2> SUFFICES ASSUME n \in DOMAIN p.tx PROVE FALSE
    OBVIOUS
  <2>1. Older(r, n, p.made + 1)
    BY <1>1, <1>4, <1>5
  <2>2. p.made + 1 < p.made + 1
    BY <1>4, <2>1 DEF Older
  <2> QED
    BY <1>3, <2>2
<1> QED
  BY <1>1, <1>2, <1>4, <1>6 DEF n

\* A node that is flushed, and its row.
LEMMA NodeIn ==
    ASSUME IInv, Traced, Calm, NEW r \in Requests, Open(r), InTimeNow(r), NEW p, p = req[r], OnFields(p),
           p.pc = "syncing", NEW top, 1 \in DOMAIN p.stack, top = p.stack[1],
           NEW id, NEW ins, NEW ups, NodeWrites(r, top, id, ins, ups), Failure(r, ins, ups) = NULL,
           NEW z, HasFlushed(r, ins, ups, p.doomed, z), Plan(p, z), z.stack = p.stack, z.visit = {}, z.moved = {},
           z.doomed = {}, z.pc = p.pc
    PROVE  /\ Within(r, z, fields) /\ Formed(r, z, fields) /\ Rooted(r, z, fields) /\ id \in Plot(r, z, fields)
           /\ id \in DOMAIN Over(fields, z.tx, z.gone) => Over(fields, z.tx, z.gone)[id].form = To(r, z)
<1> DEFINE view == View(r)
           plot == Plot(r, p, fields)
           inner == Inner(r, p, fields)
           to == To(r, p)
<1>1. /\ Within(r, p, fields) /\ Formed(r, p, fields) /\ DOMAIN fields \cap NewOf(r) = {}
  BY InTimeIs DEF InTime
<1>2. view = Over(fields, p.tx, p.gone)
  BY DEF View
<1>3. FrameIn(r, p, fields, top)
  <2>1. ASSUME NEW t, t = fields PROVE \A k \in DOMAIN p.stack : FrameIn(r, p, t, p.stack[k])
    BY <1>1, <2>1, FramesIn
  <2> QED
    BY <2>1
<1>4. /\ DOMAIN top.existing \subseteq inner
      /\ top.parent \in plot \/ (p.op.kind = "seed" /\ top.parent = NULL)
      /\ top.form = to
      /\ top.parent \in DOMAIN view => After(r, p, view, top.parent) = to
      /\ \A i \in DOMAIN top.existing \cap DOMAIN view : view[i].form = to
  BY <1>2, <1>3 DEF FrameIn
<1>5. NewId(r) \in NewOf(r) /\ NewId(r) \notin DOMAIN view
  BY NewIdIs
<1>6. NewId(r) \notin Root(p) /\ NewOf(r) \subseteq plot /\ inner \subseteq plot
  <2>1. Root(p) \subseteq DOMAIN view
    BY <1>1, <1>2 DEF Formed
  <2> QED
    BY <1>5, <2>1 DEF Plot, Inner
<1>7. id \in plot
  BY <1>4, <1>5, <1>6 DEF NodeWrites
<1>8. IsFiniteSet(DOMAIN ins) /\ DOMAIN ins \subseteq NewOf(r) /\ DOMAIN ins \cap DOMAIN view = {}
  <2>1. DOMAIN ins = {} \/ DOMAIN ins = {NewId(r)}
    BY NothingIs DEF NodeWrites
  <2>2. IsFiniteSet({NewId(r)}) /\ IsFiniteSet({})
    BY FS_Singleton, FS_EmptySet
  <2> QED
    BY <1>5, <2>1, <2>2
<1>9. \A i \in p.moved : view[i].form # to
  BY <1>1, <1>2 DEF Formed
<1> HIDE DEF view, plot, inner, to
<1>10. \A i \in DOMAIN ins : Hangs(r, p, fields, view, i, ins[i])
  <2> SUFFICES ASSUME NEW i \in DOMAIN ins PROVE Hangs(r, p, fields, view, i, ins[i])
    OBVIOUS
  <2>1. i = NewId(r) /\ ins[i].form = top.form /\ ins[i].parent = top.parent
    BY NothingIs DEF NodeWrites
  <2> QED
    BY <1>4, <1>5, <1>6, <2>1 DEF Hangs, plot, to
<1>11. Tends(r, p, fields, ups)
  <2>1. ASSUME NEW t, t = fields PROVE Tends(r, p, t, Pending(r))
    BY <1>1, <2>1, PendingTends
  <2>2. CASE ups = Pending(r)
    BY <2>1, <2>2
  <2>3. CASE ups # Pending(r)
    <3>1. PICK label : ups = Put(Pending(r), id, [label |-> label])
      BY <2>3 DEF NodeWrites
    <3>2. id \in DOMAIN top.existing
      BY <2>3 DEF NodeWrites
    <3>3. id \in DOMAIN ups /\ DOMAIN ups \subseteq DOMAIN view
      BY <3>1, NullAssumption DEF Failure, Put, view
    <3>4. id \notin p.moved
      BY <1>4, <1>9, <3>2, <3>3
    <3>5. DOMAIN ups = DOMAIN Pending(r) \cup {id} /\ ups[id] = [label |-> label]
          /\ \A i \in DOMAIN Pending(r) \ {id} : ups[i] = Pending(r)[i]
      BY <3>1 DEF Put
    <3>6. DOMAIN ups[id] = {"label"}
      BY <3>5
    <3> QED
      BY <1>4, <2>1, <3>2, <3>4, <3>5, <3>6 DEF Tends, inner
  <2> QED
    BY <2>2, <2>3
<1>12. Within(r, z, fields) /\ Formed(r, z, fields)
  <2>1. p.pc \in {"syncing", "closing"} /\ view = View(r)
    BY DEF view
  <2> QED
    BY <1>8, <1>10, <1>11, <2>1, TreeFlush
<1> DEFINE now == Over(fields, z.tx, z.gone)
<1>13. Rooted(r, z, fields) /\ \A i \in DOMAIN top.existing \cap DOMAIN now : now[i].form = To(r, z)
  <2>1. z.pc \notin {"walking", "flushing"}
    OBVIOUS
  <2> QED
    BY <1>12, <2>1 DEF Formed, Rooted
<1>14. To(r, z) = to /\ Plot(r, z, fields) = plot
  BY SamePlan DEF plot, to
<1>15. id \in DOMAIN now => now[id].form = To(r, z)
  <2>1. CASE id \in DOMAIN top.existing
    BY <1>13, <2>1
  <2>2. CASE id = NewId(r) /\ DOMAIN ins = {id} /\ ins[id].form = top.form
    <3> SUFFICES ASSUME id \in DOMAIN now PROVE now[id].form = To(r, z)
      OBVIOUS
    <3>1. id \in DOMAIN z.tx /\ now[id] = z.tx[id]
      BY <1>1, <1>5, <2>2 DEF Over
    <3>2. z.tx[id] = Saved(r, ins, ups)[id]
      BY <3>1 DEF HasFlushed
    <3>3. Saved(r, ins, ups)[id] = ins[id]
      BY <2>2 DEF Saved
    <3> QED
      BY <1>4, <1>14, <2>2, <3>1, <3>2, <3>3
  <2> QED
    BY <2>1, <2>2 DEF NodeWrites
<1> QED
  BY <1>7, <1>12, <1>13, <1>14, <1>15

LEMMA SyncNodeCalm ==
    ASSUME IInv, IInv', Traced, Traced', Calm, NEW r \in Requests, SyncNode(r)
    PROVE  Calm'
<1> DEFINE p    == req[r]
           top  == Head(p.stack)
           node == Head(top.rest)
           same == {i \in DOMAIN top.existing : top.existing[i].key = node.key}
           id   == IF same = {} THEN NewId(r) ELSE CHOOSE i \in same : TRUE
           ins  == IF same = {} THEN [i \in {id} |-> NodeRow(node, top.form, top.parent)] ELSE Nothing
           ups  == IF same = {} \/ Known(r, top, id) = node.label THEN Pending(r)
                   ELSE Put(Pending(r), id, [label |-> node.label])
           f    == Flushed(p, r, ins, ups, p.doomed)
           q    == [f EXCEPT !.stack[1].rest = Tail(@)]
<1>1. p.pc = "syncing" /\ Open(r) /\ calm' = calm /\ p = req[r]
  BY DEF SyncNode, Open
<1>2. Goes(r, IF Failure(r, ins, ups) # NULL THEN Refused(Failure(r, ins, ups), FALSE)
              ELSE Sync(r, q, top.form, id, node.subs))
  BY DEF SyncNode, Goes
<1>3. ReqOK(p) /\ StackOK(p)
  BY <1>1, OpIs
<1>4. CASE Failure(r, ins, ups) # NULL
  <2> HIDE DEF ins, ups
  <2>1. Goes(r, Done(500))
    BY <1>2, <1>4 DEF Refused
  <2> QED
    BY <1>1, <2>1, DoneCalm
<1>5. CASE Failure(r, ins, ups) = NULL
  <2>1. /\ p.stack # <<>> /\ DOMAIN p = DOMAIN Idle /\ p.made \in Nat /\ p.visit = {}
    BY <1>1, <1>3 DEF ReqOK
  <2> DEFINE T == {p.stack[k] : k \in DOMAIN p.stack}
  <2>2. p.stack \in Seq(T)
    BY <1>3 DEF StackOK
  <2> HIDE DEF T
  <2>3. top = p.stack[1] /\ top \in T /\ 1 \in DOMAIN p.stack
    BY <2>1, <2>2
  <2> HIDE DEF p, top, node
  <2>4. NodeWrites(r, top, id, ins, ups)
    <3>1. CASE same = {}
      <4> DEFINE row == NodeRow(node, top.form, top.parent)
      <4>1. id = NewId(r) /\ row.form = top.form /\ row.parent = top.parent
        BY <3>1 DEF NodeRow
      <4>2. ups = Pending(r)
        BY <3>1
      <4> HIDE DEF id, row
      <4>3. DOMAIN ins = {id} /\ ins[id] = row
        BY <3>1 DEF row
      <4> HIDE DEF ins, ups
      <4> QED
        BY <4>1, <4>2, <4>3 DEF NodeWrites
    <3>2. CASE same # {}
      <4>1. ins = Nothing /\ id \in DOMAIN top.existing
        BY <3>2
      <4> HIDE DEF ins, id, same
      <4> QED
        BY <4>1 DEF NodeWrites
    <3> QED
      BY <3>1, <3>2
  <2>5. IsFiniteSet(DOMAIN ins)
    <3>1. DOMAIN ins = {} \/ DOMAIN ins = {id}
      <4> HIDE DEF ins, id
      <4> QED
        BY <2>4, NothingIs DEF NodeWrites
    <3> HIDE DEF ins, id
    <3> QED
      BY <3>1, FS_Singleton, FS_EmptySet
  <2> HIDE DEF ins, id, ups, same
  <2>6. /\ DOMAIN f = DOMAIN Idle /\ f.pc = p.pc /\ f.op = p.op /\ f.seen = p.seen /\ f.code = p.code
        /\ f.made \in Nat /\ f.doomed = {} /\ f.moved = {} /\ f.visit = p.visit /\ f.up = p.up
        /\ f.stack = p.stack /\ HasFlushed(r, ins, ups, p.doomed, f)
    <3>1. ReqOK(req[r])
      BY <1>1, <1>3
    <3> QED
      BY <2>5, <3>1, FlushedIs DEF p
  <2>7. f.walked = p.walked /\ f.field = p.field /\ f.made = p.made + Cardinality(DOMAIN ins)
    <3>1. ReqOK(req[r])
      BY <1>1, <1>3
    <3> QED
      BY <3>1, FlushedAlso DEF p
  <2>8. f.late = p.late
    <3>1. ReqOK(req[r])
      BY <1>1, <1>3
    <3> QED
      BY <3>1, FlushedLate DEF p
  <2> HIDE DEF f
  <2> DEFINE top2 == [top EXCEPT !.rest = Tail(top.rest)]
             stack == [p.stack EXCEPT ![1] = top2]
  <2>9. /\ DOMAIN q = DOMAIN Idle /\ q.pc = p.pc /\ q.made = f.made /\ q.stack = stack /\ SameWork(f, q) /\ q.late = p.late
        /\ q.visit = {} /\ q.op = p.op /\ q.seen = p.seen /\ q.walked = p.walked /\ Plan(p, f) /\ Plan(p, q)
    BY <1>1, <2>1, <2>3, <2>6, <2>7, <2>8 DEF Idle, SameWork, Plan
  <2> HIDE DEF q
  <2> DEFINE z == Sync(r, q, top.form, id, node.subs)
  <2>10. SameWork(q, z) /\ z.pc = "syncing" /\ z.late = q.late /\ z.made = q.made
    BY <2>9, SyncSame
  <2>11. Goes(r, z)
    BY <1>2, <1>5
  <2> HIDE DEF z
  <2> SUFFICES ASSUME ~raced, ~z.late PROVE InTime(r, z, fields)
    BY <1>1, <2>11, GoesCalm
  <2>12. InTimeNow(r)
    BY <1>1, <2>9, <2>10 DEF InTimeNow
  <2>13. /\ Current(r, p, fields) /\ OnFields(p) /\ Within(r, p, fields) /\ Formed(r, p, fields)
    <3>1. InTime(r, p, fields)
      BY <1>1, <2>12, InTimeIs
    <3>2. OnFields(p)
      <4> SUFFICES ASSUME ~OnFields(p) PROVE FALSE
        OBVIOUS
      <4>1. p.stack = <<>>
        BY <3>1 DEF InTime, Unwritten
      <4> QED
        BY <2>1, <4>1
    <3> QED
      BY <3>1, <3>2 DEF InTime
  <2>14. Base(r, p, fields)
    BY <1>1, <2>12, <2>13, WorkIs
  <2>15. /\ Within(r, f, fields) /\ Formed(r, f, fields) /\ Rooted(r, f, fields) /\ id \in Plot(r, f, fields)
         /\ id \in DOMAIN Over(fields, f.tx, f.gone) => Over(fields, f.tx, f.gone)[id].form = To(r, f)
    <3>1. Plan(p, f) /\ f.stack = p.stack /\ f.visit = {} /\ f.moved = {} /\ f.doomed = {} /\ f.pc = p.pc
      BY <2>1, <2>6, <2>9
    <3> QED
      BY <1>1, <1>5, <2>3, <2>4, <2>6, <2>12, <2>13, <3>1, NodeIn
  <2>16. /\ To(r, q) = To(r, f) /\ Plot(r, q, fields) = Plot(r, f, fields)
         /\ Root(q) = Root(f) /\ Inner(r, q, fields) = Inner(r, f, fields)
    <3>1. Plan(f, q)
      BY <2>9 DEF SameWork
    <3> QED
      BY <3>1, SamePlan
  <2> DEFINE view == Over(fields, f.tx, f.gone)
  <2>17. view = Over(fields, q.tx, q.gone)
    BY <2>9 DEF SameWork
  <2>18. Within(r, q, fields) /\ Formed(r, q, fields)
    <3>1. \A k \in DOMAIN f.stack : FrameIn(r, f, fields, f.stack[k])
      <4>1. ASSUME NEW t, t = fields PROVE \A k \in DOMAIN f.stack : FrameIn(r, f, t, f.stack[k])
        BY <2>15, <4>1, FramesIn
      <4> QED
        BY <4>1
    <3>2. /\ {"form", "parent", "existing"} \subseteq DOMAIN top
          => top2.form = top.form /\ top2.parent = top.parent /\ top2.existing = top.existing
      OBVIOUS
    <3>3. FrameIn(r, f, fields, top) => FrameIn(r, f, fields, top2)
      <4>1. top2.form = top.form /\ top2.parent = top.parent /\ top2.existing = top.existing
        OBVIOUS
      <4> HIDE DEF top2
      <4> QED
        BY <4>1 DEF FrameIn
    <3> HIDE DEF top2
    <3>4. \A k \in DOMAIN stack : k \in DOMAIN f.stack /\ (stack[k] = top2 \/ stack[k] = f.stack[k])
      BY <2>2, <2>3, <2>6
    <3> HIDE DEF stack
    <3>5. \A k \in DOMAIN q.stack : FrameIn(r, f, fields, q.stack[k])
      BY <2>3, <2>6, <2>9, <3>1, <3>3, <3>4
    <3>6. Settles(q)
      BY <1>1, <2>9 DEF Settles
    <3>7. ASSUME NEW t, t = fields PROVE Within(r, q, t) /\ Formed(r, q, t)
      BY <2>9, <2>15, <3>5, <3>6, <3>7, StageOn
    <3> QED
      BY <3>7
  <2>19. Rooted(r, q, fields) /\ id \in Plot(r, q, fields)
    BY <2>15, <2>16, <2>17 DEF Rooted
  <2>20. Current(r, q, fields) /\ OnFields(q) /\ Base(r, q, fields)
    BY <2>9, <2>13, <2>14, CurrentOn
  <2>21. Current(r, z, fields) /\ OnFields(z) /\ Unwritten(z)
    <3>1. z.op = q.op /\ z.seen = q.seen /\ z.walked = q.walked
      BY <2>10 DEF SameWork, Plan
    <3> QED
      BY <2>10, <2>20, <3>1, CurrentOn
  <2>22. EdgesIn(r, q, fields, view)
    <3>1. Edges(r, z, fields) /\ DOMAIN z.tx \subseteq DOMAIN fields \cup NewOf(r)
      BY <2>10, <2>11, OnwardIs
    <3>2. Edges(r, q, fields) /\ DOMAIN q.tx \subseteq DOMAIN fields \cup NewOf(r)
      BY <2>10, <3>1 DEF Edges, SameWork, Plan, Target
    <3>3. DOMAIN fields \cap NewOf(r) = {}
      BY <1>1, <2>12, InTimeIs
    <3>4. ASSUME NEW t, t = fields PROVE EdgesIn(r, q, t, Over(t, q.tx, q.gone))
      BY <2>18, <3>2, <3>3, <3>4, ViewEdges
    <3> QED
      BY <2>17, <3>4
  <2>23. id \in DOMAIN view => After(r, q, view, id) = To(r, q)
    <3>1. q.moved = {}
      BY <2>6, <2>9 DEF SameWork
    <3> QED
      BY <2>15, <2>16, <3>1 DEF After
  <2>24. top.form = To(r, q)
    <3>1. p.stack[1].form = To(r, p)
      BY <2>3, <2>13 DEF Formed
    <3>2. To(r, q) = To(r, p)
      BY <2>9, SamePlan
    <3> QED
      BY <2>3, <3>1, <3>2
  <2>25. q.stack \in Seq(T \cup {top2})
    <3> HIDE DEF top2
    <3>1. stack \in Seq(T \cup {top2})
      BY <2>2, <2>3
    <3> HIDE DEF stack
    <3> QED
      BY <2>9, <3>1
  <2> HIDE DEF view
  <2>26. Within(r, z, fields) /\ Formed(r, z, fields)
    <3>1. ASSUME NEW form, form = top.form, NEW nodes, nodes = node.subs
          PROVE  Within(r, Sync(r, q, form, id, nodes), fields) /\ Formed(r, Sync(r, q, form, id, nodes), fields)
      BY <2>9, <2>17, <2>18, <2>19, <2>20, <2>22, <2>23, <2>24, <2>25, <3>1, SyncWithin
    <3> QED
      BY <3>1 DEF z
  <2> QED
    BY <2>21, <2>26 DEF InTime
<1> QED
  BY <1>4, <1>5

LEMMA SyncEndCalm ==
    ASSUME IInv, IInv', Traced, Traced', Calm, NEW r \in Requests, SyncEnd(r)
    PROVE  Calm'
<1> DEFINE p == req[r]
           top == Head(p.stack)
           obsolete == {i \in DOMAIN top.existing : top.existing[i].key \notin top.expected}
           pc == IF Len(p.stack) = 1 THEN "closing" ELSE "syncing"
           rest == Tail(p.stack)
           doomed == p.doomed \cup Below(View(r), obsolete)
           q == [p EXCEPT !.pc = pc, !.stack = rest, !.doomed = doomed]
<1>1. p.pc = "syncing" /\ Open(r) /\ p = req[r] /\ calm' = calm
  BY DEF SyncEnd, Open
<1>2. ReqOK(p) /\ StackOK(p)
  BY <1>1, OpIs
<1>3. DOMAIN req = Requests /\ DOMAIN p = DOMAIN Idle /\ p.stack # <<>>
  BY <1>1, <1>2 DEF IInv, TypeOK, ReqOK
<1>4. Goes(r, q)
  BY <1>3 DEF SyncEnd, Goes, Idle
<1>5. pc \in {"closing", "syncing"} /\ obsolete \subseteq DOMAIN top.existing
  OBVIOUS
<1> DEFINE T == {p.stack[k] : k \in DOMAIN p.stack}
<1>6. p.stack \in Seq(T)
  BY <1>2 DEF StackOK
<1> HIDE DEF T, p, obsolete
<1>7. top = p.stack[1] /\ 1 \in DOMAIN p.stack
      /\ \A k \in DOMAIN rest : \E l \in DOMAIN p.stack : rest[k] = p.stack[l]
  <2>1. /\ Len(p.stack) \in Nat \ {0} /\ DOMAIN p.stack = 1..Len(p.stack)
        /\ DOMAIN rest = 1..(Len(p.stack) - 1) /\ \A k \in DOMAIN rest : rest[k] = p.stack[k+1]
    BY <1>3, <1>6
  <2>2. \A k \in DOMAIN rest : k + 1 \in DOMAIN p.stack
    BY <2>1
  <2> HIDE DEF rest
  <2> QED
    BY <1>3, <1>6, <2>1, <2>2
<1> HIDE DEF rest, pc, top
<1>8. /\ q.pc = pc /\ q.stack = rest /\ q.doomed = doomed /\ Plan(p, q) /\ q.late = p.late
      /\ q.tx = p.tx /\ q.gone = p.gone /\ q.moved = p.moved /\ q.visit = p.visit
  BY <1>3 DEF Idle, Plan
<1> HIDE DEF q
<1> SUFFICES ASSUME ~raced, ~q.late PROVE InTime(r, q, fields)
  BY <1>1, <1>4, GoesCalm
<1>9. InTimeNow(r)
  BY <1>1, <1>8 DEF InTimeNow
<1>10. Current(r, p, fields) /\ OnFields(p) /\ Within(r, p, fields) /\ Formed(r, p, fields)
  <2>1. InTime(r, p, fields)
    BY <1>1, <1>9, InTimeIs
  <2>2. OnFields(p)
    <3> SUFFICES ASSUME ~OnFields(p) PROVE FALSE
      OBVIOUS
    <3>1. p.stack = <<>>
      BY <2>1 DEF InTime, Unwritten
    <3> QED
      BY <1>3, <3>1
  <2> QED
    BY <2>1, <2>2 DEF InTime
<1>11. Base(r, p, fields) /\ EdgesIn(r, p, fields, View(r)) /\ IsFiniteSet(DOMAIN View(r))
  BY <1>1, <1>9, <1>10, WorkIs
<1>12. Current(r, q, fields) /\ OnFields(q) /\ Unwritten(q)
  <2>1. q.op = p.op /\ q.seen = p.seen /\ q.walked = p.walked /\ q.pc \notin {"walking", "flushing"}
    BY <1>5, <1>8 DEF Plan
  <2> QED
    BY <1>10, <2>1, CurrentOn
<1>13. doomed \subseteq Inner(r, p, fields)
  <2>1. obsolete \subseteq Inner(r, p, fields) /\ p.doomed \subseteq Inner(r, p, fields)
    BY <1>5, <1>7, <1>10 DEF Within
  <2>2. ASSUME NEW t, t = fields, NEW v, v = View(r), NEW S, S = obsolete PROVE Below(v, S) \subseteq Inner(r, p, t)
    BY <1>11, <2>1, <2>2, BelowStaysIn
  <2> QED
    BY <2>1, <2>2
<1> HIDE DEF doomed
\* A request that is p but for what it will delete.
<1> DEFINE y == [p EXCEPT !.doomed = doomed]
<1>14. /\ SameWork(y, q) /\ y.doomed = doomed /\ y.stack = p.stack /\ y.pc = "syncing" /\ Plan(p, y)
       /\ y.tx = p.tx /\ y.gone = p.gone /\ y.moved = p.moved /\ y.visit = p.visit
  BY <1>1, <1>3, <1>8 DEF Idle, SameWork, Plan
<1> HIDE DEF y
<1>15. /\ To(r, y) = To(r, p) /\ Root(y) = Root(p) /\ Plot(r, y, fields) = Plot(r, p, fields)
       /\ Inner(r, y, fields) = Inner(r, p, fields) /\ y.op = p.op /\ y.seen = p.seen
  BY <1>14, SamePlan DEF Plan
<1>16. Within(r, y, fields)
  <2>1. p.gone \cup p.moved \subseteq Inner(r, p, fields)
    BY <1>10 DEF Within
  <2> QED
    BY <1>10, <1>13, <1>14, <1>15, <2>1 DEF Within
<1>17. Formed(r, y, fields)
  <2>1. ASSUME NEW v PROVE \A i : After(r, y, v, i) = After(r, p, v, i)
    BY <1>14, <1>15 DEF After
  <2> QED
    BY <1>1, <1>10, <1>14, <1>15, <2>1 DEF Formed
<1>18. Rooted(r, y, fields) /\ y.visit = {}
  <2>1. p.visit = {} /\ y.pc \notin {"walking", "flushing"}
    BY <1>1, <1>2, <1>14 DEF ReqOK
  <2> QED
    BY <1>14, <1>17, <2>1 DEF Formed, Rooted
<1>19. \A k \in DOMAIN q.stack : FrameIn(r, y, fields, q.stack[k])
  <2>1. ASSUME NEW t, t = fields PROVE \A k \in DOMAIN y.stack : FrameIn(r, y, t, y.stack[k])
    BY <1>16, <1>17, <2>1, FramesIn
  <2>2. \A k \in DOMAIN y.stack : FrameIn(r, y, fields, y.stack[k])
    BY <2>1
  <2> QED
    BY <1>7, <1>8, <1>14, <2>2
<1>20. Settles(q)
  BY <1>5, <1>8, <1>14, <1>18 DEF Settles
<1>21. ASSUME NEW t, t = fields PROVE Within(r, q, t) /\ Formed(r, q, t)
  BY <1>14, <1>16, <1>17, <1>18, <1>19, <1>20, <1>21, StageOn
<1> QED
  BY <1>12, <1>21 DEF InTime

(***************************************************************************)
(* What a commit makes of the book.                                        *)
(***************************************************************************)

LEMMA SettlingIs ==
    ASSUME NEW r, NEW q, NEW t, NEW u, Settling(r, q, t, u)
    PROVE  /\ DOMAIN u = (DOMAIN t \ q.gone) \cup DOMAIN q.tx
           /\ \A i \in DOMAIN u : u[i] = IF i \in DOMAIN q.tx THEN q.tx[i] ELSE t[i]
           /\ u = [i \in DOMAIN u |-> u[i]]
           /\ DOMAIN q.tx \subseteq Plot(r, q, t) /\ q.gone \subseteq Inner(r, q, t) \cap DOMAIN t
           /\ \A i \in Root(q) : i \in DOMAIN u \cap Plot(r, q, t)
           /\ Wood(t) /\ DOMAIN t \cap NewOf(r) = {} /\ NULL \notin NewOf(r)
<1>1. /\ DOMAIN u = (DOMAIN t \ q.gone) \cup DOMAIN q.tx
      /\ \A i \in DOMAIN u : u[i] = IF i \in DOMAIN q.tx THEN q.tx[i] ELSE t[i]
      /\ u = [i \in DOMAIN u |-> u[i]]
  BY DEF Settling, Over
<1>2. DOMAIN q.tx \subseteq Plot(r, q, t) /\ q.gone \subseteq Inner(r, q, t) \cap DOMAIN t
  BY DEF Settling, Within, FieldsFit
<1>3. \A i \in Root(q) : i \in DOMAIN u \cap Plot(r, q, t)
  BY DEF Settling, Formed
<1> QED
  BY <1>1, <1>2, <1>3 DEF Settling, Base

\* The tree of the root is what the request may write.
LEMMA PlotBelow ==
    ASSUME NEW r, NEW q, NEW t, NEW u, Settling(r, q, t, u), NEW f, Root(q) = {f}
    PROVE  Below(u, {f}) \subseteq Plot(r, q, t) /\ Plot(r, q, t) \cap DOMAIN u \subseteq Below(u, {f})
<1> DEFINE plot == Plot(r, q, t)
           B == Below(u, {f})
           D == (plot \cap DOMAIN u) \ B
<1>1. f \in DOMAIN u \cap plot /\ Wood(u) /\ Wood(t) /\ Base(r, q, t) /\ EdgesIn(r, q, t, u)
  <2>1. \A i \in Root(q) : i \in DOMAIN u \cap Plot(r, q, t)
    BY SettlingIs
  <2> QED
    BY <2>1 DEF Settling, Base
<1>2. B \subseteq DOMAIN u /\ f \in B /\ \A i \in DOMAIN u : u[i].parent \in B => i \in B
  <2>1. IsFiniteSet(DOMAIN u)
    BY <1>1 DEF Wood
  <2> QED
    BY <1>1, <2>1, BelowIs
<1>3. \A i \in DOMAIN u : u[i].parent \in plot => i \in plot
  <2>1. \A i \in DOMAIN u : u[i].parent \in plot => i \in Inner(r, q, t)
    BY <1>1, PlotCloses
  <2> QED
    BY <2>1 DEF Inner
<1>4. B \subseteq plot
  <2>1. IsFiniteSet(DOMAIN u) /\ {f} \cap DOMAIN u \subseteq plot
    BY <1>1 DEF Wood
  <2> HIDE DEF plot
  <2> QED
    BY <1>3, <2>1, BelowLeast
<1>5. q.op.kind \in {"editField", "newField"}
  BY DEF Root
<1>6. ASSUME NEW i \in D PROVE u[i].parent \in plot /\ u[i].parent # NULL
  <2>1. i # f
    BY <1>2
  <2>2. CASE i \in DOMAIN t
    <3>1. q.op.kind = "editField" /\ f = q.op.field /\ i \in Below(t, {f}) /\ f \in DOMAIN t
      <4>1. i \notin NewOf(r)
        BY <2>2, SettlingIs
      <4>2. q.op.kind = "editField"
        BY <1>5, <2>2, <4>1 DEF Plot
      <4> QED
        BY <1>1, <4>1, <4>2 DEF Plot, Root, Base, Current
    <3>2. \A j \in Below(t, {f}) \ {f} : t[j].parent \in Below(t, {f})
      BY <1>1, <3>1, TreeIs
    <3>3. u[i].parent = t[i].parent
      <4>1. i \notin NewOf(r)
        BY <2>2, SettlingIs
      <4> QED
        BY <1>1, <2>1, <3>1, <4>1 DEF EdgesIn
    <3>4. Below(t, {f}) \subseteq plot /\ Below(t, {f}) \subseteq DOMAIN t
      <4>1. Below(t, {f}) \subseteq plot
        BY <3>1 DEF Plot
      <4> QED
        BY <1>1, <3>1, <4>1, TreeIs
    <3> QED
      BY <1>1, <2>1, <3>1, <3>2, <3>3, <3>4 DEF Wood
  <2>3. CASE i \notin DOMAIN t
    <3>1. i \in DOMAIN q.tx \ DOMAIN t /\ u[i] = q.tx[i] /\ i \notin Root(q)
      <4>1. /\ DOMAIN u = (DOMAIN t \ q.gone) \cup DOMAIN q.tx
            /\ \A j \in DOMAIN u : u[j] = IF j \in DOMAIN q.tx THEN q.tx[j] ELSE t[j]
            /\ u = [j \in DOMAIN u |-> u[j]]
            /\ DOMAIN q.tx \subseteq Plot(r, q, t) /\ q.gone \subseteq Inner(r, q, t) \cap DOMAIN t
            /\ \A j \in Root(q) : j \in DOMAIN u \cap Plot(r, q, t)
            /\ Wood(t) /\ DOMAIN t \cap NewOf(r) = {} /\ NULL \notin NewOf(r)
        BY SettlingIs
      <4> QED
        BY <2>1, <2>3, <4>1
    <3>2. u[i].parent \in plot
      BY <1>5, <3>1 DEF Within, Settling
    <3>3. NULL \notin plot
      <4>1. NULL \notin DOMAIN t /\ NULL \notin NewOf(r)
        BY <1>1 DEF Wood, Base
      <4>2. q.op.kind = "editField" => Below(t, {q.op.field}) \subseteq DOMAIN t
        <5> SUFFICES ASSUME q.op.kind = "editField" PROVE Below(t, {q.op.field}) \subseteq DOMAIN t
          OBVIOUS
        <5>1. q.op.field \in DOMAIN t
          BY <1>1 DEF Base, Current
        <5> DEFINE e == q.op.field
        <5> HIDE DEF e
        <5> QED
          BY <1>1, <5>1, TreeIs DEF e
      <4> QED
        BY <1>5, <4>1, <4>2 DEF Plot
    <3> QED
      BY <3>2, <3>3
  <2> QED
    BY <2>2, <2>3
<1>7. Loops(u, D)
  <2>1. NULL \notin DOMAIN u /\ \A i \in DOMAIN u : u[i].parent \in DOMAIN u \cup {NULL}
    BY <1>1 DEF Wood
  <2> QED
    BY <1>2, <1>6, <2>1 DEF Loops
<1>8. D = {}
  BY <1>1, <1>7, ForestIs DEF Wood
<1> QED
  BY <1>4, <1>8

LEMMA SettlingTurns ==
    ASSUME NEW r, NEW q, NEW t, t = [i \in DOMAIN t |-> t[i]], NEW u, Settling(r, q, t, u)
    PROVE  Turned(t, u)
<1> DEFINE plot == Plot(r, q, t)
<1>1. /\ DOMAIN u = (DOMAIN t \ q.gone) \cup DOMAIN q.tx
      /\ \A i \in DOMAIN u : u[i] = IF i \in DOMAIN q.tx THEN q.tx[i] ELSE t[i]
      /\ u = [i \in DOMAIN u |-> u[i]]
      /\ DOMAIN q.tx \subseteq plot /\ q.gone \subseteq plot \cap DOMAIN t
      /\ \A i \in Root(q) : i \in DOMAIN u \cap plot
      /\ Wood(t) /\ DOMAIN t \cap NewOf(r) = {}
  <2>1. /\ DOMAIN u = (DOMAIN t \ q.gone) \cup DOMAIN q.tx
        /\ \A i \in DOMAIN u : u[i] = IF i \in DOMAIN q.tx THEN q.tx[i] ELSE t[i]
        /\ u = [i \in DOMAIN u |-> u[i]]
        /\ DOMAIN q.tx \subseteq Plot(r, q, t) /\ q.gone \subseteq Inner(r, q, t) \cap DOMAIN t
        /\ \A i \in Root(q) : i \in DOMAIN u \cap Plot(r, q, t)
        /\ Wood(t) /\ DOMAIN t \cap NewOf(r) = {} /\ NULL \notin NewOf(r)
    BY SettlingIs
  <2>2. Inner(r, q, t) \subseteq plot
    BY DEF Inner
  <2> QED
    BY <2>1, <2>2
<1>2. \A i \in DOMAIN t \ plot : i \in DOMAIN u /\ u[i] = t[i]
  BY <1>1
<1>3. DOMAIN u \ DOMAIN t \subseteq plot
  BY <1>1
<1>4. CASE q.op.kind = "newField"
  <2> DEFINE f == q.field
  <2>1. Root(q) = {f} /\ plot = NewOf(r)
    BY <1>4 DEF Root, Plot
  <2>2. Below(u, {f}) \subseteq plot /\ plot \cap DOMAIN u \subseteq Below(u, {f})
    <3> HIDE DEF f
    <3> QED
      BY <2>1, PlotBelow
  <2>3. f \in DOMAIN u \ DOMAIN t
    BY <1>1, <2>1
  <2> HIDE DEF f
  <2>4. Only(t, u, {}, Below(u, {f}))
    BY <1>1, <1>2, <1>3, <2>1, <2>2 DEF Only
  <2> QED
    BY <2>3, <2>4 DEF Turned
<1>5. CASE q.op.kind = "editField"
  <2> DEFINE f == q.op.field
  <2>1. Root(q) = {f} /\ plot = NewOf(r) \cup Below(t, {f})
    BY <1>5 DEF Root, Plot
  <2>2. Below(u, {f}) \subseteq plot /\ plot \cap DOMAIN u \subseteq Below(u, {f})
    <3> HIDE DEF f
    <3> QED
      BY <2>1, PlotBelow
  <2>3. f \in DOMAIN t \cap DOMAIN u
    BY <1>1, <1>5, <2>1 DEF Settling, Base, Current
  <2> HIDE DEF f
  <2>4. Only(t, u, Below(t, {f}), Below(u, {f}))
    BY <1>1, <1>2, <1>3, <2>1, <2>2 DEF Only
  <2> QED
    BY <2>3, <2>4 DEF Turned
<1>6. CASE q.op.kind = "seed"
  <2> DEFINE g == To(r, q)
  <2>1. plot = NewOf(r) \cup OfForm(t, g)
    BY <1>6 DEF Plot, OfForm
  <2>2. \A i \in DOMAIN u \ DOMAIN t : u[i].form = g
    BY <1>1 DEF Settling, Formed
  <2>3. \A i \in DOMAIN t \ OfForm(t, g) : i \in DOMAIN u /\ u[i] = t[i]
    BY <1>1, <1>2, <2>1
  <2> HIDE DEF g
  <2>4. Only(t, u, OfForm(t, g), OfForm(u, g))
    <3>1. DOMAIN u \ DOMAIN t \subseteq OfForm(u, g)
      BY <2>2 DEF OfForm
    <3>2. OfForm(u, g) \cap DOMAIN t \subseteq OfForm(t, g)
      BY <2>3 DEF OfForm
    <3> QED
      BY <2>3, <3>1, <3>2 DEF Only
  <2>5. CASE g \in {t[f].form : f \in DOMAIN t} \cup {u[f].form : f \in DOMAIN u}
    BY <2>4, <2>5 DEF Turned
  <2>6. CASE g \notin {t[f].form : f \in DOMAIN t} \cup {u[f].form : f \in DOMAIN u}
    <3>1. OfForm(t, g) = {} /\ DOMAIN u \subseteq DOMAIN t
      BY <2>2, <2>6 DEF OfForm
    <3>2. DOMAIN u = DOMAIN t /\ \A i \in DOMAIN t : u[i] = t[i]
      BY <2>3, <3>1
    <3>3. u = t
      BY <1>1, <3>2
    <3> QED
      BY <3>3 DEF Turned
  <2> QED
    BY <2>5, <2>6
<1> QED
  BY <1>4, <1>5, <1>6 DEF Settling, Base, OnFields

\* Rows are deleted, and others stay as they are.
LEMMA PruneTurns ==
    ASSUME NEW t, t = [i \in DOMAIN t |-> t[i]], Wood(t), NEW S, S \subseteq DOMAIN t,
           NEW u, u = [i \in DOMAIN t \ S |-> t[i]],
           (\E f \in DOMAIN t : S = Below(t, {f})) \/ (\E g : S = OfForm(t, g))
    PROVE  Turned(t, u)
<1>1. DOMAIN u = DOMAIN t \ S /\ \A i \in DOMAIN u : u[i] = t[i]
  OBVIOUS
<1>2. CASE \E f \in DOMAIN t : S = Below(t, {f})
  <2>1. PICK f \in DOMAIN t : S = Below(t, {f})
    BY <1>2
  <2>2. DOMAIN t \ DOMAIN u = S /\ DOMAIN u \subseteq DOMAIN t
    BY <1>1
  <2>3. Only(t, u, DOMAIN t \ DOMAIN u, {})
    BY <1>1, <2>2 DEF Only
  <2> QED
    BY <2>1, <2>2, <2>3 DEF Turned
<1>3. CASE \E g : S = OfForm(t, g)
  <2>1. PICK g : S = OfForm(t, g)
    BY <1>3
  <2>2. OfForm(u, g) = {}
    BY <1>1, <2>1 DEF OfForm
  <2>3. Only(t, u, OfForm(t, g), OfForm(u, g))
    BY <1>1, <2>1, <2>2 DEF Only
  <2>4. CASE S # {}
    <3>1. g \in {t[f].form : f \in DOMAIN t}
      BY <2>1, <2>4 DEF OfForm
    <3> QED
      BY <2>3, <3>1 DEF Turned
  <2>5. CASE S = {}
    <3>1. u = t
      BY <2>5
    <3> QED
      BY <3>1 DEF Turned
  <2> QED
    BY <2>4, <2>5
<1> QED
  BY <1>2, <1>3

\* What is below what is below a field, and below a form.
LEMMA BelowAgain ==
    ASSUME NEW t, Wood(t), NEW S, S \subseteq DOMAIN t, \A i \in DOMAIN t : t[i].parent \in S => i \in S
    PROVE  Below(t, S) = S
<1>1. Below(t, S) \subseteq S
  BY BelowLeast DEF Wood
<1>2. S \subseteq Below(t, S)
  BY BelowIs DEF Wood
<1> QED
  BY <1>1, <1>2

\* All that r has in its hands, as it commits it.
LEMMA ClosingSettles ==
    ASSUME IInv, IInv', Traced, Calm, NEW r \in Requests, CommitFields(r), InTimeNow(r), OnFields(req[r]),
           Failure(r, Nothing, Pending(r)) = NULL
    PROVE  \E q : Settling(r, q, fields, fields')
<1> DEFINE p == req[r]
           ups == Pending(r)
           del == p.doomed
           q == Flushed(p, r, Nothing, ups, del)
<1>1. p.pc = "closing" /\ Free(r, Nothing, ups, del) /\ Open(r) /\ p = req[r]
  BY DEF CommitFields, Open
<1>2. ReqOK(p) /\ Traces(r, p, fields, Live) /\ p.visit = {}
  BY <1>1, OpIs DEF Traced, ReqOK
<1>3. fields' = Over(fields, q.tx, q.gone)
  BY DEF CommitFields
<1>4. /\ DOMAIN q = DOMAIN Idle /\ q.pc = p.pc /\ q.op = p.op /\ q.seen = p.seen /\ q.code = p.code
      /\ q.made \in Nat /\ q.doomed = {} /\ q.moved = {} /\ q.visit = p.visit /\ q.up = p.up
      /\ q.stack = p.stack /\ HasFlushed(r, Nothing, ups, del, q)
  BY <1>2, NothingIs, FlushedIs
<1>5. q.walked = p.walked /\ q.field = p.field /\ q.made = p.made
  <2>1. q.walked = p.walked /\ q.field = p.field /\ q.made = p.made + Cardinality(DOMAIN Nothing)
    BY <1>2, FlushedAlso
  <2>2. Cardinality(DOMAIN Nothing) = 0 /\ p.made \in Nat
    BY <1>2, NothingIs, FS_EmptySet DEF ReqOK
  <2> HIDE DEF p, q
  <2> QED
    BY <2>1, <2>2
<1>6. Writes(r, Nothing, ups)
  BY NothingIs, PendingIs DEF Writes
<1>7. \A i \in DOMAIN ups : "parent" \notin DOMAIN ups[i]
  BY DEF Pending
<1> HIDE DEF ups, q
<1>8. DOMAIN q.tx \subseteq DOMAIN fields \cup NewOf(r) /\ FieldsFit(q, fields)
  BY <1>1, <1>4, <1>6, FlushKeeps DEF ups
<1>9. Past(p, q) /\ Plan(p, q)
  BY <1>1, <1>4, <1>5 DEF Past, Plan
<1>10. Traces(r, q, fields, Live)
  BY <1>1, <1>2, <1>4, <1>5, <1>7, <1>9, NothingIs, FlushTraces
<1> HIDE DEF p, del
<1>11. /\ Within(r, p, fields) /\ Current(r, p, fields) /\ OnFields(p) /\ DOMAIN fields \cap NewOf(r) = {}
  BY <1>1, InTimeIs DEF InTime
<1>12. Base(r, q, fields)
  <2>1. Base(r, p, fields)
    BY <1>1, <1>11, WorkIs
  <2> QED
    BY <1>4, <1>5, <1>11, <2>1, CurrentOn
<1>13. Within(r, q, fields) /\ Formed(r, q, fields)
  <2>1. ASSUME NEW t, t = fields PROVE Tends(r, p, t, Pending(r))
    BY <1>1, <1>11, <2>1, PendingTends
  <2>2. Tends(r, p, fields, ups)
    BY <2>1 DEF ups
  <2>3. DOMAIN Nothing = {} /\ IsFiniteSet(DOMAIN Nothing)
    BY NothingIs
  <2>4. ASSUME NEW view, view = View(r)
        PROVE  /\ DOMAIN Nothing \subseteq NewOf(r) /\ DOMAIN Nothing \cap DOMAIN view = {}
               /\ \A i \in DOMAIN Nothing : Hangs(r, p, fields, view, i, Nothing[i])
    BY <2>3
  <2>5. p.pc \in {"syncing", "closing"} /\ HasFlushed(r, Nothing, ups, p.doomed, q)
        /\ q.stack = p.stack /\ q.visit = {} /\ q.moved = {} /\ q.doomed = {} /\ q.pc = p.pc
        /\ Failure(r, Nothing, ups) = NULL
    BY <1>1, <1>2, <1>4 DEF del, ups
  <2>6. ASSUME NEW view, view = View(r) PROVE Within(r, q, fields) /\ Formed(r, q, fields)
    BY <1>1, <1>9, <1>11, <2>2, <2>3, <2>4, <2>5, <2>6, TreeFlush
  <2> QED
    BY <2>6
<1>14. EdgesIn(r, q, fields, fields')
  <2>1. ASSUME NEW t, t = fields PROVE EdgesIn(r, q, t, Over(t, q.tx, q.gone))
    BY <1>8, <1>10, <1>11, <1>13, <2>1, ViewEdges DEF Traces
  <2> QED
    BY <1>3, <2>1
<1>15. Wood(fields')
  <2>1. IsFiniteSet(DOMAIN fields') /\ FieldsOK(fields', forms')
    BY DEF IInv, TypeOK, Isolated
  <2>2. /\ NULL \notin DOMAIN fields' /\ \A i \in DOMAIN fields' : fields'[i].parent \in DOMAIN fields' \cup {NULL}
    BY <2>1, NullAssumption DEF FieldsOK
  <2>3. ~Cyclic(fields')
    <3>1. ~Cyclic(fields)
      BY WoodIs DEF InTimeNow, Wood
    <3>2. \A i \in DOMAIN req[r].walked \cap DOMAIN fields : fields[i].parent = req[r].walked[i].parent
      BY <1>1, <1>11 DEF Current
    <3> QED
      BY <3>1, <3>2, CommitFieldsForest
  <2>4. SameForms(fields')
    <3>1. \A i : After(r, q, fields', i) = fields'[i].form
      BY <1>4 DEF After
    <3>2. \A i \in DOMAIN fields' : fields'[i].parent # NULL =>
             After(r, q, fields', i) = After(r, q, fields', fields'[i].parent)
      BY <1>2, <1>3, <1>4, <1>13 DEF Formed
    <3> QED
      BY <3>1, <3>2 DEF SameForms
  <2> QED
    BY <2>1, <2>2, <2>3, <2>4 DEF Wood
<1> QED
  BY <1>1, <1>2, <1>3, <1>4, <1>8, <1>12, <1>13, <1>14, <1>15 DEF Settling

LEMMA PruneLeaves ==
    ASSUME IInv, IInv', Calm, ~raced, NEW S, S \subseteq DOMAIN fields, ~Cyclic(fields'),
           fields' = [i \in DOMAIN fields \ S |-> fields[i]],
           (\E f \in DOMAIN fields : S = Below(fields, {f})) \/ (\E g : S = OfForm(fields, g))
    PROVE  Leaves
<1>1. Wood(fields) /\ fields = [i \in DOMAIN fields |-> fields[i]]
  BY WoodIs DEF Calm
<1>2. Turned(fields, fields')
  <2>1. ASSUME NEW t, t = fields, NEW u, u = fields' PROVE Turned(t, u)
    BY <1>1, <2>1, PruneTurns
  <2> QED
    BY <2>1
<1>3. DOMAIN fields' = DOMAIN fields \ S /\ \A i \in DOMAIN fields' : fields'[i] = fields[i]
  OBVIOUS
<1>4. SameForms(fields')
  <2>1. FieldsOK(fields', forms')
    BY DEF IInv, TypeOK
  <2>2. \A i \in DOMAIN fields' : fields'[i].parent \in DOMAIN fields' \cup {NULL}
    BY <2>1 DEF FieldsOK
  <2> QED
    BY <1>1, <1>3, <2>2 DEF Wood, SameForms
<1>5. Book!Forest(fields')
  BY <1>4, BookForest
<1>6. fields' = [i \in DOMAIN fields' |-> fields'[i]]
  BY <1>3
<1> QED
  BY <1>2, <1>5, <1>6 DEF Leaves

LEMMA CommitFieldsLeaves ==
    ASSUME IInv, IInv', Traced, Calm, NEW r \in Requests, CommitFields(r), InTimeNow(r),
           Failure(r, Nothing, Pending(r)) = NULL
    PROVE  Leaves
<1>1. /\ fields = [i \in DOMAIN fields |-> fields[i]] /\ ~raced /\ Wood(fields) /\ Open(r)
      /\ InTime(r, req[r], fields) /\ ReqOK(req[r])
  BY WoodIs, InTimeIs DEF Calm, InTimeNow, CommitFields, Open
<1>2. CASE OnFields(req[r])
  <2>1. PICK q : Settling(r, q, fields, fields')
    BY <1>2, ClosingSettles
  <2>2. Turned(fields, fields')
    <3>1. ASSUME NEW t, t = fields, NEW u, u = fields' PROVE Turned(t, u)
      BY <1>1, <2>1, <3>1, SettlingTurns
    <3> QED
      BY <3>1
  <2>3. Book!Forest(fields')
    BY <2>1, BookForest DEF Settling, Wood
  <2>4. fields' = [i \in DOMAIN fields' |-> fields'[i]]
    <3>1. fields' = Over(fields, q.tx, q.gone)
      BY <2>1 DEF Settling
    <3> QED
      BY <3>1 DEF Over
  <2> QED
    BY <2>2, <2>3, <2>4 DEF Leaves
<1>3. CASE ~OnFields(req[r])
  <2> DEFINE p == req[r]
             f == p.op.field
             ups == Pending(r)
             new == Saved(r, Nothing, ups)
             dead == Below(new, p.doomed)
             q == Flushed(p, r, Nothing, ups, p.doomed)
  <2>1. p.op.kind = "dropField" /\ fields' = Over(fields, q.tx, q.gone)
    BY <1>3 DEF CommitFields, OnFields
  <2>2. p.tx = Nothing /\ p.gone = {} /\ p.moved = {}
    BY <1>1, <1>3 DEF InTime, Unwritten
  <2>3. f \in DOMAIN fields /\ p.doomed = Below(fields, {f})
    BY <1>1, <2>1 DEF InTime, Current
  <2>4. HasFlushed(r, Nothing, ups, p.doomed, q)
    BY <1>1, NothingIs, FlushedIs
  <2>5. DOMAIN ups = {} /\ DOMAIN Nothing = {}
    BY <2>2, NothingIs DEF Pending
  <2>6. DOMAIN View(r) = DOMAIN fields /\ \A i \in DOMAIN fields : View(r)[i] = fields[i]
    BY <2>2, <2>5 DEF View, Over
  <2> HIDE DEF p, ups, q
  <2>7. DOMAIN new = DOMAIN fields /\ \A i \in DOMAIN fields : new[i] = fields[i]
    BY <2>5, <2>6 DEF Saved
  <2>8. Written(r, Nothing, ups) = {}
    BY <2>5 DEF Written
  <2> HIDE DEF f
  <2>9. dead = Below(fields, {f})
    <3>1. ASSUME NEW t, t = fields, NEW n, n = new, NEW S, S = p.doomed PROVE Below(n, S) = Below(t, {f})
      <4>1. Below(n, S) = Below(t, S)
        BY <1>1, <2>7, <3>1, BelowSame DEF Wood
      <4>2. Wood(t) /\ f \in DOMAIN t /\ S = Below(t, {f})
        BY <1>1, <2>3, <3>1
      <4>3. S \subseteq DOMAIN t /\ \A i \in DOMAIN t : t[i].parent \in S => i \in S
        BY <4>2, TreeIs
      <4>4. Below(t, S) = S
        BY <4>2, <4>3, BelowAgain
      <4> QED
        BY <4>1, <4>2, <4>4
    <3> QED
      BY <3>1
  <2> HIDE DEF new, dead
  <2>10. DOMAIN q.tx = {} /\ q.gone = dead \cap DOMAIN fields
    <3>1. q.tx = [i \in (DOMAIN req[r].tx \cup Written(r, Nothing, ups)) \ dead |-> new[i]]
          /\ q.gone = req[r].gone \cup (dead \cap DOMAIN fields)
      BY <2>4 DEF HasFlushed, new, dead
    <3> QED
      BY <2>2, <2>5, <2>8, <3>1 DEF p
  <2>11. dead \subseteq DOMAIN fields
    <3>1. ASSUME NEW t, t = fields PROVE Below(t, {f}) \subseteq DOMAIN t
      BY <1>1, <2>3, <3>1, TreeIs
    <3> QED
      BY <2>9, <3>1
  <2>12. fields' = [i \in DOMAIN fields \ dead |-> fields[i]]
    BY <2>1, <2>10, <2>11 DEF Over
  <2>13. ~Cyclic(fields')
    <3>1. \A i \in DOMAIN req[r].walked \cap DOMAIN fields : fields[i].parent = req[r].walked[i].parent
      BY <1>1 DEF InTime, Current
    <3> QED
      BY <1>1, <3>1, CommitFieldsForest DEF Wood
  <2> QED
    BY <1>1, <2>3, <2>9, <2>11, <2>12, <2>13, PruneLeaves
<1> QED
  BY <1>2, <1>3

LEMMA CommitDropLeaves ==
    ASSUME IInv, IInv', Traced, Calm, NEW r \in Requests, CommitDrop(r), InTimeNow(r)
    PROVE  Leaves
<1> DEFINE g == req[r].op.form
           S == OfForm(fields, g)
           del == req[r].doomed \cup {f \in DOMAIN fields : fields[f].form = g}
<1>1. /\ ~raced /\ Wood(fields) /\ req[r].op.kind = "dropForm" /\ InTime(r, req[r], fields)
      /\ fields' = [f \in DOMAIN fields \ Below(fields, del) |-> fields[f]]
  BY WoodIs, InTimeIs DEF InTimeNow, CommitDrop, Open
<1>2. req[r].doomed = Below(fields, {f \in DOMAIN fields : fields[f].form = g})
  BY <1>1 DEF InTime, Current
<1> HIDE DEF g
<1>3. ASSUME NEW t, t = fields PROVE Below(t, OfForm(t, g)) = OfForm(t, g)
  <2> DEFINE U == OfForm(t, g)
  <2>1. U \subseteq DOMAIN t /\ \A i \in DOMAIN t : t[i].parent \in U => i \in U
    BY <1>1, <1>3 DEF OfForm, Wood, SameForms
  <2>2. Wood(t)
    BY <1>1, <1>3
  <2> HIDE DEF U
  <2>3. Below(t, U) = U
    BY <2>1, <2>2, BelowAgain
  <2> QED
    BY <2>3 DEF U
<1>4. del = S /\ Below(fields, S) = S
  BY <1>2, <1>3 DEF OfForm
<1> HIDE DEF del
<1>5. fields' = [f \in DOMAIN fields \ S |-> fields[f]] /\ S \subseteq DOMAIN fields
  BY <1>1, <1>4 DEF OfForm
<1>6. ~Cyclic(fields')
  BY <1>1, CommitDropForest DEF Wood
<1> HIDE DEF S
<1>7. \E h : S = OfForm(fields, h)
  BY DEF S
<1> QED
  BY <1>1, <1>5, <1>6, <1>7, PruneLeaves

\* Who commits leaves the others behind.
LEMMA AnswerCalm ==
    ASSUME IInv, NEW r \in Requests, req' = Answer(r, 200),
           ~raced' => calm' = fields' /\ Book!Forest(fields') /\ fields' = [i \in DOMAIN fields' |-> fields'[i]]
    PROVE  Calm'
<1>1. ASSUME NEW s \in Requests, Open(s)' PROVE req'[s].late
  <2>1. s # r
    BY <1>1 DEF Answer, Done, Idle, Open
  <2>2. CASE Open(s)
    <3> DEFINE q == req[s]
    <3>1. DOMAIN q = DOMAIN Idle
      BY DEF IInv, TypeOK, ReqOK
    <3>2. req'[s] = [q EXCEPT !.late = TRUE]
      BY <2>1, <2>2 DEF Answer
    <3> HIDE DEF q
    <3> QED
      BY <3>1, <3>2 DEF Idle
  <2>3. CASE ~Open(s)
    <3>1. req'[s] = req[s]
      BY <2>1, <2>3 DEF Answer
    <3> QED
      BY <1>1, <2>3, <3>1 DEF Open
  <2> QED
    BY <2>2, <2>3
<1> QED
  BY <1>1 DEF Calm

LEMMA CommitFieldsCalm ==
    ASSUME IInv, IInv', Traced, Calm, NEW r \in Requests, CommitFields(r)
    PROVE  Calm' /\ Turn
<1>1. CASE Failure(r, Nothing, Pending(r)) # NULL
  <2>1. calm' = calm /\ \E code : Goes(r, Done(code))
    BY <1>1 DEF CommitFields, Goes, Refused
  <2> QED
    BY <2>1, DoneCalm DEF Turn
<1>2. CASE Failure(r, Nothing, Pending(r)) = NULL
  <2>1. /\ req' = Answer(r, 200) /\ raced' = (raced \/ req[r].late)
        /\ calm' = IF raced' THEN calm ELSE fields'
    BY <1>2 DEF CommitFields
  <2>2. ~raced' => InTimeNow(r)
    BY <2>1 DEF InTimeNow
  <2>3. ~raced' => Leaves
    BY <1>2, <2>2, CommitFieldsLeaves
  <2>4. ~raced' => calm' = fields' /\ Book!Forest(fields') /\ fields' = [i \in DOMAIN fields' |-> fields'[i]]
    BY <2>1, <2>3 DEF Leaves
  <2>5. Calm'
    BY <2>1, <2>4, AnswerCalm
  <2> QED
    BY <2>1, <2>2, <2>3, <2>5 DEF Turn, InTimeNow
<1> QED
  BY <1>1, <1>2

LEMMA CommitDropCalm ==
    ASSUME IInv, IInv', Traced, Calm, NEW r \in Requests, CommitDrop(r)
    PROVE  Calm' /\ Turn
<1>1. /\ req' = Answer(r, 200) /\ raced' = (raced \/ req[r].late)
      /\ calm' = IF raced' THEN calm ELSE fields'
  BY DEF CommitDrop
<1>2. ~raced' => InTimeNow(r)
  BY <1>1 DEF InTimeNow
<1>3. ~raced' => Leaves
  BY <1>2, CommitDropLeaves
<1>4. ~raced' => calm' = fields' /\ Book!Forest(fields') /\ fields' = [i \in DOMAIN fields' |-> fields'[i]]
  BY <1>1, <1>3 DEF Leaves
<1>5. Calm'
  BY <1>1, <1>4, AnswerCalm
<1> QED
  BY <1>1, <1>2, <1>3, <1>5 DEF Turn, InTimeNow

LEMMA CommitFormCalm ==
    ASSUME IInv, Calm, NEW r \in Requests, CommitForm(r)
    PROVE  Calm'
<1>1. fields' = fields /\ raced' = raced /\ calm' = calm
  BY DEF CommitForm
<1>2. Goes(r, Done(500)) \/ Goes(r, Done(409)) \/ req' = Answer(r, 200)
  BY DEF CommitForm, Goes
<1>3. CASE Goes(r, Done(500)) \/ Goes(r, Done(409))
  BY <1>1, <1>3, DoneCalm
<1>4. CASE req' = Answer(r, 200)
  <2>1. ~raced' => calm' = fields' /\ Book!Forest(fields') /\ fields' = [i \in DOMAIN fields' |-> fields'[i]]
    BY <1>1 DEF Calm
  <2> QED
    BY <1>4, <2>1, AnswerCalm
<1> QED
  BY <1>2, <1>3, <1>4

(***************************************************************************)
(* The book.                                                               *)
(***************************************************************************)

LEMMA InitCalm == Init => Calm
<1> SUFFICES ASSUME Init PROVE Calm
  OBVIOUS
<1>1. calm = fields /\ Book!Forest(fields) /\ fields = [i \in DOMAIN fields |-> fields[i]]
  BY InitForestAssumption DEF Init
<1>2. \A r \in Requests : ~Open(r)
  BY DEF Init, Open, Idle
<1> QED
  BY <1>1, <1>2 DEF Calm

LEMMA NextCalm ==
    ASSUME IInv, IInv', Traced, Traced', Calm, [Next]_vars
    PROVE  Calm' /\ Turn
<1>1. CASE \E r \in Requests : \E o \in Ops[r] : Load(r, o)
  BY <1>1, LoadCalm DEF Load, Turn
<1>2. ASSUME NEW r \in Requests, Proceed(r) PROVE Calm' /\ Turn
  <2>1. CASE Walk(r)
    BY <2>1, WalkCalm DEF Walk, Turn
  <2>2. CASE FlushField(r)
    BY <2>2, FlushFieldCalm DEF FlushField, Turn
  <2>3. CASE FlushForm(r)
    BY <2>3, FlushFormCalm DEF FlushForm, Turn
  <2>4. CASE Move(r)
    BY <2>4, MoveCalm DEF Move, Turn
  <2>5. CASE SyncNode(r)
    BY <2>5, SyncNodeCalm DEF SyncNode, Turn
  <2>6. CASE SyncEnd(r)
    BY <2>6, SyncEndCalm DEF SyncEnd, Turn
  <2>7. CASE CommitFields(r)
    BY <2>7, CommitFieldsCalm
  <2>8. CASE CommitForm(r)
    BY <2>8, CommitFormCalm DEF CommitForm, Turn
  <2>9. CASE CommitDrop(r)
    BY <2>9, CommitDropCalm
  <2> QED
    BY <1>2, <2>1, <2>2, <2>3, <2>4, <2>5, <2>6, <2>7, <2>8, <2>9 DEF Proceed
<1>3. ASSUME NEW r \in Requests, Abort(r) PROVE Calm' /\ Turn
  <2>1. Goes(r, Done(500)) /\ calm' = calm
    BY <1>3 DEF Abort, Goes
  <2> QED
    BY <2>1, DoneCalm DEF Turn
<1>4. CASE UNCHANGED vars
  BY <1>4 DEF vars, Calm, Turn, Open
<1> QED
  BY <1>1, <1>2, <1>3, <1>4 DEF Next, Terminated

\* A turn is a step that FormBook allows.
LEMMA TurnIs ==
    ASSUME Calm, Turn
    PROVE  [Book!Next]_calm
<1> SUFFICES ASSUME calm' # calm PROVE Book!Next
  OBVIOUS
<1>1. calm = fields /\ calm' = fields' /\ Turned(calm, calm') /\ Book!Forest(calm')
  BY DEF Turn, Leaves, Calm
<1> DEFINE t == calm
           u == calm'
<1>2. \A S, T : Only(t, u, S, T) <=> Book!OnlyWithin(S, T)
  BY DEF Only, Book!OnlyWithin
<1>3. /\ \A f \in DOMAIN t : Book!Under(t, {f}) = Below(t, {f})
      /\ \A f \in DOMAIN u : Book!Under(u, {f}) = Below(u, {f})
  <2>1. ASSUME NEW v PROVE \A f \in DOMAIN v : Book!Under(v, {f}) = Below(v, {f})
    <3> SUFFICES ASSUME NEW f \in DOMAIN v PROVE Book!Under(v, {f}) = Below(v, {f})
      OBVIOUS
    <3>1. {f} \in SUBSET DOMAIN v
      OBVIOUS
    <3> QED
      BY <3>1, UnderIs
  <2> QED
    BY <2>1
<1>4. \/ \E f \in DOMAIN u \ DOMAIN t : Only(t, u, {}, Below(u, {f}))
      \/ \E f \in DOMAIN t \cap DOMAIN u : Only(t, u, Below(t, {f}), Below(u, {f}))
      \/ /\ DOMAIN u \subseteq DOMAIN t
         /\ \E f \in DOMAIN t : /\ Only(t, u, DOMAIN t \ DOMAIN u, {})
                                /\ DOMAIN t \ DOMAIN u = Below(t, {f})
      \/ \E g \in {t[f].form : f \in DOMAIN t} \cup {u[f].form : f \in DOMAIN u} :
            Only(t, u, OfForm(t, g), OfForm(u, g))
  BY <1>1 DEF Turned
<1>5. CASE \E f \in DOMAIN u \ DOMAIN t : Only(t, u, {}, Below(u, {f}))
  <2>1. Book!Grow
    BY <1>2, <1>3, <1>5 DEF Book!Grow
  <2> QED
    BY <1>1, <2>1 DEF Book!Next
<1>6. CASE \E f \in DOMAIN t \cap DOMAIN u : Only(t, u, Below(t, {f}), Below(u, {f}))
  <2>1. Book!Change
    BY <1>2, <1>3, <1>6 DEF Book!Change
  <2> QED
    BY <1>1, <2>1 DEF Book!Next
<1>7. CASE /\ DOMAIN u \subseteq DOMAIN t
           /\ \E f \in DOMAIN t : /\ Only(t, u, DOMAIN t \ DOMAIN u, {})
                                  /\ DOMAIN t \ DOMAIN u = Below(t, {f})
  <2>1. Book!Prune
    BY <1>2, <1>3, <1>7 DEF Book!Prune
  <2> QED
    BY <1>1, <2>1 DEF Book!Next
<1>8. CASE \E g \in {t[f].form : f \in DOMAIN t} \cup {u[f].form : f \in DOMAIN u} :
              Only(t, u, OfForm(t, g), OfForm(u, g))
  <2>1. Book!Reform
    BY <1>2, <1>8 DEF Book!Reform, OfForm
  <2> QED
    BY <1>1, <2>1 DEF Book!Next
<1> QED
  BY <1>4, <1>5, <1>6, <1>7, <1>8

\* Whatever the payloads and however requests overlap: until the first request commits on
\* reads that another has overtaken, each commit changes one tree, or one form, of a forest.
THEOREM BookImplemented == Spec => FollowsBook
<1>1. Init => Book!Init
  BY InitForestAssumption DEF Init, Book!Init
<1>2. Init => Traced
  BY DEF Init, Traced, Open, Idle
<1>3. IInv /\ IInv' /\ Traced /\ Traced' /\ Calm /\ [Next]_vars => Calm' /\ [Book!Next]_calm
  BY NextCalm, TurnIs
<1>4. Spec => []Traced
  BY <1>2, InitKeeps, NextKeeps, NextTraces, PTL DEF Spec
<1>5. Spec => [](IInv /\ Traced)
  BY <1>4, TransactionsApart, PTL
<1> QED
  BY <1>1, <1>3, <1>5, InitCalm, PTL DEF Spec, FollowsBook, Book!Spec

(***************************************************************************)
(* The nodes of a payload.                                                 *)
(***************************************************************************)

\* The levels of a payload, however many.
LEMMA NestingExists ==
    ASSUME NEW nodes, NEW n \in Nat
    PROVE  \E f : IsNesting(nodes, n, f)
<1> DEFINE T == {m \in Nat : ~\E f : IsNesting(nodes, m, f)}
<1> SUFFICES ASSUME T # {} PROVE FALSE
  OBVIOUS
<1>1. PICK m \in T : \A l \in T : m <= l
  <2>1. T \in SUBSET Nat
    OBVIOUS
  <2> HIDE DEF T
  <2> QED
    BY <2>1, LeastExists
<1>2. CASE m = 0
  <2>1. \A l \in 0..m : l = 0
    BY <1>2
  <2>2. IsNesting(nodes, m, [l \in 0..m |-> Uppermost(nodes)])
    BY <2>1 DEF IsNesting
  <2> QED
    BY <1>1, <2>2
<1>3. CASE m # 0
  <2>1. m - 1 \in Nat /\ m - 1 \notin T /\ m \in Nat
    BY <1>1, <1>3
  <2>2. PICK f : IsNesting(nodes, m - 1, f)
    BY <2>1
  <2> DEFINE g == [l \in 0..m |-> IF l \in 0..(m-1) THEN f[l] ELSE Beneath(f[m-1])]
  <2>3. \A l \in 0..(m-1) : f[l] = IF l = 0 THEN Uppermost(nodes) ELSE Beneath(f[l-1])
    BY <2>2 DEF IsNesting
  <2>4. ASSUME NEW l \in 0..m
        PROVE  g[l] = IF l = 0 THEN Uppermost(nodes) ELSE Beneath(g[l-1])
    <3>1. l # 0 => l - 1 \in 0..m /\ l - 1 \in 0..(m-1)
      BY <2>1
    <3>2. l \notin 0..(m-1) => l = m /\ l # 0
      BY <1>3, <2>1
    <3> QED
      BY <2>3, <3>1, <3>2
  <2>5. IsNesting(nodes, m, g)
    <3>1. g = [l \in 0..m |-> IF l = 0 THEN Uppermost(nodes) ELSE Beneath(g[l-1])]
      <4>1. DOMAIN g = 0..m /\ g = [l \in 0..m |-> g[l]]
        OBVIOUS
      <4> HIDE DEF g
      <4> QED
        BY <2>4, <4>1
    <3> QED
      BY <3>1 DEF IsNesting
  <2> QED
    BY <1>1, <2>5
<1> QED
  BY <1>2, <1>3

LEMMA NestingIs ==
    ASSUME NEW nodes
    PROVE  /\ \A n \in 0..MaxNodes :
                 Nesting(nodes)[n] = IF n = 0 THEN Uppermost(nodes) ELSE Beneath(Nesting(nodes)[n-1])
           /\ Nested(nodes) = UNION {Nesting(nodes)[n] : n \in 0..MaxNodes}
<1> DEFINE f == Nesting(nodes)
<1>1. Nested(nodes) = UNION {f[n] : n \in 0..MaxNodes}
  BY DEF Nested, Nesting, Uppermost, Beneath
<1>2. \A n \in 0..MaxNodes : f[n] = IF n = 0 THEN Uppermost(nodes) ELSE Beneath(f[n-1])
  <2>1. PICK g : IsNesting(nodes, MaxNodes, g)
    BY MaxNodesAssumption, NestingExists
  <2>2. IsNesting(nodes, MaxNodes, f)
    BY <2>1 DEF IsNesting, Nesting
  <2> HIDE DEF f
  <2> QED
    BY <2>2 DEF IsNesting
<1> QED
  BY <1>1, <1>2

\* Nothing else is nested than what is in every set that has the uppermost nodes and
\* what is beneath its own.
LEMMA NestedLeast ==
    ASSUME NEW nodes, NEW U, Uppermost(nodes) \subseteq U, Beneath(U) \subseteq U
    PROVE  Nested(nodes) \subseteq U
<1> DEFINE f == Nesting(nodes)
           T == {n \in 0..MaxNodes : ~(f[n] \subseteq U)}
<1>1. /\ \A n \in 0..MaxNodes : f[n] = IF n = 0 THEN Uppermost(nodes) ELSE Beneath(f[n-1])
      /\ Nested(nodes) = UNION {f[n] : n \in 0..MaxNodes}
  BY NestingIs
<1> HIDE DEF f
<1>2. ASSUME T # {} PROVE FALSE
  <2>1. PICK m \in T : \A l \in T : m <= l
    <3>1. T \in SUBSET Nat
      OBVIOUS
    <3> HIDE DEF T
    <3> QED
      BY <1>2, <3>1, LeastExists
  <2>2. CASE m = 0
    BY <1>1, <2>1, <2>2
  <2>3. CASE m # 0
    <3>1. m - 1 \in 0..MaxNodes /\ ~(m <= m - 1)
      BY MaxNodesAssumption, <2>1, <2>3
    <3>2. f[m-1] \subseteq U /\ f[m] = Beneath(f[m-1])
      BY <1>1, <2>1, <2>3, <3>1
    <3>3. Beneath(f[m-1]) \subseteq Beneath(U)
      BY <3>2 DEF Beneath
    <3> QED
      BY <2>1, <3>2, <3>3
  <2> QED
    BY <2>2, <2>3
<1> QED
  BY <1>1, <1>2

LEMMA PayloadIs ==
    ASSUME NEW r \in Requests, NEW o \in Ops[r],
           o.kind \in {"newField", "seed"} \/ (o.kind = "editField" /\ o.subs # NULL)
    PROVE  PayloadIn(Payload(o))
<1> DEFINE P == Payload(o)
           U == {x \in Nested(P) : x[2] \in Nodes}
<1>1. P \in Seq(Nodes)
  <2>1. Body(o)
    BY OpsAssumption
  <2> QED
    BY <2>1, NodesAssumption DEF Payload, Body
<1>2. \A x \in Nested(P) : \A k \in 1..Len(x[2].subs) : <<x[2].key, x[2].subs[k]>> \in Nested(P)
  BY PayloadAssumption
<1> HIDE DEF P
<1>3. Uppermost(P) \subseteq Nested(P)
  <2>1. 0 \in 0..MaxNodes
    BY MaxNodesAssumption
  <2> QED
    BY <2>1, NestingIs
<1>4. Uppermost(P) \subseteq U
  BY <1>1, <1>3 DEF Uppermost
<1>5. Beneath(U) \subseteq U
  <2> SUFFICES ASSUME NEW x \in U, NEW k \in 1..Len(x[2].subs) PROVE <<x[2].key, x[2].subs[k]>> \in U
    BY DEF Beneath
  <2>1. x[2].subs \in Seq(Nodes)
    BY NodesAssumption
  <2> QED
    BY <1>2, <2>1
<1>6. Nested(P) \subseteq U
  BY <1>4, <1>5, NestedLeast
<1>7. \A k \in 1..Len(P) : <<NULL, P[k]>> \in Nested(P)
  BY <1>3 DEF Uppermost
<1> QED
  BY <1>1, <1>2, <1>6, <1>7 DEF PayloadIn, P

(***************************************************************************)
(* Rows are matched with nodes.                                            *)
(***************************************************************************)

LEMMA SamePayload ==
    ASSUME NEW r, NEW q, NEW z, Plan(q, z)
    PROVE  SaysSame(r, q, z)
<1>1. z.op = q.op /\ z.field = q.field
  BY DEF Plan
<1>2. Top(z) = Top(q)
  BY <1>1 DEF Top
<1>3. To(r, z) = To(r, q)
  BY SamePlan
<1>4. /\ \A m : Owners(z, m) = Owners(q, m)
      /\ \A m, p : SubsOf(z, m, p) = SubsOf(q, m, p)
      /\ \A view, p : Children(r, z, view, p) = Children(r, q, view, p)
  BY <1>1, <1>2, <1>3 DEF Owners, SubsOf, Children
<1>5. \A view, m, p, n : Through(z, view, m, p, n) <=> Through(q, view, m, p, n)
  BY <1>4 DEF Through
<1>6. ASSUME NEW view, NEW m, NEW f
      PROVE  /\ LeftOf(z, view, m, f) <=> LeftOf(q, view, m, f)
             /\ ReadOf(r, z, view, m, f) <=> ReadOf(r, q, view, m, f)
  <2>1. SubsOf(z, m, f.parent) = SubsOf(q, m, f.parent)
        /\ Children(r, z, view, f.parent) = Children(r, q, view, f.parent)
    BY <1>4
  <2> QED
    BY <1>5, <2>1 DEF LeftOf, ReadOf
<1> QED
  BY <1>1, <1>2, <1>3, <1>4, <1>5, <1>6 DEF SaysSame

\* The nodes that row p has beneath it are of the payload.
LEMMA SubsAre ==
    ASSUME NEW r, NEW q, PayloadIn(Payload(q.op)), NEW view, NEW m, Matching(r, q, view, m), NEW p \in Owners(q, m)
    PROVE  /\ SubsOf(q, m, p) \in Seq(Nodes)
           /\ \A k \in 1..Len(SubsOf(q, m, p)) :
                 <<IF p = Top(q) THEN NULL ELSE view[p].key, SubsOf(q, m, p)[k]>> \in Nested(Payload(q.op))
           /\ Unambiguous(Payload(q.op)) => KeysDiffer(SubsOf(q, m, p))
<1>1. CASE p = Top(q)
  BY <1>1 DEF SubsOf, PayloadIn, Unambiguous
<1>2. CASE p # Top(q)
  <2>1. p \in DOMAIN m /\ SubsOf(q, m, p) = m[p].subs /\ Matched(r, q, view, m, p)
    BY <1>2 DEF Owners, SubsOf, Matching
  <2> DEFINE a == IF view[p].parent = Top(q) THEN NULL ELSE view[view[p].parent].key
             x == <<a, m[p]>>
  <2>2. x \in Nested(Payload(q.op)) /\ view[p].key = m[p].key
    BY <2>1 DEF Matched
  <2> HIDE DEF a
  <2>3. x[2] = m[p]
    OBVIOUS
  <2> HIDE DEF x
  <2>4. /\ m[p] \in Nodes
        /\ \A k \in 1..Len(m[p].subs) : <<m[p].key, m[p].subs[k]>> \in Nested(Payload(q.op))
    BY <2>2, <2>3 DEF PayloadIn
  <2>5. m[p].subs \in Seq(Nodes)
    BY <2>4, NodesAssumption
  <2>6. Unambiguous(Payload(q.op)) => KeysDiffer(m[p].subs)
    BY <2>2, <2>3 DEF Unambiguous
  <2> QED
    BY <1>2, <2>1, <2>2, <2>4, <2>5, <2>6
<1> QED
  BY <1>1, <1>2

LEMMA NextNode ==
    ASSUME NEW r, NEW q, NEW view, NEW m, NEW top, NEW node, Reads(r, q, view, m, top, node),
           NEW subs, subs = SubsOf(q, m, top.parent), NEW n, n = Len(subs) - Len(top.rest)
    PROVE  Framed(r, q, view, m, top) /\ Comes(top, subs, n, node)
<1>1. Framed(r, q, view, m, top)
  BY DEF Reads, Matching
<1>2. /\ top.parent \in Owners(q, m) /\ Len(top.rest) <= Len(subs)
      /\ \A k \in 1..Len(top.rest) : top.rest[k] = subs[n + k]
  BY <1>1 DEF Framed, LeftOf
<1>3. subs \in Seq(Nodes)
  BY <1>2, SubsAre DEF Reads
<1>4. top.rest \in Seq(Nodes) /\ top.rest # <<>> /\ node = top.rest[1]
  BY DEF Reads
<1>5. Len(top.rest) \in Nat \ {0} /\ Len(subs) \in Nat
  BY <1>3, <1>4
<1>6. n \in Nat /\ n + 1 \in 1..Len(subs) /\ node = subs[n + 1]
  <2>1. 1 \in 1..Len(top.rest) /\ Len(top.rest) \in 1..Len(subs)
    BY <1>2, <1>5
  <2>2. n \in Nat /\ n + 1 \in 1..Len(subs)
    BY <1>5, <2>1
  <2> QED
    BY <1>2, <1>4, <2>1, <2>2
<1>7. Len(Tail(top.rest)) = Len(top.rest) - 1
  BY <1>4, <1>5
<1>8. ASSUME NEW k \in 1..Len(Tail(top.rest)) PROVE Tail(top.rest)[k] = subs[n + 1 + k]
  <2>1. Tail(top.rest)[k] = top.rest[k + 1] /\ k + 1 \in 1..Len(top.rest)
    BY <1>4, <1>5, <1>7
  <2>2. n + (k + 1) = n + 1 + k
    BY <1>6
  <2> QED
    BY <1>2, <2>1, <2>2
<1> QED
  BY <1>1, <1>3, <1>6, <1>7, <1>8 DEF Comes

LEMMA StaysSo ==
    ASSUME NEW r, NEW q, NEW view, NEW m, NEW top, NEW id, NEW node, Before(r, q, view, m, top, id, node),
           NEW u, NodeStep(r, q, view, top, id, node, u), NEW m2, m2 = With(m, id, node)
    PROVE  Stays(r, q, view, m, top, id, node, u, m2)
<1>1. DOMAIN m2 = DOMAIN m \cup {id} /\ m2[id] = node /\ \A i \in DOMAIN m \ {id} : m2[i] = m[i]
  BY DEF With
<1>2. id \notin Owners(q, m) /\ DOMAIN m \subseteq DOMAIN view /\ Matching(r, q, view, m)
  BY DEF Before, Reads
<1>3. id \notin DOMAIN m /\ id # Top(q) /\ Owners(q, m2) = Owners(q, m) \cup {id}
  BY <1>1, <1>2 DEF Owners
<1>4. q.doomed \cap Owners(q, m) = {} /\ \A i \in DOMAIN m : Matched(r, q, view, m, i)
  BY <1>2 DEF Matching
<1>5. DOMAIN m2 \subseteq DOMAIN u
  BY <1>1, <1>2, <1>4 DEF NodeStep, Owners
<1>6. \A i \in DOMAIN m : i # id /\ m2[i] = m[i] /\ u[i] = view[i] /\ u[i].parent \in Owners(q, m)
  <2>1. \A i \in DOMAIN m : i # id /\ m2[i] = m[i] /\ u[i] = view[i]
    BY <1>1, <1>3, <1>5 DEF NodeStep
  <2> QED
    BY <1>4, <2>1 DEF Matched
<1>7. \A p \in Owners(q, m) : SubsOf(q, m2, p) = SubsOf(q, m, p) /\ (p # Top(q) => u[p].key = view[p].key)
  BY <1>6 DEF Owners, SubsOf
<1>8. SubsOf(q, m2, id) = node.subs
  BY <1>1, <1>3 DEF SubsOf
<1>9. u[id].parent = top.parent /\ top.parent \in Owners(q, m)
  <2>1. Framed(r, q, view, m, top)
    BY DEF Before, Reads, Matching
  <2> QED
    BY <2>1 DEF NodeStep, Framed
<1>10. ASSUME NEW p
       PROVE  /\ Children(r, q, u, p) \cap q.doomed = {}
              /\ Children(r, q, u, p) \subseteq Children(r, q, view, p) \cup {i \in {id} : p = top.parent}
              /\ Children(r, q, view, p) \ q.doomed \subseteq Children(r, q, u, p)
  <2>1. \A i \in DOMAIN u : i \notin q.doomed /\ (i # id => i \in DOMAIN view /\ u[i] = view[i])
    BY DEF NodeStep
  <2>2. \A i \in DOMAIN view \ q.doomed : i \in DOMAIN u /\ (i # id => u[i] = view[i])
    BY DEF NodeStep
  <2>3. Children(r, q, u, p) \cap q.doomed = {}
    BY <2>1 DEF Children, ChildrenOf
  <2>4. Children(r, q, u, p) \subseteq Children(r, q, view, p) \cup {i \in {id} : p = top.parent}
    BY <1>9, <2>1 DEF Children, ChildrenOf
  <2>5. Children(r, q, view, p) \ q.doomed \subseteq Children(r, q, u, p)
    <3>1. id \in DOMAIN view => u[id].parent = view[id].parent /\ u[id].form = view[id].form
      BY DEF NodeStep
    <3> QED
      BY <2>2, <3>1 DEF Children, ChildrenOf
  <2> QED
    BY <2>3, <2>4, <2>5
<1> QED
  BY <1>1, <1>2, <1>3, <1>5, <1>6, <1>7, <1>8, <1>9, <1>10 DEF Stays

\* What is through below a row stays so, and below the row of the frame it is one node more.
LEMMA ThroughStays ==
    ASSUME NEW r, NEW q, NEW view, NEW m, NEW top, NEW id, NEW node, NEW u, NEW m2,
           Stays(r, q, view, m, top, id, node, u, m2), NEW p \in Owners(q, m), NEW n \in Nat, Through(q, view, m, p, n)
    PROVE  /\ p # top.parent => Through(q, u, m2, p, n)
           /\ p = top.parent /\ node = SubsOf(q, m, p)[n+1] => Through(q, u, m2, p, n + 1)
<1> DEFINE subs == SubsOf(q, m, p)
<1>1. /\ \A k \in 1..n : \E i \in DOMAIN m : view[i].parent = p /\ m[i] = subs[k]
      /\ \A i \in DOMAIN m : view[i].parent = p => \E k \in 1..n : m[i] = subs[k]
  BY DEF Through
<1>2. /\ DOMAIN m2 = DOMAIN m \cup {id} /\ m2[id] = node /\ u[id].parent = top.parent
      /\ \A i \in DOMAIN m : m2[i] = m[i] /\ u[i] = view[i]
  BY DEF Stays
<1>3. SubsOf(q, m2, p) = subs
  BY DEF Stays
<1> HIDE DEF subs
<1>4. CASE p # top.parent
  <2>1. \A k \in 1..n : \E i \in DOMAIN m2 : u[i].parent = p /\ m2[i] = subs[k]
    BY <1>1, <1>2
  <2>2. \A i \in DOMAIN m2 : u[i].parent = p => \E k \in 1..n : m2[i] = subs[k]
    BY <1>1, <1>2, <1>4
  <2> QED
    BY <1>3, <1>4, <2>1, <2>2 DEF Through
<1>5. CASE p = top.parent /\ node = subs[n+1]
  <2>1. ASSUME NEW k \in 1..(n+1) PROVE \E i \in DOMAIN m2 : u[i].parent = p /\ m2[i] = subs[k]
    <3>1. CASE k = n + 1
      BY <1>2, <1>5, <3>1
    <3>2. CASE k # n + 1
      <4>1. k \in 1..n
        BY <3>2
      <4> QED
        BY <1>1, <1>2, <4>1
    <3> QED
      BY <3>1, <3>2
  <2>2. ASSUME NEW i \in DOMAIN m2, u[i].parent = p PROVE \E k \in 1..(n+1) : m2[i] = subs[k]
    <3>1. CASE i = id
      BY <1>2, <1>5, <3>1
    <3>2. CASE i # id
      <4>1. PICK k \in 1..n : m[i] = subs[k]
        BY <1>1, <1>2, <2>2, <3>2
      <4> QED
        BY <1>2, <3>2, <4>1
    <3> QED
      BY <3>1, <3>2
  <2> QED
    BY <1>3, <1>5, <2>1, <2>2 DEF Through
<1> QED
  BY <1>4, <1>5 DEF subs

LEMMA ReadStays ==
    ASSUME NEW r, NEW q, NEW view, NEW m, NEW top, NEW id, NEW node, Before(r, q, view, m, top, id, node),
           NEW u, NodeStep(r, q, view, top, id, node, u), NEW m2, m2 = With(m, id, node),
           NEW f, Framed(r, q, view, m, f)
    PROVE  ReadOf(r, q, u, m2, f)
<1> DEFINE p == f.parent
<1>1. Stays(r, q, view, m, top, id, node, u, m2)
  BY StaysSo
<1>2. /\ Children(r, q, view, p) \subseteq DOMAIN m \cup DOMAIN f.existing
      /\ DOMAIN f.existing \subseteq Children(r, q, view, p) \ q.doomed
      /\ \A i \in DOMAIN f.existing :
            f.existing[i].key = view[i].key /\ (i \notin DOMAIN m => f.existing[i].label = view[i].label)
  BY DEF Framed, ReadOf
<1>3. /\ Children(r, q, u, p) \subseteq Children(r, q, view, p) \cup {id}
      /\ Children(r, q, view, p) \ q.doomed \subseteq Children(r, q, u, p) /\ DOMAIN m2 = DOMAIN m \cup {id}
  BY <1>1 DEF Stays
<1> HIDE DEF p
<1>4. DOMAIN f.existing \subseteq DOMAIN u /\ DOMAIN f.existing \subseteq DOMAIN view
  BY <1>2, <1>3 DEF Children, ChildrenOf
<1>5. ASSUME NEW i \in DOMAIN f.existing
      PROVE  f.existing[i].key = u[i].key /\ (i \notin DOMAIN m2 => f.existing[i].label = u[i].label)
  <2>1. CASE i = id
    BY <1>2, <1>3, <1>4, <2>1 DEF NodeStep
  <2>2. CASE i # id
    BY <1>2, <1>3, <1>4, <2>2 DEF NodeStep
  <2> QED
    BY <2>1, <2>2
<1>6. Children(r, q, u, p) \subseteq DOMAIN m2 \cup DOMAIN f.existing /\ DOMAIN f.existing \subseteq Children(r, q, u, p)
  BY <1>2, <1>3
<1> QED
  BY <1>5, <1>6 DEF ReadOf, p

\* A frame of rows that are there still.
LEMMA FramedIs ==
    ASSUME NEW r, NEW q, NEW z, Cleared(q, z), NEW u, NEW m, NEW f, ReadOf(r, q, u, m, f), LeftOf(q, u, m, f),
           f.parent \in Owners(q, m)
    PROVE  Framed(r, z, u, m, f)
<1>1. Plan(q, z) /\ z.doomed = {}
  BY DEF Cleared
<1>2. Owners(z, m) = Owners(q, m) /\ ReadOf(r, z, u, m, f) /\ LeftOf(z, u, m, f)
  BY <1>1, SamePayload DEF SaysSame
<1> QED
  BY <1>1, <1>2 DEF Framed

LEMMA LeftIs ==
    ASSUME NEW q, NEW view, NEW m, NEW f, NEW subs, SubsOf(q, m, f.parent) = subs,
           NEW n, Len(subs) - Len(f.rest) = n, Len(f.rest) <= Len(subs),
           \A k \in 1..Len(f.rest) : f.rest[k] = subs[n + k],
           f.expected = KeysOf(subs), Through(q, view, m, f.parent, n)
    PROVE  LeftOf(q, view, m, f)
BY DEF LeftOf

LEMMA FrameStays ==
    ASSUME NEW r, NEW q, NEW view, NEW m, NEW top, NEW id, NEW node, Before(r, q, view, m, top, id, node),
           NEW u, NodeStep(r, q, view, top, id, node, u), NEW m2, m2 = With(m, id, node),
           NEW z, Cleared(q, z),
           NEW f, Framed(r, q, view, m, f), f.parent # top.parent, Len(f.rest) \in Nat
    PROVE  Framed(r, z, u, m2, f)
<1> DEFINE subs == SubsOf(q, m, f.parent)
           n == Len(subs) - Len(f.rest)
<1>1. /\ f.parent \in Owners(q, m) /\ Len(f.rest) <= Len(subs) /\ \A k \in 1..Len(f.rest) : f.rest[k] = subs[n + k]
      /\ f.expected = KeysOf(subs) /\ Through(q, view, m, f.parent, n)
  BY DEF Framed, LeftOf
<1>2. Stays(r, q, view, m, top, id, node, u, m2) /\ ReadOf(r, q, u, m2, f)
  BY StaysSo, ReadStays
<1>3. subs \in Seq(Nodes)
  BY <1>1, SubsAre DEF Before, Reads
<1>4. f.parent \in Owners(q, m2) /\ SubsOf(q, m2, f.parent) = subs
  BY <1>1, <1>2 DEF Stays
<1> HIDE DEF subs
<1>5. n \in Nat
  BY <1>1, <1>3
<1>6. n = Len(subs) - Len(f.rest)
  OBVIOUS
<1> HIDE DEF n
<1>7. Through(q, u, m2, f.parent, n)
  BY <1>1, <1>2, <1>5, ThroughStays
<1>8. LeftOf(q, u, m2, f)
  BY <1>1, <1>4, <1>6, <1>7, LeftIs
<1> QED
  BY <1>2, <1>4, <1>8, FramedIs

LEMMA TopShifts ==
    ASSUME NEW r, NEW q, NEW view, NEW m, NEW top, NEW id, NEW node, Before(r, q, view, m, top, id, node),
           NEW u, NodeStep(r, q, view, top, id, node, u), NEW m2, m2 = With(m, id, node),
           NEW z, Cleared(q, z), NEW f, Shifted(top, f)
    PROVE  Framed(r, z, u, m2, f)
<1> DEFINE subs == SubsOf(q, m, top.parent)
           n == Len(subs) - Len(top.rest)
<1>0. subs = SubsOf(q, m, top.parent) /\ n = Len(subs) - Len(top.rest)
  OBVIOUS
<1> HIDE DEF subs, n
<1>1. Framed(r, q, view, m, top) /\ Comes(top, subs, n, node) /\ top.parent \in Owners(q, m)
  <2>1. Framed(r, q, view, m, top) /\ Comes(top, subs, n, node)
    BY <1>0, NextNode DEF Before
  <2> QED
    BY <2>1 DEF Framed
<1>2. Stays(r, q, view, m, top, id, node, u, m2) /\ ReadOf(r, q, u, m2, top)
  BY <1>1, StaysSo, ReadStays
<1>3. f.parent = top.parent /\ f.existing = top.existing /\ f.expected = top.expected /\ f.rest = Tail(top.rest)
  BY DEF Shifted
<1>4. ReadOf(r, q, u, m2, f)
  BY <1>2, <1>3 DEF ReadOf
<1>5. /\ f.parent \in Owners(q, m2) /\ SubsOf(q, m2, f.parent) = subs
      /\ Through(q, view, m, top.parent, n) /\ f.expected = KeysOf(subs)
  BY <1>0, <1>1, <1>2, <1>3 DEF Stays, Framed, LeftOf
<1>6. Len(top.rest) \in Nat \ {0}
  BY DEF Before, Reads
<1>7. Len(f.rest) \in Nat /\ n + 1 \in Nat /\ n + 1 = Len(subs) - Len(f.rest)
  <2> DEFINE a == Len(subs)
             b == Len(top.rest)
             c == Len(f.rest)
  <2>1. a \in Nat /\ b \in Nat \ {0} /\ c = b - 1 /\ n = a - b /\ n \in Nat
    BY <1>0, <1>1, <1>3, <1>6 DEF Comes
  <2> HIDE DEF a, b, c
  <2>2. c \in Nat /\ n + 1 \in Nat /\ n + 1 = a - c
    BY <2>1
  <2> QED
    BY <2>2 DEF a, c
<1>8. Through(q, u, m2, f.parent, n + 1)
  <2>1. ASSUME NEW p, p = top.parent
        PROVE  /\ p # top.parent => Through(q, u, m2, p, n)
               /\ p = top.parent /\ node = SubsOf(q, m, p)[n + 1] => Through(q, u, m2, p, n + 1)
    <3>1. n \in Nat /\ Through(q, view, m, p, n) /\ p \in Owners(q, m)
      BY <1>1, <1>5, <2>1 DEF Comes
    <3> QED
      BY <1>2, <3>1, ThroughStays
  <2>2. node = SubsOf(q, m, top.parent)[n + 1]
    BY <1>0, <1>1 DEF Comes
  <2> QED
    BY <1>3, <2>1, <2>2
<1> DEFINE n1 == n + 1
<1>9. n1 \in Nat /\ n1 = Len(subs) - Len(f.rest) /\ Through(q, u, m2, f.parent, n1)
      /\ \A k \in 1..Len(f.rest) : f.rest[k] = subs[n1 + k]
  BY <1>1, <1>3, <1>7, <1>8 DEF Comes
<1> HIDE DEF n1
<1>10. Len(f.rest) <= Len(subs)
  <2>1. Len(subs) \in Nat
    BY <1>1 DEF Comes
  <2> QED
    BY <1>7, <1>9, <2>1
<1>11. LeftOf(q, u, m2, f)
  BY <1>5, <1>9, <1>10, LeftIs
<1> QED
  BY <1>4, <1>5, <1>11, FramedIs

LEMMA NewFrame ==
    ASSUME NEW r, NEW q, NEW view, NEW m, NEW top, NEW id, NEW node, Before(r, q, view, m, top, id, node),
           NEW u, NodeStep(r, q, view, top, id, node, u), NEW m2, m2 = With(m, id, node),
           NEW z, Cleared(q, z), NEW f, FrameOf(r, q, u, f, id, node.subs)
    PROVE  Framed(r, z, u, m2, f)
<1> DEFINE subs == node.subs
<1>1. Stays(r, q, view, m, top, id, node, u, m2)
  BY StaysSo
<1>2. /\ f.parent = id /\ f.rest = subs /\ f.expected = KeysOf(subs)
      /\ DOMAIN f.existing = Children(r, q, u, id) /\ \A i \in DOMAIN f.existing : f.existing[i] = u[i]
  BY DEF FrameOf
<1>3. f.parent \in Owners(q, m2) /\ SubsOf(q, m2, f.parent) = subs
  BY <1>1, <1>2 DEF Stays
<1>4. ReadOf(r, q, u, m2, f)
  BY <1>2 DEF ReadOf
<1>5. subs \in Seq(Nodes)
  <2> DEFINE P == SubsOf(q, m, top.parent)
             n == Len(P) - Len(top.rest)
  <2>1. Comes(top, P, n, node)
    BY NextNode DEF Before
  <2> HIDE DEF P, n
  <2>2. node \in Nodes
    BY <2>1 DEF Comes
  <2> QED
    BY <2>2, NodesAssumption
<1> HIDE DEF subs
<1>6. Len(f.rest) \in Nat /\ 0 = Len(subs) - Len(f.rest) /\ \A k \in 1..Len(f.rest) : f.rest[k] = subs[0 + k]
  BY <1>2, <1>5
<1>7. Through(q, u, m2, f.parent, 0)
  <2>1. ASSUME NEW i \in DOMAIN m2 PROVE u[i].parent # id
    BY <1>1, <2>1 DEF Stays
  <2> QED
    BY <1>2, <2>1 DEF Through
<1>8. LeftOf(q, u, m2, f)
  BY <1>2, <1>3, <1>5, <1>6, <1>7 DEF LeftOf
<1> QED
  BY <1>3, <1>4, <1>8, FramedIs

\* Every row is as its node says.
LEMMA MatchedStays ==
    ASSUME NEW r, NEW q, NEW view, NEW m, NEW top, NEW id, NEW node, Before(r, q, view, m, top, id, node),
           NEW u, NodeStep(r, q, view, top, id, node, u), NEW m2, m2 = With(m, id, node),
           NEW z, Cleared(q, z), NEW i \in DOMAIN m2
    PROVE  Matched(r, z, u, m2, i)
<1>1. Stays(r, q, view, m, top, id, node, u, m2)
  BY StaysSo
<1>2. Top(z) = Top(q) /\ To(r, z) = To(r, q) /\ Payload(z.op) = Payload(q.op) /\ Owners(z, m2) = Owners(q, m2)
  BY SamePayload DEF Cleared, SaysSame
<1>3. Owners(q, m) \subseteq Owners(q, m2)
  BY <1>1 DEF Stays
<1>4. CASE i = id
  <2>1. u[id].form = To(r, q) /\ u[id].parent = top.parent /\ u[id].key = node.key /\ u[id].label = node.label
    BY DEF NodeStep
  <2>2. m2[id] = node /\ top.parent \in Owners(q, m)
    BY <1>1 DEF Stays
  <2> DEFINE p == top.parent
             P == SubsOf(q, m, p)
             n == Len(P) - Len(top.rest)
             a == IF p = Top(q) THEN NULL ELSE view[p].key
             b == IF u[id].parent = Top(z) THEN NULL ELSE u[u[id].parent].key
  <2>3. Comes(top, P, n, node)
    BY NextNode DEF Before
  <2>4. a = b
    BY <1>1, <1>2, <2>1, <2>2 DEF Stays
  <2>5. <<a, node>> \in Nested(Payload(q.op))
    <3>1. p \in Owners(q, m) /\ PayloadIn(Payload(q.op)) /\ Matching(r, q, view, m)
      BY <2>2 DEF Before, Reads
    <3> HIDE DEF p
    <3>2. \A k \in 1..Len(P) : <<a, P[k]>> \in Nested(Payload(q.op))
      BY <3>1, SubsAre
    <3> HIDE DEF a, P, n
    <3> QED
      BY <2>3, <3>2 DEF Comes
  <2>6. <<b, m2[i]>> \in Nested(Payload(z.op))
    <3> HIDE DEF a, b
    <3> QED
      BY <1>2, <1>4, <2>2, <2>4, <2>5
  <2> QED
    BY <1>2, <1>3, <1>4, <2>1, <2>2, <2>6 DEF Matched
<1>5. CASE i # id
  <2>1. i \in DOMAIN m /\ m2[i] = m[i] /\ u[i] = view[i] /\ u[i].parent \in Owners(q, m)
    BY <1>1, <1>5 DEF Stays
  <2>2. Matched(r, q, view, m, i)
    BY <2>1 DEF Before, Reads, Matching
  <2> DEFINE p == view[i].parent
             a == IF p = Top(q) THEN NULL ELSE view[p].key
             b == IF u[i].parent = Top(z) THEN NULL ELSE u[u[i].parent].key
  <2>3. a = b
    BY <1>1, <1>2, <2>1 DEF Stays
  <2>4. <<a, m[i]>> \in Nested(Payload(q.op))
    BY <2>2 DEF Matched
  <2>5. <<b, m2[i]>> \in Nested(Payload(z.op))
    <3> HIDE DEF a, b
    <3> QED
      BY <1>2, <2>1, <2>3, <2>4
  <2> QED
    BY <1>2, <1>3, <2>1, <2>2, <2>5 DEF Matched
<1> QED
  BY <1>4, <1>5

\* Where the payload is through it stays so.
LEMMA FinishedStays ==
    ASSUME NEW r, NEW q, NEW view, NEW m, NEW top, NEW id, NEW node, Before(r, q, view, m, top, id, node),
           NEW u, NodeStep(r, q, view, top, id, node, u), NEW m2, m2 = With(m, id, node),
           NEW z, Cleared(q, z), NEW p \in Owners(q, m), p # top.parent, Finished(r, q, view, m, p)
    PROVE  Finished(r, z, u, m2, p)
<1> DEFINE n == Len(SubsOf(q, m, p))
<1>1. Stays(r, q, view, m, top, id, node, u, m2)
  BY StaysSo
<1>2. /\ SubsOf(z, m2, p) = SubsOf(q, m2, p) /\ Children(r, z, u, p) = Children(r, q, u, p) /\ z.doomed = {}
      /\ \A k : Through(z, u, m2, p, k) <=> Through(q, u, m2, p, k)
  <2>1. Plan(q, z) /\ z.doomed = {}
    BY DEF Cleared
  <2>2. SaysSame(r, q, z)
    BY <2>1, SamePayload
  <2>3. SubsOf(z, m2, p) = SubsOf(q, m2, p) /\ Children(r, z, u, p) = Children(r, q, u, p)
    BY <2>2 DEF SaysSame
  <2>4. \A k : Through(z, u, m2, p, k) <=> Through(q, u, m2, p, k)
    BY <2>2 DEF SaysSame
  <2> QED
    BY <2>1, <2>3, <2>4
<1>3. SubsOf(q, m2, p) = SubsOf(q, m, p)
  BY <1>1 DEF Stays
<1>4. n \in Nat
  <2>1. SubsOf(q, m, p) \in Seq(Nodes)
    BY SubsAre DEF Before, Reads
  <2> QED
    BY <2>1
<1>5. Through(q, view, m, p, n) /\ Children(r, q, view, p) \subseteq DOMAIN m \cup q.doomed
  BY DEF Finished
<1> HIDE DEF n
<1>6. Through(q, u, m2, p, n)
  BY <1>1, <1>4, <1>5, ThroughStays
<1>7. Children(r, q, u, p) \subseteq DOMAIN m2
  BY <1>1, <1>5 DEF Stays
<1> QED
  BY <1>2, <1>3, <1>6, <1>7 DEF Finished, n

\* After the flush of a node one row more is matched.
LEMMA NodeMatches ==
    ASSUME NEW r, NEW q, NEW view, NEW m, NEW top, NEW id, NEW node, Before(r, q, view, m, top, id, node),
           NEW u, NodeStep(r, q, view, top, id, node, u), NEW m2, m2 = With(m, id, node),
           NEW z, Cleared(q, z), Pushed(r, q, z, u, top, id, node.subs),
           \A k \in DOMAIN q.stack : q.stack[k].rest \in Seq(Nodes)
    PROVE  Matching(r, z, u, m2)
<1>1. Stays(r, q, view, m, top, id, node, u, m2) /\ Matching(r, q, view, m)
  BY StaysSo DEF Before, Reads
<1>2. Top(z) = Top(q) /\ Owners(z, m2) = Owners(q, m2) /\ z.doomed = {} /\ z.moved = {}
  BY SamePayload DEF Cleared, SaysSame
<1>3. Top(z) \notin DOMAIN m2
  BY <1>1, <1>2 DEF Stays, Matching, Owners
<1>4. \A i \in DOMAIN m2 : Matched(r, z, u, m2, i)
  BY MatchedStays
\* A frame of z is the new one, or has the row of one of q.
<1>5. /\ z.stack[1].parent = id
      /\ \A k \in DOMAIN z.stack \ {1} : k - 1 \in DOMAIN q.stack /\ z.stack[k].parent = q.stack[k-1].parent
  <2>1. ASSUME NEW k \in DOMAIN z.stack \ {1} PROVE k - 1 \in DOMAIN q.stack /\ z.stack[k].parent = q.stack[k-1].parent
    <3>1. CASE k = 2
      BY <3>1 DEF Pushed, Shifted
    <3>2. CASE k # 2
      BY <3>2 DEF Pushed
    <3> QED
      BY <3>1, <3>2
  <2> QED
    BY <2>1 DEF Pushed, FrameOf
<1>6. \A k \in DOMAIN q.stack : Framed(r, q, view, m, q.stack[k]) /\ q.stack[k].parent \in Owners(q, m)
  BY <1>1 DEF Matching, Framed
<1>7. \A j, k \in DOMAIN q.stack : q.stack[j].parent = q.stack[k].parent => j = k
  BY <1>1 DEF Matching
<1>8. ASSUME NEW k \in DOMAIN z.stack PROVE Framed(r, z, u, m2, z.stack[k])
  <2>1. CASE k = 1
    <3>1. FrameOf(r, q, u, z.stack[k], id, node.subs)
      BY <2>1 DEF Pushed
    <3> QED
      BY <3>1, NewFrame
  <2>2. CASE k = 2
    <3>1. Shifted(top, z.stack[k])
      BY <2>2 DEF Pushed
    <3> QED
      BY <3>1, TopShifts
  <2>3. CASE k \notin {1, 2}
    <3> DEFINE f == z.stack[k]
    <3>1. k - 1 \in DOMAIN q.stack /\ k - 1 # 1 /\ f = q.stack[k-1]
      BY <2>3 DEF Pushed
    <3>2. Framed(r, q, view, m, f) /\ f.rest \in Seq(Nodes)
      BY <1>6, <3>1
    <3>3. f.parent # top.parent
      BY <1>7, <3>1 DEF Pushed
    <3> HIDE DEF f
    <3>4. Len(f.rest) \in Nat
      BY <3>2
    <3>5. Framed(r, z, u, m2, f)
      BY <3>2, <3>3, <3>4, FrameStays
    <3> QED
      BY <3>5 DEF f
  <2> QED
    BY <2>1, <2>2, <2>3
<1>9. ASSUME NEW j \in DOMAIN z.stack, NEW k \in DOMAIN z.stack, z.stack[j].parent = z.stack[k].parent PROVE j = k
  <2>1. id \notin Owners(q, m)
    BY DEF Before, Reads
  <2>2. CASE j = 1 \/ k = 1
    BY <1>5, <1>6, <1>9, <2>1, <2>2
  <2>3. CASE j # 1 /\ k # 1
    <3>1. j - 1 = k - 1
      BY <1>5, <1>7, <1>9, <2>3
    <3>2. j \in Nat /\ k \in Nat
      BY DEF Pushed
    <3> QED
      BY <3>1, <3>2
  <2> QED
    BY <2>2, <2>3
<1>10. ASSUME NEW p \in Owners(z, m2), \A k \in DOMAIN z.stack : z.stack[k].parent # p PROVE Finished(r, z, u, m2, p)
  <2>1. p # id /\ p # top.parent
    BY <1>5, <1>10 DEF Pushed, Shifted
  <2>2. p \in Owners(q, m)
    BY <1>1, <1>2, <2>1 DEF Stays
  <2>3. ASSUME NEW k \in DOMAIN q.stack PROVE q.stack[k].parent # p
    <3>1. CASE k = 1
      BY <2>1, <3>1 DEF Pushed
    <3>2. CASE k # 1
      <4>1. k \in Nat /\ k + 1 \in DOMAIN z.stack
        BY <3>2 DEF Pushed
      <4>2. k + 1 # 1 /\ (k + 1) - 1 = k
        BY <4>1, <3>2 DEF Pushed
      <4>3. z.stack[k+1].parent = q.stack[k].parent
        BY <1>5, <4>1, <4>2
      <4> QED
        BY <1>10, <4>1, <4>3
    <3> QED
      BY <3>1, <3>2
  <2>4. Finished(r, q, view, m, p)
    BY <1>1, <2>2, <2>3 DEF Matching
  <2> QED
    BY <2>1, <2>2, <2>4, FinishedStays
<1> QED
  BY <1>2, <1>3, <1>4, <1>8, <1>9, <1>10 DEF Matching

\* What is about to be deleted is closed, and a flush does not change that.
LEMMA DoomedStay ==
    ASSUME NEW view, NEW D, D \subseteq DOMAIN view, \A i \in DOMAIN view : view[i].parent \in D => i \in D,
           NEW new, IsFiniteSet(DOMAIN new), DOMAIN view \subseteq DOMAIN new,
           \A i \in DOMAIN view : new[i].parent = view[i].parent,
           \A i \in DOMAIN new \ DOMAIN view : new[i].parent \notin D
    PROVE  Below(new, D) = D
<1>1. \A i \in DOMAIN new : new[i].parent \in D => i \in D
  OBVIOUS
<1>2. Below(new, D) \subseteq D
  BY <1>1, BelowLeast
<1>3. D \cap DOMAIN new \subseteq Below(new, D)
  BY BelowIs
<1> QED
  BY <1>2, <1>3

\* A child that has been read is not matched with two nodes.
LEMMA NotTwice ==
    ASSUME NEW r, NEW q, NEW view, NEW m, NEW top, NEW node, Reads(r, q, view, m, top, node),
           Unambiguous(Payload(q.op)), NEW id \in DOMAIN top.existing, top.existing[id].key = node.key
    PROVE  id \notin DOMAIN m
<1> DEFINE p == top.parent
           subs == SubsOf(q, m, p)
           n == Len(subs) - Len(top.rest)
<1>1. Framed(r, q, view, m, top) /\ Comes(top, subs, n, node)
  BY NextNode
<1>2. p \in Owners(q, m) /\ Through(q, view, m, p, n) /\ view[id].parent = p /\ view[id].key = node.key
  <2>1. LeftOf(q, view, m, top) /\ ReadOf(r, q, view, m, top) /\ p \in Owners(q, m)
    BY <1>1 DEF Framed
  <2>2. view[id].parent = p /\ view[id].key = node.key
    BY <2>1 DEF ReadOf, Children, ChildrenOf
  <2>3. Through(q, view, m, p, n)
    BY <2>1 DEF LeftOf
  <2> QED
    BY <2>1, <2>2, <2>3
<1>3. KeysDiffer(subs)
  BY <1>2, SubsAre DEF Reads
<1> SUFFICES ASSUME id \in DOMAIN m PROVE FALSE
  OBVIOUS
<1>4. Matched(r, q, view, m, id)
  BY DEF Reads, Matching
<1>5. \A i \in DOMAIN m : view[i].parent = p => \E k \in 1..n : m[i] = subs[k]
  BY <1>2 DEF Through
<1> HIDE DEF p, subs, n
<1>6. PICK k \in 1..n : m[id] = subs[k]
  BY <1>2, <1>5
<1>7. subs[k].key = subs[n+1].key
  BY <1>1, <1>2, <1>4, <1>6 DEF Matched, Comes
<1>8. n \in Nat /\ n + 1 \in 1..Len(subs) /\ Len(subs) \in Nat
  BY <1>1 DEF Comes
<1>9. k \in 1..Len(subs) /\ k # n + 1
  BY <1>6, <1>8
<1> QED
  BY <1>3, <1>7, <1>8, <1>9 DEF KeysDiffer

\* The rows after that.
LEMMA NodeFlushed ==
    ASSUME NEW r, NEW q, NEW view, NEW m, NEW top, NEW node, Reads(r, q, view, m, top, node),
           NEW id, id \notin Owners(q, m), NEW ins, NEW ups, NodeFlush(r, q, view, top, id, node, ins, ups),
           \A i \in DOMAIN view : DOMAIN view[i] = {"form", "parent", "key", "label"},
           NEW new, NEW written, SavedIs(view, ins, ups, new, written), IsFiniteSet(DOMAIN new),
           NEW u, u = RowsIn(new, DOMAIN new \ Below(new, q.doomed))
    PROVE  NodeStep(r, q, view, top, id, node, u)
<1>1. Framed(r, q, view, m, top) /\ Matching(r, q, view, m)
  BY NextNode DEF Reads
<1>2. /\ q.doomed \subseteq DOMAIN view /\ q.doomed \cap Owners(q, m) = {}
      /\ \A i \in DOMAIN view : view[i].parent \in q.doomed => i \in q.doomed
  BY <1>1 DEF Matching
<1>3. /\ top.parent \in Owners(q, m) /\ DOMAIN top.existing \cap q.doomed = {}
      /\ \A i \in DOMAIN top.existing : /\ i \in DOMAIN view /\ view[i].parent = top.parent /\ view[i].form = To(r, q)
                                        /\ top.existing[i].key = view[i].key
  BY <1>1 DEF Framed, ReadOf, Children, ChildrenOf
<1>4. DOMAIN new = DOMAIN view \cup {id} /\ \A i \in DOMAIN view \ {id} : new[i] = view[i]
  BY <1>3 DEF NodeFlush, SavedIs
<1>5. /\ new[id].form = To(r, q) /\ new[id].parent = top.parent /\ new[id].key = node.key /\ new[id].label = node.label
      /\ id \in DOMAIN view => id \in DOMAIN top.existing /\ top.existing[id].key = node.key
  <2>1. CASE id \notin DOMAIN view
    <3>1. new[id] = NodeRow(node, To(r, q), top.parent)
      BY <1>3, <1>4, <2>1 DEF NodeFlush, SavedIs
    <3> QED
      BY <2>1, <3>1 DEF NodeRow
  <2>2. CASE id \in DOMAIN view
    <3>1. id \in DOMAIN top.existing /\ top.existing[id].key = node.key /\ DOMAIN ins = {}
      BY <2>2 DEF NodeFlush
    <3>2. DOMAIN view[id] = {"form", "parent", "key", "label"}
      BY <2>2
    <3>3. CASE DOMAIN ups = {}
      <4>1. new[id] = view[id] /\ view[id].label = node.label
        BY <1>4, <2>2, <3>1, <3>3 DEF NodeFlush, SavedIs
      <4> QED
        BY <1>3, <3>1, <4>1
    <3>4. CASE DOMAIN ups = {id}
      <4>1. new[id] = Assign(view[id], ups[id]) /\ ups[id] = [label |-> node.label]
        BY <1>4, <2>2, <3>1, <3>4 DEF NodeFlush, SavedIs
      <4>2. /\ new[id].form = view[id].form /\ new[id].parent = view[id].parent /\ new[id].key = view[id].key
            /\ new[id].label = node.label
        BY <3>2, <4>1 DEF Assign
      <4> QED
        BY <1>3, <3>1, <4>2
    <3> QED
      BY <2>2, <3>3, <3>4 DEF NodeFlush
  <2> QED
    BY <2>1, <2>2
<1>6. Below(new, q.doomed) = q.doomed
  <2>1. \A i \in DOMAIN view : new[i].parent = view[i].parent
    BY <1>3, <1>4, <1>5
  <2>2. \A i \in DOMAIN new \ DOMAIN view : new[i].parent \notin q.doomed
    BY <1>2, <1>3, <1>4, <1>5
  <2> DEFINE D == q.doomed
  <2>3. D \subseteq DOMAIN view /\ \A i \in DOMAIN view : view[i].parent \in D => i \in D
    BY <1>2
  <2>4. \A i \in DOMAIN new \ DOMAIN view : new[i].parent \notin D
    BY <2>2
  <2> HIDE DEF D
  <2>5. DOMAIN view \subseteq DOMAIN new
    BY <1>4
  <2>6. Below(new, D) = D
    BY <2>1, <2>3, <2>4, <2>5, DoomedStay
  <2> QED
    BY <2>6 DEF D
<1>7. DOMAIN u = (DOMAIN view \cup {id}) \ q.doomed /\ \A i \in DOMAIN u : u[i] = new[i]
  BY <1>4, <1>6 DEF RowsIn
<1>8. id \notin q.doomed
  <2>1. id \in DOMAIN view => id \in DOMAIN top.existing
    BY <1>5
  <2> QED
    BY <1>2, <1>3, <2>1
<1>9. id \in DOMAIN view => view[id].parent = top.parent /\ view[id].form = To(r, q) /\ view[id].key = node.key
  BY <1>3, <1>5
<1>10. id \in DOMAIN u /\ \A i \in DOMAIN u \ {id} : u[i] = view[i]
  BY <1>4, <1>7, <1>8
<1>11. u[id] = new[id]
  BY <1>7, <1>10
<1> QED
  BY <1>5, <1>7, <1>9, <1>10, <1>11 DEF NodeStep

\* The stack with the frame of the new row.
LEMMA PushedIs ==
    ASSUME NEW r, NEW q, NEW T, q.stack \in Seq(T), q.stack # <<>>, NEW top, top = q.stack[1],
           NEW top2, Shifted(top, top2), NEW z, NEW f, z.stack = <<f>> \o [q.stack EXCEPT ![1] = top2],
           NEW u, NEW id, NEW nodes, FrameOf(r, q, u, f, id, nodes)
    PROVE  Pushed(r, q, z, u, top, id, nodes)
<1> DEFINE s == [q.stack EXCEPT ![1] = top2]
           n == Len(q.stack)
<1>1. q.stack \in Seq(T) /\ n \in Nat \ {0} /\ DOMAIN q.stack = 1..n
  OBVIOUS
<1>2. s \in Seq(T \cup {top2}) /\ Len(s) = n /\ s[1] = top2 /\ \A k \in 2..n : s[k] = q.stack[k]
  BY <1>1
<1> HIDE DEF s
<1>3. /\ DOMAIN z.stack = 1..(n + 1) /\ z.stack[1] = f /\ \A k \in 2..(n+1) : z.stack[k] = s[k-1]
  <2>1. z.stack = <<f>> \o s
    BY DEF s
  <2> HIDE DEF n
  <2>2. Len(z.stack) = n + 1 /\ z.stack \in Seq(T \cup {top2, f})
    BY <1>1, <1>2, <2>1
  <2>3. z.stack[1] = f /\ \A k \in 2..(n+1) : z.stack[k] = s[k-1]
    BY <1>1, <1>2, <2>1
  <2> QED
    BY <2>2, <2>3
<1> HIDE DEF n
<1>4. 1 \in DOMAIN q.stack /\ {1, 2} \subseteq DOMAIN z.stack /\ z.stack[2] = top2
  <2>1. 2 \in 2..(n+1) /\ 2 - 1 = 1 /\ 1 \in 1..n /\ {1, 2} \subseteq 1..(n+1)
    BY <1>1
  <2> QED
    BY <1>1, <1>2, <1>3, <2>1
<1>5. \A k \in DOMAIN q.stack \ {1} : k + 1 \in DOMAIN z.stack
  BY <1>1, <1>3
<1>6. ASSUME NEW k \in DOMAIN z.stack \ {1, 2} PROVE k - 1 \in DOMAIN q.stack \ {1} /\ z.stack[k] = q.stack[k-1]
  <2>1. k \in 2..(n+1) /\ k - 1 \in 2..n
    BY <1>1, <1>3, <1>6
  <2> QED
    BY <1>1, <1>2, <1>3, <2>1
<1>7. DOMAIN q.stack \subseteq Nat \ {0} /\ DOMAIN z.stack \subseteq Nat
  BY <1>1, <1>3
<1> QED
  BY <1>3, <1>4, <1>5, <1>6, <1>7 DEF Pushed

LEMMA GoesMatches ==
    ASSUME IInv, Matches, NEW r \in Requests, NEW q, Goes(r, q),
           ~raced /\ Wants(q) => Replacing(r, q, fields, forms)
    PROVE  Matches'
<1>1. /\ fields' = fields /\ forms' = forms /\ raced' = raced
      /\ req'[r] = q /\ \A s \in Requests \ {r} : req'[s] = req[s]
  BY DEF Goes, IInv, TypeOK
<1> SUFFICES ASSUME ~raced
             PROVE  \A s \in Requests : Wants(req'[s]) => Replacing(s, req'[s], fields', forms')
  BY <1>1 DEF Matches, Wants
<1>2. \A s \in Requests : Wants(req[s]) => Replacing(s, req[s], fields, forms)
  BY DEF Matches, Wants
<1>3. ASSUME NEW s \in Requests, Wants(req'[s]) PROVE Replacing(s, req'[s], fields, forms)
  <2>1. CASE s = r
    BY <1>1, <1>3, <2>1
  <2>2. CASE s # r
    BY <1>1, <1>2, <1>3, <2>2
  <2> QED
    BY <2>1, <2>2
<1> QED
  BY <1>1, <1>3

LEMMA DoneMatches ==
    ASSUME IInv, Matches, NEW r \in Requests, NEW code, Goes(r, Done(code))
    PROVE  Matches'
<1> DEFINE q == Done(code)
<1>1. q.pc = "done" /\ Goes(r, q)
  BY DEF Done, Idle
<1> HIDE DEF q
<1>2. ~Wants(q)
  BY <1>1 DEF Wants
<1> QED
  BY <1>1, <1>2, GoesMatches

\* A payload that is to be stored is one.
LEMMA ReplacesIs ==
    ASSUME NEW q, ReqOK(q), q.pc \notin {"idle", "done"}, Replaces(q)
    PROVE  OnFields(q) /\ PayloadIn(Payload(q.op)) /\ Unambiguous(Payload(q.op))
<1>1. PICK s \in Requests : q.op \in Ops[s]
  BY DEF ReqOK
<1>2. /\ OnFields(q) /\ Unambiguous(Payload(q.op)) /\ (q.op.kind = "editField" => q.op.subs # NULL)
  BY DEF Replaces
<1>3. PayloadIn(Payload(q.op))
  BY <1>1, <1>2, PayloadIs DEF OnFields
<1> QED
  BY <1>2, <1>3

\* Who has gone on with the same body wants the same.
LEMMA SameReplaces ==
    ASSUME NEW q, NEW z, z.op = q.op, z.seen = q.seen
    PROVE  Replaces(z) <=> Replaces(q)
BY DEF Replaces, OnFields

LEMMA ReplacingIs ==
    ASSUME NEW r, NEW q, NEW t, NEW fs, NEW view, view = Over(t, q.tx, q.gone), NEW m, m = [i \in DOMAIN m |-> m[i]],
           DOMAIN m \subseteq DOMAIN view, Matching(r, q, view, m), q.pc = "closing" => q.stack = <<>>, Seeded(r, q, fs)
    PROVE  Replacing(r, q, t, fs)
<1> DEFINE N == {x[2] : x \in Nested(Payload(q.op))}
           S == DOMAIN m
<1>1. ASSUME NEW i \in S PROVE m[i] \in N
  <2> DEFINE a == IF view[i].parent = Top(q) THEN NULL ELSE view[view[i].parent].key
             x == <<a, m[i]>>
  <2>1. x \in Nested(Payload(q.op))
    BY DEF Matching, Matched
  <2> HIDE DEF a
  <2>2. x[2] = m[i]
    OBVIOUS
  <2> HIDE DEF x
  <2> QED
    BY <2>1, <2>2
<1> HIDE DEF N
<1>2. S \in SUBSET DOMAIN view /\ m \in [S -> N]
  BY <1>1
<1>3. \E T \in SUBSET DOMAIN view : \E l \in [T -> N] : Matching(r, q, view, l)
  BY <1>2
<1> QED
  BY <1>3 DEF Replacing, Seeded, N

LEMMA ReplacingHas ==
    ASSUME NEW r, NEW q, NEW t, NEW fs, Replacing(r, q, t, fs), NEW view, view = Over(t, q.tx, q.gone)
    PROVE  /\ q.pc = "closing" => q.stack = <<>>
           /\ Seeded(r, q, fs)
           /\ \E m : m = [i \in DOMAIN m |-> m[i]] /\ DOMAIN m \subseteq DOMAIN view /\ Matching(r, q, view, m)
<1> DEFINE N == {x[2] : x \in Nested(Payload(q.op))}
<1>1. PICK S \in SUBSET DOMAIN view : \E l \in [S -> N] : Matching(r, q, view, l)
  BY DEF Replacing
<1>2. PICK m \in [S -> N] : Matching(r, q, view, m)
  BY <1>1
<1>3. m = [i \in DOMAIN m |-> m[i]] /\ DOMAIN m \subseteq DOMAIN view
  <2> HIDE DEF N
  <2> QED
    OBVIOUS
<1>4. (q.pc = "closing" => q.stack = <<>>) /\ Seeded(r, q, fs)
  BY DEF Replacing, Seeded
<1> QED
  BY <1>2, <1>3, <1>4

\* The field that the payload goes below is not written by it.
LEMMA TopIs ==
    ASSUME NEW r, NEW q, NEW t, OnFields(q), Formed(r, q, t), q.pc \notin {"walking", "flushing"},
           NULL \notin DOMAIN t, NULL \notin NewOf(r), NEW view, view = Over(t, q.tx, q.gone)
    PROVE  Top(q) \notin Inner(r, q, t) /\ (Top(q) = NULL \/ Top(q) \in DOMAIN view)
<1>1. CASE q.op.kind = "seed"
  BY <1>1 DEF Top, Inner, Plot
<1>2. CASE q.op.kind # "seed"
  <2>1. Root(q) = {Top(q)}
    BY <1>2 DEF OnFields, Root, Top
  <2>2. Top(q) \in DOMAIN view
    BY <2>1 DEF Formed
  <2> QED
    BY <2>1, <2>2 DEF Inner
<1> QED
  BY <1>1, <1>2

\* The row of a node has had none before, and is not the one above all.
LEMMA FreshNode ==
    ASSUME NEW r, NEW q, NEW view, NEW m, NEW top, NEW node, Reads(r, q, view, m, top, node), Unambiguous(Payload(q.op)),
           NEW inner, DOMAIN top.existing \subseteq inner, Top(q) \notin inner, Top(q) = NULL \/ Top(q) \in DOMAIN view,
           NEW id, id # NULL, NEW ins, NEW ups, NodeFlush(r, q, view, top, id, node, ins, ups)
    PROVE  id \notin Owners(q, m)
<1>1. CASE id \notin DOMAIN view
  BY <1>1 DEF Reads, Owners
<1>2. CASE id \in DOMAIN top.existing /\ top.existing[id].key = node.key
  <2>1. id \notin DOMAIN m
    BY <1>2, NotTwice
  <2> QED
    BY <1>2, <2>1 DEF Owners
<1> QED
  BY <1>1, <1>2 DEF NodeFlush

\* What is known of request r in time that wants its payload stored.
LEMMA WantsIs ==
    ASSUME IInv, Traced, Calm, NEW r \in Requests, Open(r), InTimeNow(r), req[r].pc \in {"syncing", "closing"},
           Replaces(req[r])
    PROVE  /\ OnFields(req[r]) /\ PayloadIn(Payload(req[r].op)) /\ Unambiguous(Payload(req[r].op))
           /\ Within(r, req[r], fields) /\ Formed(r, req[r], fields)
           /\ NULL \notin DOMAIN View(r) /\ NULL \notin NewOf(r)
           /\ Top(req[r]) \notin Inner(r, req[r], fields) /\ (Top(req[r]) = NULL \/ Top(req[r]) \in DOMAIN View(r))
<1>1. ReqOK(req[r]) /\ req[r].pc \notin {"idle", "done"}
  BY OpIs DEF Open
<1>2. OnFields(req[r]) /\ PayloadIn(Payload(req[r].op)) /\ Unambiguous(Payload(req[r].op))
  <2>1. ASSUME NEW q, q = req[r] PROVE OnFields(q) /\ PayloadIn(Payload(q.op)) /\ Unambiguous(Payload(q.op))
    BY <1>1, <2>1, ReplacesIs
  <2> QED
    BY <2>1
<1>3. Within(r, req[r], fields) /\ Formed(r, req[r], fields) /\ Wood(fields) /\ NULL \notin NewOf(r)
  BY <1>2, InTimeIs DEF InTime
<1>4. View(r) = Over(fields, req[r].tx, req[r].gone) /\ DOMAIN View(r) \subseteq FieldIds
  BY ViewIs
<1>5. ASSUME NEW q, q = req[r], NEW t, t = fields, NEW view, view = View(r)
      PROVE  Top(q) \notin Inner(r, q, t) /\ (Top(q) = NULL \/ Top(q) \in DOMAIN view)
  <2>1. NULL \notin DOMAIN t
    BY <1>3, <1>5 DEF Wood
  <2>2. q.pc \notin {"walking", "flushing"}
    BY <1>5
  <2> QED
    BY <1>2, <1>3, <1>4, <1>5, <2>1, <2>2, TopIs
<1>6. NULL \notin DOMAIN View(r)
  BY <1>4, NullAssumption
<1> QED
  BY <1>2, <1>3, <1>5, <1>6

\* A node is flushed.
LEMMA SyncNodeMatches ==
    ASSUME IInv, Traced, Calm, Matches, NEW r \in Requests, SyncNode(r)
    PROVE  Matches'
<1> DEFINE p    == req[r]
           top  == Head(p.stack)
           node == Head(top.rest)
           same == {i \in DOMAIN top.existing : top.existing[i].key = node.key}
           id   == IF same = {} THEN NewId(r) ELSE CHOOSE i \in same : TRUE
           ins  == IF same = {} THEN [i \in {id} |-> NodeRow(node, top.form, top.parent)] ELSE Nothing
           ups  == IF same = {} \/ Known(r, top, id) = node.label THEN Pending(r)
                   ELSE Put(Pending(r), id, [label |-> node.label])
           f    == Flushed(p, r, ins, ups, p.doomed)
           q    == [f EXCEPT !.stack[1].rest = Tail(@)]
<1>1. p.pc = "syncing" /\ Open(r) /\ p = req[r] /\ top.rest # <<>>
  BY DEF SyncNode, Open
<1>2. Goes(r, IF Failure(r, ins, ups) # NULL THEN Refused(Failure(r, ins, ups), FALSE)
              ELSE Sync(r, q, top.form, id, node.subs))
  BY DEF SyncNode, Goes
<1>3. ReqOK(p) /\ StackOK(p)
  BY <1>1, OpIs
<1>4. CASE Failure(r, ins, ups) # NULL
  <2> HIDE DEF ins, ups
  <2>1. Goes(r, Done(500))
    BY <1>2, <1>4 DEF Refused
  <2> QED
    BY <1>1, <2>1, DoneMatches
<1>5. CASE Failure(r, ins, ups) = NULL
  <2>1. /\ p.stack # <<>> /\ DOMAIN p = DOMAIN Idle
    BY <1>1, <1>3 DEF ReqOK
  <2> DEFINE T == {p.stack[k] : k \in DOMAIN p.stack}
  <2>2. p.stack \in Seq(T) /\ \A k \in DOMAIN p.stack : p.stack[k].rest \in Seq(Nodes)
    BY <1>3 DEF StackOK
  <2> HIDE DEF T
  <2>3. top = p.stack[1] /\ 1 \in DOMAIN p.stack
    BY <2>1, <2>2
  <2> HIDE DEF p, top, node
  <2>4. /\ same = {} => id = NewId(r) /\ DOMAIN ins = {id} /\ ins[id] = NodeRow(node, top.form, top.parent)
                        /\ ups = Pending(r)
        /\ same # {} => id \in DOMAIN top.existing /\ top.existing[id].key = node.key /\ ins = Nothing
        /\ same # {} /\ Known(r, top, id) = node.label => ups = Pending(r)
        /\ same # {} /\ Known(r, top, id) # node.label => ups = Put(Pending(r), id, [label |-> node.label])
    <3> DEFINE row == NodeRow(node, top.form, top.parent)
               I == DOMAIN top.existing
    <3>1. CASE same = {}
      <4>1. id = NewId(r) /\ ups = Pending(r) /\ ins = [i \in {id} |-> row]
        BY <3>1
      <4> HIDE DEF ins, row, id, ups, same
      <4>2. DOMAIN ins = {id} /\ ins[id] = row
        BY <4>1
      <4> QED
        BY <3>1, <4>1, <4>2 DEF row
    <3>2. CASE same # {}
      <4>1. id \in same
        <5>1. PICK i : i \in same
          BY <3>2
        <5> HIDE DEF same
        <5> QED
          BY <3>2, <5>1
      <4>2. id \in I /\ top.existing[id].key = node.key
        <5> HIDE DEF id
        <5> QED
          BY <4>1
      <4>3. ins = Nothing
        BY <3>2
      <4> HIDE DEF same, id, ins
      <4>4. Known(r, top, id) = node.label => ups = Pending(r)
        BY <3>2
      <4>5. Known(r, top, id) # node.label => ups = Put(Pending(r), id, [label |-> node.label])
        BY <3>2
      <4> QED
        BY <3>2, <4>2, <4>3, <4>4, <4>5
    <3> QED
      BY <3>1, <3>2
  <2> HIDE DEF ins, id, ups, same
  <2>5. IsFiniteSet(DOMAIN ins)
    <3>1. CASE same = {}
      <4>1. DOMAIN ins = {id}
        BY <2>4, <3>1
      <4> QED
        BY <4>1, FS_Singleton
    <3>2. CASE same # {}
      BY <2>4, <3>2, NothingIs
    <3> QED
      BY <3>1, <3>2
  <2>6. /\ DOMAIN f = DOMAIN Idle /\ f.pc = p.pc /\ f.op = p.op /\ f.seen = p.seen
        /\ f.doomed = {} /\ f.moved = {} /\ f.stack = p.stack /\ HasFlushed(r, ins, ups, p.doomed, f)
        /\ f.walked = p.walked /\ f.field = p.field /\ f.late = p.late
    <3>1. ReqOK(req[r])
      BY <1>1, <1>3
    <3>2. FlushedAs(p, r, ins, ups, p.doomed, f)
      BY <2>5, <3>1, FlushedIs DEF p, FlushedAs
    <3>3. f.walked = p.walked /\ f.field = p.field /\ f.late = p.late
      BY <3>1, FlushedAlso, FlushedLate DEF p
    <3> QED
      BY <3>2, <3>3 DEF FlushedAs
  <2> HIDE DEF f
  <2> DEFINE top2 == [top EXCEPT !.rest = Tail(top.rest)]
             stack == [p.stack EXCEPT ![1] = top2]
             view2 == Over(fields, f.tx, f.gone)
             fr == Frame(r, q, top.form, id, node.subs)
  <2>7. /\ DOMAIN q = DOMAIN Idle /\ q.stack = stack /\ q.late = p.late /\ Plan(p, q)
        /\ q.moved = {} /\ q.doomed = {} /\ q.tx = f.tx /\ q.gone = f.gone /\ q.ftx = f.ftx
    BY <1>1, <2>1, <2>3, <2>6 DEF Idle, Plan
  <2> HIDE DEF q
  <2> DEFINE z == Sync(r, q, top.form, id, node.subs)
  <2>8. SameWork(q, z) /\ z.pc = "syncing" /\ z.late = q.late
    BY <2>7, SyncSame
  <2>9. z.stack = <<fr>> \o stack /\ z.ftx = f.ftx
    <3> HIDE DEF fr, stack
    <3> QED
      BY <2>7 DEF Sync, Idle, fr
  <2>10. Goes(r, z)
    BY <1>2, <1>5
  <2> HIDE DEF z
  <2> SUFFICES ASSUME ~raced, ~z.late, Replaces(z) PROVE Replacing(r, z, fields, forms)
    BY <1>1, <2>10, GoesMatches DEF Wants
  <2>11. Plan(p, z) /\ Cleared(p, z) /\ z.tx = f.tx /\ z.gone = f.gone
    BY <2>7, <2>8 DEF SameWork, Plan, Cleared
  <2>12. InTimeNow(r) /\ Replaces(p)
    <3>1. Replaces(p)
      BY <2>11, SameReplaces DEF Plan
    <3> QED
      BY <1>1, <2>7, <2>8, <3>1 DEF InTimeNow
  <2>13. /\ OnFields(p) /\ PayloadIn(Payload(p.op)) /\ Unambiguous(Payload(p.op))
         /\ Within(r, p, fields) /\ Formed(r, p, fields) /\ NULL \notin DOMAIN View(r) /\ NULL \notin NewOf(r)
         /\ Top(p) \notin Inner(r, p, fields) /\ (Top(p) = NULL \/ Top(p) \in DOMAIN View(r))
    BY <1>1, <2>12, WantsIs
  <2> DEFINE view == View(r)
  <2>14. view = Over(fields, p.tx, p.gone) /\ IsFiniteSet(DOMAIN view)
         /\ \A i \in DOMAIN view : DOMAIN view[i] = {"form", "parent", "key", "label"}
    BY <1>1, ViewIs DEF FieldOK
  <2>15. PICK m : m = [i \in DOMAIN m |-> m[i]] /\ DOMAIN m \subseteq DOMAIN view /\ Matching(r, p, view, m)
    <3>1. Replacing(r, p, fields, forms)
      BY <1>1, <2>12 DEF Matches, InTimeNow
    <3> QED
      BY <2>14, <3>1, ReplacingHas
  <2>16. Seeded(r, p, forms)
    <3>1. Replacing(r, p, fields, forms)
      BY <1>1, <2>12 DEF Matches, InTimeNow
    <3> QED
      BY <3>1, ReplacingHas
  <2> HIDE DEF view
  <2>17. Reads(r, p, view, m, top, node)
    BY <1>1, <2>2, <2>3, <2>13, <2>15 DEF Reads, node
  <2>18. top.form = To(r, p) /\ DOMAIN top.existing \subseteq Inner(r, p, fields) /\ DOMAIN Pending(r) = {} /\ p.moved = {}
    <3>1. top.form = To(r, p) /\ DOMAIN top.existing \subseteq Inner(r, p, fields)
      BY <2>3, <2>13 DEF Formed, Within
    <3>2. p.moved = {}
      BY <2>15 DEF Matching
    <3> QED
      BY <1>1, <3>1, <3>2 DEF Pending
  <2>19. NodeFlush(r, p, view, top, id, node, ins, ups) /\ id # NULL /\ DOMAIN ins \subseteq NewOf(r)
    <3>1. CASE same = {}
      <4>1. id \in NewOf(r) /\ id \notin DOMAIN view
        BY <1>1, <2>4, <2>12, <3>1, NewIdIs DEF view
      <4> QED
        BY <2>4, <2>13, <2>18, <3>1, <4>1 DEF NodeFlush
    <3>2. CASE same # {}
      <4>1. id \in DOMAIN top.existing /\ top.existing[id].key = node.key /\ DOMAIN ins = {}
        BY <2>4, <3>2, NothingIs
      <4>2. id \in DOMAIN view /\ (id \notin DOMAIN m => top.existing[id].label = view[id].label)
        <5>1. ReadOf(r, p, view, m, top)
          BY <2>17, NextNode DEF Framed
        <5> QED
          BY <4>1, <5>1 DEF ReadOf, Children, ChildrenOf
      <4>3. id \notin DOMAIN m
        BY <2>13, <2>17, <4>1, NotTwice
      <4>4. Known(r, top, id) = view[id].label
        <5>1. id \in DOMAIN p.tx => view[id] = p.tx[id]
          BY <2>14 DEF Over
        <5> QED
          BY <1>1, <4>2, <4>3, <5>1 DEF Known
      <4>5. \/ DOMAIN ups = {} /\ view[id].label = node.label
            \/ DOMAIN ups = {id} /\ ups[id] = [label |-> node.label]
        <5>1. CASE Known(r, top, id) = node.label
          BY <2>4, <2>18, <3>2, <4>4, <5>1
        <5>2. CASE Known(r, top, id) # node.label
          BY <2>4, <2>18, <3>2, <5>2 DEF Put
        <5> QED
          BY <5>1, <5>2
      <4>6. id # NULL
        BY <2>13, <4>2 DEF view
      <4> QED
        BY <4>1, <4>5, <4>6 DEF NodeFlush
    <3> QED
      BY <3>1, <3>2
  <2>20. id \notin Owners(p, m)
    <3>1. ASSUME NEW inner, inner = Inner(r, p, fields) PROVE id \notin Owners(p, m)
      BY <2>13, <2>17, <2>18, <2>19, <3>1, FreshNode DEF view
    <3> QED
      BY <3>1
  <2> DEFINE new == Saved(r, ins, ups)
             dead == Below(new, p.doomed)
             written == Written(r, ins, ups)
  <2>21. FlushOf(fields, p, new, written, dead, f) /\ SavedIs(view, ins, ups, new, written) /\ IsFiniteSet(DOMAIN new)
    <3>1. /\ FlushOf(fields, req[r], new, written, dead, f) /\ SavedIs(View(r), ins, ups, new, written)
          /\ IsFiniteSet(DOMAIN new)
      BY <1>1, <1>5, <2>5, <2>6, <2>19, FlushIs DEF p
    <3> QED
      BY <1>1, <3>1 DEF view
  <2> HIDE DEF new, written
  <2>22. view2 = RowsIn(new, DOMAIN new \ dead)
    <3>1. FieldsFit(p, fields)
      BY <1>1, OpIs DEF Fits
    <3>2. ASSUME NEW t, t = fields PROVE Over(t, f.tx, f.gone) = RowsIn(new, DOMAIN new \ dead)
      BY <2>21, <3>1, <3>2, FlushFits
    <3> QED
      BY <3>2
  <2> HIDE DEF view2
  <2>23. NodeStep(r, p, view, top, id, node, view2)
    BY <2>14, <2>17, <2>19, <2>20, <2>21, <2>22, NodeFlushed
  <2>24. FrameOf(r, p, view2, fr, id, node.subs)
    <3>1. view2 = Over(fields, q.tx, q.gone)
      BY <2>7 DEF view2
    <3> DEFINE there == {i \in ChildrenOf(view2, id) : view2[i].form = top.form}
               nodes == node.subs
    <3>2. fr = [form |-> top.form, parent |-> id, existing |-> [i \in there |-> view2[i]], rest |-> nodes,
                expected |-> {nodes[k].key : k \in 1..Len(nodes)}]
      BY <3>1 DEF Frame
    <3>3. there = Children(r, p, view2, id)
      BY <2>18 DEF Children
    <3> HIDE DEF fr, there, nodes
    <3>4. /\ fr.parent = id /\ fr.rest = nodes /\ fr.existing = [i \in there |-> view2[i]]
          /\ fr.expected = KeysOf(nodes)
      BY <3>2 DEF KeysOf
    <3>5. DOMAIN fr.existing = there /\ \A i \in DOMAIN fr.existing : fr.existing[i] = view2[i]
      BY <3>4
    <3>6. FrameOf(r, p, view2, fr, id, nodes)
      BY <3>3, <3>4, <3>5 DEF FrameOf
    <3> QED
      BY <3>6 DEF nodes
  <2> HIDE DEF fr
  <2>25. Pushed(r, p, z, view2, top, id, node.subs)
    <3>1. Shifted(top, top2)
      BY DEF Shifted
    <3>2. z.stack = <<fr>> \o [p.stack EXCEPT ![1] = top2]
      BY <2>9
    <3> DEFINE nodes == node.subs
    <3> HIDE DEF top2, nodes
    <3>3. FrameOf(r, p, view2, fr, id, nodes)
      BY <2>24 DEF nodes
    <3>4. Pushed(r, p, z, view2, top, id, nodes)
      BY <2>1, <2>2, <2>3, <3>1, <3>2, <3>3, PushedIs
    <3> QED
      BY <3>4 DEF nodes
  <2> HIDE DEF stack, top2
  <2> DEFINE m2 == With(m, id, node)
  <2>26. Before(r, p, view, m, top, id, node)
    BY <2>17, <2>20 DEF Before
  <2>27. m2 = [i \in DOMAIN m2 |-> m2[i]]
    BY DEF With
  <2>28. m2 = With(m, id, node)
    OBVIOUS
  <2> HIDE DEF m2
  <2>29. Matching(r, z, view2, m2)
    BY <2>2, <2>11, <2>23, <2>25, <2>26, <2>28, NodeMatches
  <2>30. DOMAIN m2 \subseteq DOMAIN view2
    <3>1. Stays(r, p, view, m, top, id, node, view2, m2)
      BY <2>23, <2>26, <2>28, StaysSo
    <3> QED
      BY <3>1 DEF Stays
  <2>31. Seeded(r, z, forms)
    <3>1. f.ftx = p.ftx
      BY <1>1, <2>6 DEF HasFlushed
    <3>2. To(r, z) = To(r, p) /\ z.op = p.op
      BY <2>11, SamePlan DEF Plan
    <3> QED
      BY <2>9, <2>16, <3>1, <3>2 DEF Seeded
  <2>32. ASSUME NEW t, t = fields, NEW fs, fs = forms PROVE Replacing(r, z, t, fs)
    <3>1. view2 = Over(t, z.tx, z.gone)
      BY <2>11, <2>32 DEF view2
    <3>2. Seeded(r, z, fs) /\ (z.pc = "closing" => z.stack = <<>>)
      BY <2>8, <2>31, <2>32
    <3> QED
      BY <2>27, <2>29, <2>30, <3>1, <3>2, ReplacingIs
  <2> QED
    BY <2>32
<1> QED
  BY <1>4, <1>5

\* A row that is found below others is one of them, or its parent is found, too.
LEMMA BelowSplit ==
    ASSUME NEW table, NEW S, IsFiniteSet(DOMAIN table), NEW i \in Below(table, S)
    PROVE  i \in S \/ table[i].parent \in Below(table, S)
<1> DEFINE B == Below(table, S)
           U == {j \in B : j \in S \/ table[j].parent \in B}
<1>1. /\ B \subseteq DOMAIN table /\ S \cap DOMAIN table \subseteq B
      /\ \A j \in DOMAIN table : table[j].parent \in B => j \in B
  BY BelowIs
<1>2. B \subseteq U
  <2>1. S \cap DOMAIN table \subseteq U /\ \A j \in DOMAIN table : table[j].parent \in U => j \in U
    <3> HIDE DEF B
    <3> QED
      BY <1>1
  <2> HIDE DEF U
  <2> QED
    BY <2>1, BelowLeast
<1> QED
  BY <1>2

LEMMA ViewKeys ==
    ASSUME IInv, NEW r \in Requests, Open(r)
    PROVE  KeysApart(View(r))
<1> DEFINE view == View(r)
           tx == req[r].tx
<1>1. view = Over(fields, tx, req[r].gone)
  BY ViewIs
<1>2. /\ DOMAIN view = (DOMAIN fields \ req[r].gone) \cup DOMAIN tx
      /\ \A i \in DOMAIN view : view[i] = IF i \in DOMAIN tx THEN tx[i] ELSE fields[i]
  BY <1>1 DEF Over
<1>3. \A i \in DOMAIN tx : \A j \in DOMAIN view \ {i} : FormKey(view[j]) # FormKey(tx[i])
  BY <1>1, OpIs DEF Fits, FieldsFit
<1>4. \A i, j \in DOMAIN fields : FormKey(fields[i]) = FormKey(fields[j]) => i = j
  BY OpIs DEF FieldsOK
<1> HIDE DEF view, tx
<1>5. ASSUME NEW i \in DOMAIN view, NEW j \in DOMAIN view, FormKey(view[i]) = FormKey(view[j]), i # j PROVE FALSE
  <2>1. CASE i \in DOMAIN tx
    BY <1>2, <1>3, <1>5, <2>1
  <2>2. CASE j \in DOMAIN tx
    BY <1>2, <1>3, <1>5, <2>2
  <2>3. CASE i \notin DOMAIN tx /\ j \notin DOMAIN tx
    BY <1>2, <1>4, <1>5, <2>3
  <2> QED
    BY <2>1, <2>2, <2>3
<1> QED
  BY <1>5 DEF KeysApart, view

\* All nodes below the row of the frame have their rows.
LEMMA EndThrough ==
    ASSUME NEW r, NEW q, NEW view, NEW m, NEW top, NEW S, Ends(r, q, view, m, top, S),
           NEW p, p = top.parent, NEW subs, subs = SubsOf(q, m, p)
    PROVE  /\ p \in Owners(q, m) /\ Through(q, view, m, p, Len(subs)) /\ Len(subs) \in Nat
           /\ top.expected = KeysOf(subs) /\ ReadOf(r, q, view, m, top)
<1>1. Framed(r, q, view, m, top)
  BY DEF Ends, Matching
<1>2. p \in Owners(q, m) /\ LeftOf(q, view, m, top) /\ ReadOf(r, q, view, m, top)
  BY <1>1 DEF Framed
<1>3. subs \in Seq(Nodes)
  BY <1>2, SubsAre DEF Ends
<1> DEFINE n == Len(subs) - Len(top.rest)
<1>4. Through(q, view, m, p, n) /\ top.expected = KeysOf(subs)
  BY <1>2 DEF LeftOf
<1>5. n = Len(subs) /\ Len(subs) \in Nat
  BY <1>3 DEF Ends
<1> HIDE DEF n
<1> QED
  BY <1>2, <1>4, <1>5

\* What is not named has no node.
LEMMA ObsoleteHasNone ==
    ASSUME NEW r, NEW q, NEW view, NEW m, NEW top, NEW S, Ends(r, q, view, m, top, S), NEW i \in S
    PROVE  i \notin DOMAIN m
<1> SUFFICES ASSUME i \in DOMAIN m PROVE FALSE
  OBVIOUS
<1> DEFINE p == top.parent
           subs == SubsOf(q, m, p)
<1>1. Through(q, view, m, p, Len(subs)) /\ top.expected = KeysOf(subs) /\ ReadOf(r, q, view, m, top)
  BY EndThrough
<1>2. i \in DOMAIN top.existing /\ top.existing[i].key \notin top.expected
  BY DEF Ends
<1>3. view[i].parent = p /\ top.existing[i].key = view[i].key
  BY <1>1, <1>2 DEF ReadOf, Children, ChildrenOf
<1>4. PICK k \in 1..Len(subs) : m[i] = subs[k]
  BY <1>1, <1>3 DEF Through
<1>5. view[i].key = m[i].key
  BY DEF Ends, Matching, Matched
<1> HIDE DEF subs
<1>6. m[i].key \in KeysOf(subs)
  BY <1>4 DEF KeysOf
<1> QED
  BY <1>1, <1>2, <1>3, <1>5, <1>6

\* A child that is named has its node.
LEMMA NamedHasOne ==
    ASSUME NEW r, NEW q, NEW view, NEW m, NEW top, NEW S, Ends(r, q, view, m, top, S),
           NEW i \in DOMAIN top.existing, i \notin S
    PROVE  i \in DOMAIN m
<1> DEFINE p == top.parent
           subs == SubsOf(q, m, p)
<1>1. Through(q, view, m, p, Len(subs)) /\ top.expected = KeysOf(subs) /\ ReadOf(r, q, view, m, top)
  BY EndThrough
<1>2. top.existing[i].key \in KeysOf(subs)
  BY <1>1 DEF Ends
<1>3. i \in DOMAIN view /\ view[i].form = To(r, q) /\ top.existing[i].key = view[i].key
  BY <1>1 DEF ReadOf, Children, ChildrenOf
<1>4. PICK k \in 1..Len(subs) : subs[k].key = view[i].key
  <2> HIDE DEF subs
  <2> QED
    BY <1>2, <1>3 DEF KeysOf
<1>5. PICK j \in DOMAIN m : view[j].parent = p /\ m[j] = subs[k]
  BY <1>1 DEF Through
<1>6. view[j].form = To(r, q) /\ view[j].key = m[j].key /\ j \in DOMAIN view
  BY DEF Ends, Matching, Matched
<1>7. FormKey(view[i]) = FormKey(view[j])
  <2> HIDE DEF subs
  <2> QED
    BY <1>3, <1>4, <1>5, <1>6 DEF FormKey
<1> QED
  BY <1>3, <1>6, <1>7 DEF Ends, KeysApart

\* Nor has what is below it.
LEMMA DoomedHaveNone ==
    ASSUME NEW r, NEW q, NEW view, NEW m, NEW top, NEW S, Ends(r, q, view, m, top, S),
           NEW inner, DOMAIN top.existing \subseteq inner, Top(q) \notin inner,
           \A i \in DOMAIN view : view[i].parent \in inner => i \in inner
    PROVE  Below(view, S) \cap Owners(q, m) = {}
<1> DEFINE U == inner \ DOMAIN m
<1>1. S \subseteq U
  BY ObsoleteHasNone DEF Ends
<1>2. \A i \in DOMAIN m : view[i].parent \in Owners(q, m)
  BY DEF Ends, Matching, Matched
<1>3. \A i \in DOMAIN view : view[i].parent \in U => i \in U
  BY <1>2 DEF Owners
<1>4. Below(view, S) \subseteq U
  <2> HIDE DEF U
  <2> QED
    BY <1>1, <1>3, BelowLeast DEF Ends
<1> QED
  BY <1>4 DEF Owners

\* After the end of a frame the same rows are matched.
LEMMA EndMatches ==
    ASSUME NEW r, NEW q, NEW view, NEW m, NEW top, NEW S, Ends(r, q, view, m, top, S),
           NEW inner, DOMAIN top.existing \subseteq inner, Top(q) \notin inner,
           \A i \in DOMAIN view : view[i].parent \in inner => i \in inner,
           NEW D, D = Below(view, S), NEW z, Plan(q, z), z.moved = {}, z.doomed = q.doomed \cup D, Popped(q, z)
    PROVE  Matching(r, z, view, m)
<1>1. SaysSame(r, q, z) /\ Matching(r, q, view, m)
  BY SamePayload DEF Ends
<1>2. Top(z) = Top(q) /\ To(r, z) = To(r, q) /\ Payload(z.op) = Payload(q.op) /\ Owners(z, m) = Owners(q, m)
  BY <1>1 DEF SaysSame
<1>3. D \cap Owners(q, m) = {}
  BY DoomedHaveNone
<1>4. D \subseteq DOMAIN view /\ S \subseteq D /\ \A i \in DOMAIN view : view[i].parent \in D => i \in D
  <2>1. /\ D \subseteq DOMAIN view /\ S \cap DOMAIN view \subseteq D
        /\ \A i \in DOMAIN view : view[i].parent \in D => i \in D
    BY BelowIs DEF Ends
  <2>2. S \subseteq DOMAIN view
    <3>1. ReadOf(r, q, view, m, top)
      BY EndThrough
    <3> QED
      BY <3>1 DEF ReadOf, Children, ChildrenOf, Ends
  <2> QED
    BY <2>1, <2>2
<1>5. ASSUME NEW i \in DOMAIN m PROVE Matched(r, z, view, m, i)
  <2>1. Matched(r, q, view, m, i)
    BY <1>1 DEF Matching
  <2> QED
    BY <1>2, <2>1 DEF Matched
<1>6. ASSUME NEW k \in DOMAIN z.stack PROVE Framed(r, z, view, m, z.stack[k])
  <2> DEFINE f == z.stack[k]
  <2>1. k + 1 \in DOMAIN q.stack /\ f = q.stack[k+1] /\ k + 1 # 1
    BY DEF Popped
  <2>2. Framed(r, q, view, m, f)
    BY <1>1, <2>1 DEF Matching
  <2>3. f.parent # top.parent
    BY <1>1, <2>1 DEF Matching, Ends
  <2> HIDE DEF f
  <2>4. f.parent \in Owners(q, m) /\ LeftOf(q, view, m, f) /\ ReadOf(r, q, view, m, f) /\ DOMAIN f.existing \cap q.doomed = {}
    BY <2>2 DEF Framed
  <2>5. LeftOf(z, view, m, f) /\ ReadOf(r, z, view, m, f)
    BY <1>1, <2>4 DEF SaysSame
  <2>6. ASSUME NEW i \in DOMAIN f.existing, i \in D PROVE FALSE
    <3>1. view[i].parent = f.parent
      BY <2>4 DEF ReadOf, Children, ChildrenOf
    <3>2. i \in S \/ view[i].parent \in D
      BY <2>6, BelowSplit DEF Ends
    <3>3. i \notin S
      <4>1. i \in S => view[i].parent = top.parent
        <5>1. ReadOf(r, q, view, m, top)
          BY EndThrough
        <5> QED
          BY <5>1 DEF ReadOf, Children, ChildrenOf, Ends
      <4> QED
        BY <2>3, <3>1, <4>1
    <3> QED
      BY <1>3, <2>4, <3>1, <3>2, <3>3
  <2>7. f.parent \in Owners(z, m) /\ DOMAIN f.existing \cap z.doomed = {}
    BY <1>2, <2>4, <2>6
  <2>8. Framed(r, z, view, m, f)
    BY <2>5, <2>7 DEF Framed
  <2> QED
    BY <2>8 DEF f
<1>7. ASSUME NEW j \in DOMAIN z.stack, NEW k \in DOMAIN z.stack, z.stack[j].parent = z.stack[k].parent PROVE j = k
  <2>1. j + 1 \in DOMAIN q.stack /\ k + 1 \in DOMAIN q.stack /\ q.stack[j+1].parent = q.stack[k+1].parent
    BY <1>7 DEF Popped
  <2>2. j + 1 = k + 1
    BY <1>1, <2>1 DEF Matching
  <2> QED
    BY <2>2 DEF Popped
<1>8. ASSUME NEW p \in Owners(z, m), \A k \in DOMAIN z.stack : z.stack[k].parent # p PROVE Finished(r, z, view, m, p)
  <2>1. /\ SubsOf(z, m, p) = SubsOf(q, m, p) /\ Children(r, z, view, p) = Children(r, q, view, p)
        /\ \A n : Through(z, view, m, p, n) <=> Through(q, view, m, p, n)
    BY <1>1 DEF SaysSame
  <2>2. Through(q, view, m, p, Len(SubsOf(q, m, p))) /\ Children(r, q, view, p) \subseteq DOMAIN m \cup z.doomed
    <3>1. CASE p = top.parent
      <4>1. Through(q, view, m, p, Len(SubsOf(q, m, p))) /\ ReadOf(r, q, view, m, top)
        BY <3>1, EndThrough
      <4>2. \A i \in DOMAIN top.existing : i \in DOMAIN m \cup D
        BY <1>4, NamedHasOne
      <4>3. Children(r, q, view, p) \subseteq DOMAIN m \cup DOMAIN top.existing
        BY <3>1, <4>1 DEF ReadOf
      <4> QED
        BY <4>1, <4>2, <4>3
    <3>2. CASE p # top.parent
      <4>1. \A k \in DOMAIN q.stack : q.stack[k].parent # p
        BY <1>8, <3>2 DEF Popped, Ends
      <4>2. Finished(r, q, view, m, p)
        BY <1>1, <1>2, <4>1 DEF Matching
      <4> QED
        BY <4>2 DEF Finished
    <3> QED
      BY <3>1, <3>2
  <2> QED
    BY <2>1, <2>2 DEF Finished
<1>9. /\ z.moved = {} /\ z.doomed \subseteq DOMAIN view /\ z.doomed \cap Owners(z, m) = {} /\ Top(z) \notin DOMAIN m
      /\ \A i \in DOMAIN view : view[i].parent \in z.doomed => i \in z.doomed
  BY <1>1, <1>2, <1>3, <1>4 DEF Matching
<1> QED
  BY <1>5, <1>6, <1>7, <1>8, <1>9 DEF Matching

\* The payload of a node is through.
LEMMA SyncEndMatches ==
    ASSUME IInv, Traced, Calm, Matches, NEW r \in Requests, SyncEnd(r)
    PROVE  Matches'
<1> DEFINE p == req[r]
           top == Head(p.stack)
           obsolete == {i \in DOMAIN top.existing : top.existing[i].key \notin top.expected}
           pc == IF Len(p.stack) = 1 THEN "closing" ELSE "syncing"
           rest == Tail(p.stack)
           doomed == p.doomed \cup Below(View(r), obsolete)
           q == [p EXCEPT !.pc = pc, !.stack = rest, !.doomed = doomed]
<1>1. p.pc = "syncing" /\ Open(r) /\ p = req[r] /\ top.rest = <<>>
  BY DEF SyncEnd, Open
<1>2. ReqOK(p) /\ StackOK(p)
  BY <1>1, OpIs
<1>3. DOMAIN req = Requests /\ DOMAIN p = DOMAIN Idle /\ p.stack # <<>>
  BY <1>1, <1>2 DEF IInv, TypeOK, ReqOK
<1>4. Goes(r, q)
  BY <1>3 DEF SyncEnd, Goes, Idle
<1>5. /\ obsolete \subseteq DOMAIN top.existing
      /\ \A i \in DOMAIN top.existing : i \in obsolete <=> top.existing[i].key \notin top.expected
  OBVIOUS
<1> DEFINE T == {p.stack[k] : k \in DOMAIN p.stack}
<1>6. p.stack \in Seq(T)
  BY <1>2 DEF StackOK
<1> HIDE DEF T, p, obsolete
<1>7. /\ Len(p.stack) \in Nat \ {0} /\ DOMAIN p.stack = 1..Len(p.stack)
      /\ DOMAIN rest = 1..(Len(p.stack) - 1) /\ \A k \in DOMAIN rest : rest[k] = p.stack[k+1]
      /\ top = p.stack[1] /\ (pc = "closing" => rest = <<>>)
  <2>1. /\ Len(p.stack) \in Nat \ {0} /\ DOMAIN p.stack = 1..Len(p.stack)
        /\ DOMAIN rest = 1..(Len(p.stack) - 1) /\ \A k \in DOMAIN rest : rest[k] = p.stack[k+1]
        /\ top = p.stack[1] /\ rest \in Seq(T) /\ Len(rest) = Len(p.stack) - 1
    BY <1>3, <1>6
  <2> HIDE DEF rest
  <2>2. pc = "closing" => Len(rest) = 0
    BY <2>1
  <2>3. Len(rest) = 0 => rest = <<>>
    BY <2>1
  <2> HIDE DEF pc
  <2> QED
    BY <2>1, <2>2, <2>3
<1> HIDE DEF rest, pc, top
<1>8. /\ q.pc = pc /\ q.stack = rest /\ q.doomed = doomed /\ Plan(p, q) /\ q.late = p.late
      /\ q.tx = p.tx /\ q.gone = p.gone /\ q.moved = p.moved /\ q.ftx = p.ftx
  BY <1>3 DEF Idle, Plan
<1> HIDE DEF q
<1> SUFFICES ASSUME ~raced, ~q.late, Replaces(q) PROVE Replacing(r, q, fields, forms)
  BY <1>1, <1>4, GoesMatches DEF Wants
<1>9. InTimeNow(r) /\ Replaces(p)
  <2>1. Replaces(p)
    BY <1>8, SameReplaces DEF Plan
  <2> QED
    BY <1>1, <1>8, <2>1 DEF InTimeNow
<1>10. /\ OnFields(p) /\ PayloadIn(Payload(p.op)) /\ Within(r, p, fields) /\ Formed(r, p, fields)
       /\ Top(p) \notin Inner(r, p, fields)
  BY <1>1, <1>9, WantsIs
<1>11. Base(r, p, fields) /\ EdgesIn(r, p, fields, View(r)) /\ IsFiniteSet(DOMAIN View(r))
  BY <1>1, <1>9, <1>10, WorkIs
<1> DEFINE view == View(r)
<1>12. view = Over(fields, p.tx, p.gone) /\ KeysApart(view)
  BY <1>1, ViewIs, ViewKeys
<1>13. PICK m : m = [i \in DOMAIN m |-> m[i]] /\ DOMAIN m \subseteq DOMAIN view /\ Matching(r, p, view, m)
  <2>1. Replacing(r, p, fields, forms)
    BY <1>1, <1>9 DEF Matches, InTimeNow
  <2> QED
    BY <1>12, <2>1, ReplacingHas
<1>14. Seeded(r, p, forms)
  <2>1. Replacing(r, p, fields, forms)
    BY <1>1, <1>9 DEF Matches, InTimeNow
  <2> QED
    BY <2>1, ReplacingHas
<1>15. Ends(r, p, view, m, top, obsolete)
  BY <1>1, <1>5, <1>7, <1>10, <1>11, <1>12, <1>13 DEF Ends
<1>16. Popped(p, q)
  BY <1>7, <1>8 DEF Popped
<1>17. ASSUME NEW t, t = fields
       PROVE  /\ DOMAIN top.existing \subseteq Inner(r, p, t) /\ Top(p) \notin Inner(r, p, t)
              /\ \A i \in DOMAIN view : view[i].parent \in Inner(r, p, t) => i \in Inner(r, p, t)
  <2>1. \A i \in DOMAIN view : view[i].parent \in Plot(r, p, t) => i \in Inner(r, p, t)
    BY <1>11, <1>17, PlotCloses
  <2>2. DOMAIN top.existing \subseteq Inner(r, p, t)
    BY <1>7, <1>10, <1>17 DEF Within
  <2>3. Inner(r, p, t) \subseteq Plot(r, p, t)
    BY DEF Inner
  <2> QED
    BY <1>10, <1>17, <2>1, <2>2, <2>3
<1> HIDE DEF view
<1>18. q.moved = {} /\ q.doomed = p.doomed \cup Below(view, obsolete)
  BY <1>8, <1>13 DEF Matching, view
<1> HIDE DEF doomed
<1>19. Matching(r, q, view, m)
  <2>1. ASSUME NEW inner, DOMAIN top.existing \subseteq inner, Top(p) \notin inner,
               \A i \in DOMAIN view : view[i].parent \in inner => i \in inner
        PROVE  Matching(r, q, view, m)
    BY <1>8, <1>15, <1>16, <1>18, <2>1, EndMatches
  <2>2. ASSUME NEW t, t = fields PROVE Matching(r, q, view, m)
    BY <1>17, <2>1, <2>2
  <2> QED
    BY <2>2
<1>20. Seeded(r, q, forms)
  <2>1. To(r, q) = To(r, p) /\ q.op = p.op
    BY <1>8, SamePlan DEF Plan
  <2> QED
    BY <1>8, <1>14, <2>1 DEF Seeded
<1>21. ASSUME NEW t, t = fields, NEW fs, fs = forms PROVE Replacing(r, q, t, fs)
  <2>1. view = Over(t, q.tx, q.gone)
    BY <1>8, <1>12, <1>21
  <2>2. Seeded(r, q, fs) /\ (q.pc = "closing" => q.stack = <<>>)
    BY <1>7, <1>8, <1>20, <1>21
  <2> QED
    BY <1>13, <1>19, <2>1, <2>2, ReplacingIs
<1> QED
  BY <1>21

\* Who does not want his payload stored need not have matched anything.
LEMMA NoWantMatches ==
    ASSUME IInv, Matches, NEW r \in Requests, NEW q, Goes(r, q), ~raced => ~Wants(q)
    PROVE  Matches'
BY GoesMatches

\* The first frame: nothing is matched.
LEMMA FirstFrame ==
    ASSUME NEW r, NEW z, NEW view, NEW f, z.moved = {}, z.doomed = {}, DOMAIN z.stack = {1}, z.stack[1] = f,
           PayloadIn(Payload(z.op)), FrameOf(r, z, view, f, Top(z), Payload(z.op))
    PROVE  Matching(r, z, view, Nothing)
<1> DEFINE nodes == Payload(z.op)
           m == Nothing
<1>1. DOMAIN m = {} /\ nodes \in Seq(Nodes)
  BY NothingIs DEF PayloadIn
<1> HIDE DEF m, nodes
<1>2. Owners(z, m) = {Top(z)} /\ SubsOf(z, m, Top(z)) = nodes
  BY <1>1 DEF Owners, SubsOf, nodes
<1>3. Len(nodes) \in Nat
  BY <1>1
<1>4. f.parent = Top(z) /\ f.rest = nodes /\ f.expected = KeysOf(nodes) /\ DOMAIN f.existing = Children(r, z, view, Top(z))
      /\ \A i \in DOMAIN f.existing : f.existing[i] = view[i]
  BY DEF FrameOf, nodes
<1>5. LeftOf(z, view, m, f)
  <2> DEFINE n == Len(nodes) - Len(f.rest)
  <2>1. n = 0 /\ Len(nodes) - Len(f.rest) = n /\ Len(f.rest) <= Len(nodes)
    BY <1>3, <1>4
  <2>2. \A k \in 1..Len(f.rest) : f.rest[k] = nodes[n + k]
    BY <1>3, <1>4, <2>1
  <2> HIDE DEF n
  <2>3. Through(z, view, m, f.parent, n)
    BY <1>1, <2>1 DEF Through
  <2> QED
    BY <1>2, <1>4, <2>1, <2>2, <2>3, LeftIs
<1>6. ReadOf(r, z, view, m, f)
  BY <1>4 DEF ReadOf
<1>7. Framed(r, z, view, m, f)
  BY <1>2, <1>4, <1>5, <1>6 DEF Framed
<1> QED
  BY <1>1, <1>2, <1>4, <1>7 DEF Matching, m

\* _sync_children begins with what is below the field of the request, or in its form.
LEMMA StartMatches ==
    ASSUME NEW r, NEW q, DOMAIN q = DOMAIN Idle, q.stack = <<>>, q.moved = {}, q.doomed = {},
           PayloadIn(Payload(q.op)), Seeded(r, q, forms)
    PROVE  Replacing(r, Sync(r, q, To(r, q), Top(q), Payload(q.op)), fields, forms)
<1> DEFINE form == To(r, q)
           top == Top(q)
           nodes == Payload(q.op)
           z == Sync(r, q, form, top, nodes)
           f == Frame(r, q, form, top, nodes)
           view == Over(fields, q.tx, q.gone)
<1> HIDE DEF form, top, nodes
<1>1. SameWork(q, z) /\ z.pc = "syncing"
  BY SyncSame
<1>2. z.stack = <<f>> \o q.stack /\ z.ftx = q.ftx
  <2> HIDE DEF f
  <2> QED
    BY DEF Sync, Idle, f
<1>3. DOMAIN z.stack = {1} /\ z.stack[1] = f
  <2> HIDE DEF f
  <2>1. <<f>> \o q.stack = <<f>>
    OBVIOUS
  <2> QED
    BY <1>2, <2>1
<1> HIDE DEF z
<1>4. Plan(q, z) /\ z.moved = {} /\ z.doomed = {} /\ z.tx = q.tx /\ z.gone = q.gone
  BY <1>1 DEF SameWork
<1>5. Top(z) = top /\ To(r, z) = form /\ Payload(z.op) = nodes
  BY <1>4, SamePayload DEF SaysSame, top, form, nodes
<1>6. FrameOf(r, z, view, f, top, nodes)
  <2> DEFINE there == {i \in ChildrenOf(view, top) : view[i].form = form}
  <2>1. f = [form |-> form, parent |-> top, existing |-> [i \in there |-> view[i]], rest |-> nodes,
             expected |-> {nodes[k].key : k \in 1..Len(nodes)}]
    BY DEF Frame
  <2>2. there = Children(r, z, view, top)
    BY <1>5 DEF Children
  <2> HIDE DEF f, there, view
  <2>3. f.parent = top /\ f.rest = nodes /\ f.existing = [i \in there |-> view[i]] /\ f.expected = KeysOf(nodes)
    BY <2>1 DEF KeysOf
  <2>4. DOMAIN f.existing = there /\ \A i \in DOMAIN f.existing : f.existing[i] = view[i]
    BY <2>3
  <2> QED
    BY <2>2, <2>3, <2>4 DEF FrameOf
<1> HIDE DEF f, view
<1>7. Matching(r, z, view, Nothing)
  BY <1>3, <1>4, <1>5, <1>6, FirstFrame DEF nodes
<1>8. Seeded(r, z, forms)
  <2>1. z.op = q.op
    BY <1>4 DEF Plan
  <2> QED
    BY <1>2, <1>5, <2>1 DEF Seeded, form
<1>9. ASSUME NEW t, t = fields, NEW fs, fs = forms PROVE Replacing(r, z, t, fs)
  <2> DEFINE m == Nothing
  <2>1. DOMAIN m = {} /\ m = [i \in DOMAIN m |-> m[i]]
    BY NothingIs DEF Nothing
  <2>2. view = Over(t, z.tx, z.gone) /\ Matching(r, z, view, m)
    BY <1>4, <1>7, <1>9 DEF view
  <2> HIDE DEF m
  <2>3. DOMAIN m \subseteq DOMAIN view /\ Seeded(r, z, fs) /\ (z.pc = "closing" => z.stack = <<>>)
    BY <1>1, <1>8, <1>9, <2>1
  <2> QED
    BY <2>1, <2>2, <2>3, ReplacingIs
<1> QED
  BY <1>9 DEF z, form, top, nodes

\* The form that a seed has flushed, or found as it is to be, has the name that it says.
LEMMA SeedWritten ==
    ASSUME NEW r, NEW p, NEW q, q.op = p.op, q.seen = p.seen, p.op.kind = "seed", p.pc = "flushing", ~p.late,
           p.ftx = Nothing, Found(p, forms), FormWritten(r, p, q), FormsOK(forms), FormOK(p.op.row)
    PROVE  Seeded(r, q, forms)
<1> DEFINE o == p.op
           id == To(r, p)
           fsview == Over(forms, q.ftx, {})
<1>1. To(r, q) = id
  BY DEF To
<1>2. p.seen # NULL => id \in DOMAIN forms /\ forms[id] = p.seen.row
  BY DEF Found, To
<1> HIDE DEF id
<1>3. id \in DOMAIN fsview /\ fsview[id].name = o.row.name
  <2>1. CASE p.seen # NULL /\ p.seen.row = o.row /\ q.ftx = p.ftx
    <3>1. DOMAIN q.ftx = {}
      BY <2>1, NothingIs
    <3>2. id \in DOMAIN fsview /\ fsview[id] = forms[id]
      BY <1>2, <2>1, <3>1 DEF Over
    <3> QED
      BY <1>2, <2>1, <3>2
  <2>2. CASE /\ DOMAIN q.ftx = {id}
             /\ q.ftx[id] = IF p.seen = NULL THEN o.row ELSE Flush(forms[id], p.seen.row, o.row)
    <3>1. id \in DOMAIN fsview /\ fsview[id] = q.ftx[id]
      BY <2>2 DEF Over
    <3>2. CASE p.seen = NULL
      BY <2>2, <3>1, <3>2
    <3>3. CASE p.seen # NULL
      <4> DEFINE row == forms[id]
                 new == o.row
      <4>1. row = p.seen.row /\ DOMAIN row = {"name", "is_active"}
        BY <1>2, <3>3 DEF FormsOK, FormOK
      <4>2. fsview[id] = Flush(row, row, new)
        BY <2>2, <3>1, <3>3, <4>1
      <4> HIDE DEF row, new
      <4>3. DOMAIN Flush(row, row, new) = {"name", "is_active"}
        BY <4>1 DEF Flush
      <4>4. Flush(row, row, new).name = IF "name" \in Dirty(row, new) THEN new.name ELSE row.name
        BY <4>1 DEF Flush
      <4>5. "name" \in DOMAIN new => ("name" \in Dirty(row, new) <=> new.name # row.name)
        BY DEF Dirty
      <4> QED
        BY <3>1, <4>2, <4>4, <4>5 DEF new, FormOK
    <3> QED
      BY <3>2, <3>3
  <2> QED
    BY <2>1, <2>2 DEF FormWritten, id
<1> HIDE DEF fsview
<1>4. To(r, q) \in DOMAIN fsview /\ fsview[To(r, q)].name = q.op.row.name
  BY <1>1, <1>3
<1> QED
  BY <1>4 DEF Seeded, fsview

LEMMA FlushFormMatches ==
    ASSUME IInv, Traced, Calm, Matches, FormsFound, NEW r \in Requests, FlushForm(r)
    PROVE  Matches'
<1> DEFINE p == req[r]
           id == To(r, p)
           nodes == p.op.fields
<1>1. p.pc = "flushing" /\ p.op.kind = "seed" /\ Open(r)
  BY FlushFormIs
<1>2. CASE Goes(r, Done(500))
  BY <1>1, <1>2, DoneMatches
<1>3. ASSUME NEW q, SameButForms(p, q), FormWritten(r, p, q), Goes(r, Sync(r, q, id, NULL, nodes)) PROVE Matches'
  <2> DEFINE z == Sync(r, q, id, NULL, nodes)
  <2>1. p = req[r] /\ ReqOK(p) /\ AtWork(p) /\ Body(p.op) /\ FormsOK(forms)
    BY <1>1, OpIs
  <2>2. Goes(r, z)
    BY <1>3
  <2>3. DOMAIN q = DOMAIN Idle /\ q.stack = p.stack /\ q.late = p.late /\ SameWork(p, q)
    BY <1>3 DEF SameButForms
  <2> HIDE DEF id, nodes, p
  <2>4. SameWork(q, z) /\ z.late = q.late
    BY <2>3, SyncSame
  <2> HIDE DEF z
  <2>5. q.op = p.op /\ q.seen = p.seen /\ Plan(p, q)
    BY <2>3 DEF SameWork, Plan
  <2>6. id = To(r, q) /\ NULL = Top(q) /\ nodes = Payload(q.op)
    BY <1>1, <2>5 DEF To, Top, Payload, id, nodes
  <2>7. ASSUME ~raced, Wants(z) PROVE Replacing(r, z, fields, forms)
    <3>1. InTimeNow(r) /\ Replaces(z) /\ ~p.late
      BY <2>1, <2>3, <2>4, <2>7 DEF Wants, InTimeNow
    <3>2. Replaces(p)
      <4>1. p.op = z.op /\ p.seen = z.seen
        BY <2>4, <2>5 DEF SameWork, Plan
      <4> QED
        BY <3>1, <4>1, SameReplaces
    <3>3. Unwritten(p)
      BY <1>1, <2>1, <3>1, InTimeIs DEF InTime
    <3>4. PayloadIn(Payload(q.op))
      BY <1>1, <2>1, <2>5, <3>2, ReplacesIs
    <3>5. q.stack = <<>> /\ q.moved = {} /\ q.doomed = {}
      BY <1>1, <2>3, <3>3 DEF Unwritten, SameWork
    <3>6. Seeded(r, q, forms)
      <4>1. Found(p, forms) /\ p.ftx = Nothing /\ FormOK(p.op.row)
        BY <1>1, <2>1 DEF FormsFound, AtWork, Body
      <4> QED
        BY <1>1, <1>3, <2>1, <2>5, <3>1, <4>1, SeedWritten
    <3>7. Replacing(r, Sync(r, q, To(r, q), Top(q), Payload(q.op)), fields, forms)
      BY <2>3, <3>4, <3>5, <3>6, StartMatches
    <3> QED
      BY <2>6, <3>7 DEF z
  <2> QED
    BY <2>2, <2>7, GoesMatches
<1> QED
  BY <1>2, <1>3, FlushFormIs

LEMMA FlushFieldMatches ==
    ASSUME IInv, Traced, Calm, Matches, NEW r \in Requests, FlushField(r)
    PROVE  Matches'
<1> DEFINE p   == req[r]
           o   == p.op
           new == o.kind = "newField"
           id  == IF new THEN NewId(r) ELSE o.field
           to  == IF new THEN NodeRow(o.node, o.form, o.parent) ELSE Assign(p.seen, o.set)
           ins == IF new THEN [i \in {id} |-> to] ELSE Nothing
           changed == {c \in DOMAIN to : ~new /\ to[c] # p.seen[c]}
           ups == IF changed = {} THEN Nothing ELSE [i \in {id} |-> [c \in changed |-> to[c]]]
           f   == Flushed(p, r, ins, ups, {})
           q   == [f EXCEPT !.field = id]
           moving == [q EXCEPT !.pc = "moving", !.visit = {id}]
           closing == [q EXCEPT !.pc = "closing"]
<1>1. p.pc = "flushing" /\ o.kind \in {"newField", "editField"} /\ Open(r) /\ p = req[r]
  BY DEF FlushField, Open
<1>2. Goes(r, IF Failure(r, ins, ups) # NULL THEN Refused(Failure(r, ins, ups), FALSE)
              ELSE IF new THEN Sync(r, q, o.form, id, o.node.subs)
              ELSE IF "form" \in changed THEN moving
              ELSE IF o.subs # NULL THEN Sync(r, q, to.form, id, o.subs)
              ELSE closing)
  BY DEF FlushField, Goes
<1>3. ReqOK(p) /\ DOMAIN p = DOMAIN Idle /\ p.stack = <<>>
  BY <1>1, OpIs DEF ReqOK
<1>4. CASE Failure(r, ins, ups) # NULL
  <2> HIDE DEF ins, ups
  <2>1. Goes(r, Done(500))
    BY <1>2, <1>4 DEF Refused
  <2> QED
    BY <1>1, <2>1, DoneMatches
<1>5. CASE Failure(r, ins, ups) = NULL
  <2>1. IsFiniteSet(DOMAIN ins)
    <3>1. IsFiniteSet(DOMAIN Nothing) /\ IsFiniteSet({id})
      BY NothingIs, FS_Singleton
    <3>2. ins = Nothing \/ DOMAIN ins = {id}
      <4> HIDE DEF id, to, new
      <4>1. CASE new
        <5>1. ins = [i \in {id} |-> to]
          BY <4>1
        <5> HIDE DEF ins
        <5> QED
          BY <5>1
      <4>2. CASE ~new
        BY <4>2
      <4> QED
        BY <4>1, <4>2
    <3> HIDE DEF id, ins
    <3> QED
      BY <3>1, <3>2
  <2>2. /\ new => id = NewId(r)
        /\ ~new => id = o.field /\ to = Assign(p.seen, o.set)
        /\ new \/ o.kind = "editField"
    BY <1>1
  <2> HIDE DEF ins, ups, to, changed, id
  <2>3. /\ DOMAIN f = DOMAIN Idle /\ f.pc = p.pc /\ f.op = p.op /\ f.seen = p.seen
        /\ f.doomed = {} /\ f.moved = {} /\ f.stack = p.stack
    <3>1. ReqOK(req[r]) /\ IsFiniteSet(DOMAIN ins)
      BY <1>3, <2>1
    <3>2. FlushedAs(p, r, ins, ups, {}, f)
      BY <3>1, FlushedIs DEF FlushedAs
    <3> QED
      BY <3>2 DEF FlushedAs
  <2> HIDE DEF f, p
  <2>4. /\ DOMAIN q = DOMAIN Idle /\ q.op = p.op /\ q.seen = p.seen /\ q.stack = <<>> /\ q.field = id
        /\ q.moved = {} /\ q.doomed = {}
    BY <1>3, <2>3 DEF Idle
  <2> HIDE DEF q
  <2>5. /\ moving.pc = "moving" /\ closing.op = o /\ closing.seen = p.seen
    BY <2>4 DEF Idle
  <2> HIDE DEF moving, closing
  \* What follows if the payload is to be stored.
  <2>6. ASSUME NEW z, z = Sync(r, q, To(r, q), Top(q), Payload(q.op)), Goes(r, z) PROVE Matches'
    <3>1. ASSUME Wants(z) PROVE Replacing(r, z, fields, forms)
      <4>1. Replaces(p)
        <5>1. SameWork(q, z)
          BY <2>4, <2>6, SyncSame
        <5>2. z.op = p.op /\ z.seen = p.seen
          BY <2>4, <5>1 DEF SameWork, Plan
        <5> QED
          BY <3>1, <5>2, SameReplaces DEF Wants
      <4>2. PayloadIn(Payload(q.op))
        BY <1>1, <1>3, <2>4, <4>1, ReplacesIs
      <4>3. Seeded(r, q, forms)
        BY <1>1, <2>4 DEF Seeded
      <4> QED
        BY <2>4, <2>6, <4>2, <4>3, StartMatches
    <3>2. Goes(r, z)
      BY <2>6
    <3> QED
      BY <3>1, <3>2, GoesMatches
  <2>7. CASE new
    <3>1. To(r, q) = o.form /\ Top(q) = id /\ Payload(q.op) = o.node.subs
      BY <2>4, <2>7 DEF To, Top, Payload
    <3>2. Goes(r, Sync(r, q, o.form, id, o.node.subs))
      BY <1>2, <1>5, <2>7
    <3>3. Goes(r, Sync(r, q, To(r, q), Top(q), Payload(q.op)))
      BY <3>1, <3>2
    <3> QED
      BY <2>6, <3>3
  <2>8. CASE ~new /\ "form" \in changed
    <3>1. Goes(r, moving)
      BY <1>2, <1>5, <2>8
    <3>2. ~Wants(moving)
      BY <2>5 DEF Wants
    <3> QED
      BY <3>1, <3>2, NoWantMatches
  <2>9. CASE ~new /\ "form" \notin changed /\ o.subs # NULL
    <3>1. To(r, q) = to.form /\ Top(q) = id /\ Payload(q.op) = o.subs
      BY <2>2, <2>4, <2>9 DEF To, Top, Payload
    <3>2. Goes(r, Sync(r, q, to.form, id, o.subs))
      BY <1>2, <1>5, <2>9
    <3>3. Goes(r, Sync(r, q, To(r, q), Top(q), Payload(q.op)))
      BY <3>1, <3>2
    <3> QED
      BY <2>6, <3>3
  <2>10. CASE ~new /\ "form" \notin changed /\ o.subs = NULL
    <3>1. Goes(r, closing)
      BY <1>2, <1>5, <2>10
    <3>2. ~Wants(closing)
      BY <2>2, <2>5, <2>10 DEF Wants, Replaces
    <3> QED
      BY <3>1, <3>2, NoWantMatches
  <2> QED
    BY <2>7, <2>8, <2>9, <2>10
<1> QED
  BY <1>4, <1>5

LEMMA LoadMatches ==
    ASSUME IInv, Matches, NEW r \in Requests, NEW o \in Ops[r], Load(r, o)
    PROVE  Matches'
<1>1. FirstStage(o) \in {"walking", "flushing"} \/ o.kind \in {"newForm", "editForm", "dropForm", "dropField"}
  BY DEF FirstStage
<1>2. ASSUME NEW q, Loaded(o, q) PROVE ~Wants(q)
  <2>1. q.pc = FirstStage(o) /\ q.op = o
    BY <1>2 DEF Loaded
  <2> QED
    BY <1>1, <2>1 DEF Wants, Replaces, OnFields
<1> QED
  BY <1>2, LoadGoes, DoneMatches, NoWantMatches

LEMMA WalkMatches ==
    ASSUME IInv, Matches, NEW r \in Requests, Walk(r)
    PROVE  Matches'
<1> DEFINE p == req[r]
           o == p.op
           first == p.walked = Nothing
           there == p.up \in DOMAIN p.walked \cup DOMAIN fields
           other == Ancestor(r).form # Assign(p.seen, o.set).form
           up == Ancestor(r).parent
           walked == IF there THEN Put(p.walked, p.up, Ancestor(r)) ELSE p.walked
           over == [p EXCEPT !.pc = "flushing", !.up = NULL, !.walked = walked]
           on == [p EXCEPT !.up = up, !.walked = walked]
<1>1. p.pc = "walking" /\ Open(r)
  BY DEF Walk, Open
<1>2. DOMAIN p = DOMAIN Idle
  BY <1>1, OpIs DEF ReqOK
<1>3. Goes(r, IF first /\ ~there THEN Done(404)
              ELSE IF first /\ other THEN Done(422)
              ELSE IF there /\ p.up = o.field THEN Done(422)
              ELSE IF ~there \/ up = NULL THEN over ELSE on)
  BY DEF Walk, Goes
<1> HIDE DEF first, there, other, walked, up, o
<1>4. ~Wants(over) /\ ~Wants(on)
  <2> HIDE DEF p
  <2>1. over.pc = "flushing" /\ on.pc = p.pc
    BY <1>2 DEF Idle
  <2> HIDE DEF over, on
  <2> QED
    BY <1>1, <2>1 DEF Wants, p
<1> HIDE DEF over, on, p
<1>5. CASE Goes(r, Done(404)) \/ Goes(r, Done(422))
  BY <1>5, DoneMatches
<1>6. CASE Goes(r, over) \/ Goes(r, on)
  BY <1>4, <1>6, NoWantMatches
<1> QED
  BY <1>3, <1>5, <1>6

\* Who moves a tree to another form does not replace what is below its root.
LEMMA MoveMatches ==
    ASSUME IInv, Traced, Calm, Matches, NEW r \in Requests, Move(r)
    PROVE  Matches'
<1> DEFINE p == req[r]
           o == p.op
           kids(i) == ChildrenOf(View(r), i) \ p.moved
           visit(i) == (p.visit \ {i}) \cup kids(i)
           moved(i) == p.moved \cup kids(i)
           q(i) == [p EXCEPT !.visit = visit(i), !.moved = moved(i)]
<1>1. p.pc = "moving" /\ Open(r) /\ p = req[r]
  BY DEF Move, Open
<1>2. PICK i \in p.visit :
         Goes(r, IF q(i).visit # {} THEN q(i)
                 ELSE IF o.subs # NULL THEN Sync(r, q(i), o.set.form, q(i).field, o.subs)
                 ELSE [q(i) EXCEPT !.pc = "closing"])
  BY DEF Move, Goes
<1>3. DOMAIN p = DOMAIN Idle /\ o.kind = "editField"
  <2>1. ReqOK(p) /\ AtWork(p)
    BY <1>1, OpIs
  <2> QED
    BY <1>1, <2>1 DEF ReqOK, AtWork
<1> DEFINE z == q(i)
<1>4. Goes(r, IF z.visit # {} THEN z
              ELSE IF o.subs # NULL THEN Sync(r, z, o.set.form, z.field, o.subs)
              ELSE [z EXCEPT !.pc = "closing"])
  BY <1>2
<1> HIDE DEF visit, moved, p
<1>5. DOMAIN z = DOMAIN Idle /\ Plan(p, z) /\ z.late = p.late
  BY <1>1, <1>3 DEF Idle, Plan
<1> HIDE DEF z
<1>6. ASSUME NEW y, Plan(p, y), y.late = p.late, ~raced PROVE ~Wants(y)
  <2> SUFFICES ASSUME Wants(y) PROVE FALSE
    OBVIOUS
  <2>1. InTimeNow(r) /\ Replaces(p)
    <3>1. Replaces(p)
      BY <1>6, SameReplaces DEF Wants, Plan
    <3> QED
      BY <1>1, <1>6, <3>1 DEF Wants, InTimeNow
  <2>2. Formed(r, p, fields)
    BY <1>1, <1>3, <2>1, InTimeIs DEF InTime, OnFields
  <2>3. p.seen.form # To(r, p)
    BY <1>1, <2>2 DEF Formed
  <2> QED
    BY <1>3, <2>1, <2>3 DEF Replaces, To
<1>7. CASE z.visit # {}
  BY <1>4, <1>5, <1>6, <1>7, NoWantMatches
<1>8. CASE z.visit = {} /\ o.subs # NULL
  <2> DEFINE form == o.set.form
             top == z.field
             nodes == o.subs
             y == Sync(r, z, form, top, nodes)
  <2>1. Goes(r, y)
    BY <1>4, <1>8
  <2> HIDE DEF form, top, nodes
  <2>2. SameWork(z, y) /\ y.late = z.late
    BY <1>5, SyncSame
  <2> HIDE DEF y
  <2>3. Plan(p, y) /\ y.late = p.late
    BY <1>5, <2>2 DEF SameWork, Plan
  <2> QED
    BY <1>6, <2>1, <2>3, NoWantMatches
<1>9. CASE z.visit = {} /\ o.subs = NULL
  <2> DEFINE y == [z EXCEPT !.pc = "closing"]
  <2>1. Goes(r, y)
    BY <1>4, <1>9
  <2>2. Plan(p, y) /\ y.late = p.late
    BY <1>5 DEF Plan, Idle
  <2> HIDE DEF y
  <2> QED
    BY <1>6, <2>1, <2>2, NoWantMatches
<1> QED
  BY <1>7, <1>8, <1>9

\* Who commits has overtaken all others.
LEMMA AnswerMatches ==
    ASSUME IInv, NEW r \in Requests, req' = Answer(r, 200)
    PROVE  Matches'
<1>1. ASSUME NEW s \in Requests PROVE ~Wants(req'[s])
  <2>1. CASE s = r
    BY <2>1 DEF Answer, Done, Idle, Wants
  <2>2. CASE s # r /\ Open(s)
    <3> DEFINE q == req[s]
    <3>1. DOMAIN q = DOMAIN Idle
      BY DEF IInv, TypeOK, ReqOK
    <3>2. req'[s] = [q EXCEPT !.late = TRUE]
      BY <2>2 DEF Answer
    <3> HIDE DEF q
    <3>3. req'[s].late
      BY <3>1, <3>2 DEF Idle
    <3> QED
      BY <3>3 DEF Wants
  <2>3. CASE s # r /\ ~Open(s)
    <3>1. req'[s] = req[s]
      BY <2>3 DEF Answer
    <3> QED
      BY <2>3, <3>1 DEF Open, Wants
  <2> QED
    BY <2>1, <2>2, <2>3
<1> QED
  BY <1>1 DEF Matches, Wants

LEMMA InitMatches == Init => Matches
<1> SUFFICES ASSUME Init PROVE Matches
  OBVIOUS
<1>1. \A r \in Requests : req[r].pc = "idle"
  BY DEF Init, Idle
<1> QED
  BY <1>1 DEF Matches

LEMMA NextMatches ==
    ASSUME IInv, Traced, Calm, Matches, FormsFound, [Next]_vars
    PROVE  Matches'
<1>1. ASSUME NEW r \in Requests, NEW o \in Ops[r], Load(r, o) PROVE Matches'
  BY <1>1, LoadMatches
<1>2. ASSUME NEW r \in Requests, Proceed(r) PROVE Matches'
  <2>1. CASE Walk(r)
    BY <2>1, WalkMatches
  <2>2. CASE FlushField(r)
    BY <2>2, FlushFieldMatches
  <2>3. CASE FlushForm(r)
    BY <2>3, FlushFormMatches
  <2>4. CASE Move(r)
    BY <2>4, MoveMatches
  <2>5. CASE SyncNode(r)
    BY <2>5, SyncNodeMatches
  <2>6. CASE SyncEnd(r)
    BY <2>6, SyncEndMatches
  <2>7. CASE CommitFields(r)
    <3>1. CASE Failure(r, Nothing, Pending(r)) # NULL
      <4>1. \E code : Goes(r, Done(code))
        BY <2>7, <3>1 DEF CommitFields, Goes, Refused
      <4> QED
        BY <4>1, DoneMatches
    <3>2. CASE Failure(r, Nothing, Pending(r)) = NULL
      <4>1. req' = Answer(r, 200)
        BY <2>7, <3>2 DEF CommitFields
      <4> QED
        BY <4>1, AnswerMatches
    <3> QED
      BY <3>1, <3>2
  <2>8. CASE CommitForm(r)
    <3>1. Goes(r, Done(500)) \/ Goes(r, Done(409)) \/ req' = Answer(r, 200)
      BY <2>8 DEF CommitForm, Goes
    <3> QED
      BY <3>1, DoneMatches, AnswerMatches
  <2>9. CASE CommitDrop(r)
    <3>1. req' = Answer(r, 200)
      BY <2>9 DEF CommitDrop
    <3> QED
      BY <3>1, AnswerMatches
  <2> QED
    BY <1>2, <2>1, <2>2, <2>3, <2>4, <2>5, <2>6, <2>7, <2>8, <2>9 DEF Proceed
<1>3. ASSUME NEW r \in Requests, Abort(r) PROVE Matches'
  <2>1. Goes(r, Done(500))
    BY <1>3 DEF Abort, Goes
  <2> QED
    BY <2>1, DoneMatches
<1>4. CASE UNCHANGED vars
  BY <1>4 DEF vars, Matches
<1> QED
  BY <1>1, <1>2, <1>3, <1>4 DEF Next, Terminated

(***************************************************************************)
(* What a commit leaves of a payload.                                      *)
(***************************************************************************)

\* All nodes below a row, and no other children, are there.
LEMMA AllThrough ==
    ASSUME NEW r, NEW q, NEW view, NEW m, NEW u, Completed(r, q, view, m, u), NEW p \in Owners(q, m)
    PROVE  /\ Through(q, view, m, p, Len(SubsOf(q, m, p)))
           /\ \A i \in DOMAIN u : u[i].form = To(r, q) /\ u[i].parent = p => i \in DOMAIN m
<1>1. DOMAIN q.stack = {}
  BY DEF Completed
<1>2. Finished(r, q, view, m, p)
  BY <1>1 DEF Completed, Matching
<1> QED
  BY <1>2 DEF Finished, Completed, Children, ChildrenOf

\* The rows that have nodes are there, of the form, and hang below each other or the top.
LEMMA RowsThrough ==
    ASSUME NEW r, NEW q, NEW view, NEW m, NEW u, Completed(r, q, view, m, u), NEW i \in DOMAIN m
    PROVE  /\ i \in DOMAIN u /\ u[i] = view[i] /\ Matched(r, q, view, m, i)
           /\ u[i].form = To(r, q) /\ u[i].parent \in Owners(q, m)
BY DEF Completed, Matching, Matched, Owners

\* What is shown are the rows that have nodes.
LEMMA ShownIs ==
    ASSUME NEW r, NEW q, NEW view, NEW m, NEW u, Completed(r, q, view, m, u)
    PROVE  Shown(u, To(r, q), Top(q)) = DOMAIN m
<1> DEFINE form == To(r, q)
           top == Top(q)
           mine == [i \in {j \in DOMAIN u : u[j].form = form} |-> u[i]]
           S == ChildrenOf(mine, top)
           B == Below(mine, S)
           U == DOMAIN m
<1>1. Shown(u, form, top) = B
  BY DEF Shown
<1>2. DOMAIN mine = {j \in DOMAIN u : u[j].form = form} /\ \A i \in DOMAIN mine : mine[i] = u[i]
  OBVIOUS
<1> HIDE DEF mine
<1>3. IsFiniteSet(DOMAIN mine)
  BY <1>2, FS_Subset DEF Completed
<1>4. S = {i \in DOMAIN mine : mine[i].parent = top}
  BY DEF ChildrenOf
<1>5. \A i \in U : i \in DOMAIN mine /\ mine[i].parent \in Owners(q, m)
  BY <1>2, RowsThrough
<1>6. \A i \in DOMAIN mine : mine[i].parent \in Owners(q, m) => i \in U
  BY <1>2, AllThrough
<1>7. Owners(q, m) = U \cup {top}
  BY DEF Owners
<1> HIDE DEF top, U, S
<1>8. B \subseteq U
  <2>1. S \cap DOMAIN mine \subseteq U /\ \A i \in DOMAIN mine : mine[i].parent \in U => i \in U
    BY <1>4, <1>6, <1>7
  <2> QED
    BY <1>3, <2>1, BelowLeast
<1>9. U \subseteq B
  <2> DEFINE X == U \ B
  <2>1. /\ S \cap DOMAIN mine \subseteq B /\ \A i \in DOMAIN mine : mine[i].parent \in B => i \in B
    BY <1>3, BelowIs
  <2> HIDE DEF B
  <2>2. \A i \in X : mine[i].parent \in X
    BY <1>4, <1>5, <1>7, <2>1
  <2>3. Loops(u, X)
    BY <1>2, <1>5, <2>2 DEF Loops, Completed
  <2> HIDE DEF X
  <2>4. X = {}
    BY <2>3, ForestIs DEF Completed
  <2> QED
    BY <2>4 DEF X
<1> QED
  BY <1>1, <1>8, <1>9 DEF U, top

\* A row has its node, below the node of its parent.
LEMMA NodeThrough ==
    ASSUME NEW r, NEW q, NEW view, NEW m, NEW u, Completed(r, q, view, m, u), NEW i \in DOMAIN m
    PROVE  /\ Nodal(u, Top(q), m, i) \in Nested(Payload(q.op))
           /\ u[i].key = m[i].key /\ u[i].label = m[i].label
<1> DEFINE top == Top(q)
           p == view[i].parent
           a == IF p = top THEN NULL ELSE view[p].key
<1>1. i \in DOMAIN u /\ u[i] = view[i] /\ Matched(r, q, view, m, i) /\ u[i].parent \in Owners(q, m)
  BY RowsThrough
<1>2. <<a, m[i]>> \in Nested(Payload(q.op)) /\ u[i].key = m[i].key /\ u[i].label = m[i].label
  BY <1>1 DEF Matched
<1>3. a = Above(u, top, i)
  <2>1. p # top => u[p] = view[p]
    BY <1>1, RowsThrough DEF Owners
  <2> QED
    BY <1>1, <2>1 DEF Above
<1> HIDE DEF a, top
<1>4. <<Above(u, top, i), m[i]>> \in Nested(Payload(q.op))
  BY <1>2, <1>3
<1> QED
  BY <1>2, <1>4 DEF Nodal, top

\* Every node has its row.
LEMMA NestedThrough ==
    ASSUME NEW r, NEW q, NEW view, NEW m, NEW u, Completed(r, q, view, m, u), NEW x \in Nested(Payload(q.op))
    PROVE  \E i \in DOMAIN m : x = Nodal(u, Top(q), m, i)
<1> DEFINE P == Payload(q.op)
           top == Top(q)
           U == {Nodal(u, top, m, i) : i \in DOMAIN m}
<1>1. ASSUME NEW p \in Owners(q, m), NEW k \in 1..Len(SubsOf(q, m, p))
      PROVE  \E i \in DOMAIN m : u[i].parent = p /\ m[i] = SubsOf(q, m, p)[k]
  <2>1. Through(q, view, m, p, Len(SubsOf(q, m, p)))
    BY AllThrough
  <2>2. PICK i \in DOMAIN m : view[i].parent = p /\ m[i] = SubsOf(q, m, p)[k]
    BY <2>1 DEF Through
  <2>3. u[i] = view[i]
    BY RowsThrough
  <2> QED
    BY <2>2, <2>3
<1>2. Uppermost(P) \subseteq U
  <2>1. ASSUME NEW k \in 1..Len(P) PROVE <<NULL, P[k]>> \in U
    <3>1. top \in Owners(q, m) /\ SubsOf(q, m, top) = P
      BY DEF Owners, SubsOf
    <3> HIDE DEF P, top
    <3>2. PICK i \in DOMAIN m : u[i].parent = top /\ m[i] = P[k]
      BY <1>1, <3>1
    <3>3. Nodal(u, top, m, i) = <<NULL, P[k]>>
      BY <3>2 DEF Nodal, Above
    <3> QED
      BY <3>3
  <2> HIDE DEF U
  <2> QED
    BY <2>1 DEF Uppermost
<1>3. Beneath(U) \subseteq U
  <2>1. ASSUME NEW j \in DOMAIN m, NEW k \in 1..Len(m[j].subs) PROVE <<m[j].key, m[j].subs[k]>> \in U
    <3>1. j \in Owners(q, m) /\ j # top /\ SubsOf(q, m, j) = m[j].subs
      BY DEF Owners, SubsOf, Completed, Matching
    <3> HIDE DEF top
    <3>2. PICK i \in DOMAIN m : u[i].parent = j /\ m[i] = m[j].subs[k]
      <4>1. \E i \in DOMAIN m : u[i].parent = j /\ m[i] = SubsOf(q, m, j)[k]
        BY <1>1, <3>1
      <4> QED
        BY <3>1, <4>1
    <3>3. u[j].key = m[j].key
      BY NodeThrough
    <3>4. Nodal(u, top, m, i) = <<m[j].key, m[j].subs[k]>>
      BY <3>1, <3>2, <3>3 DEF Nodal, Above
    <3> QED
      BY <3>4
  <2>2. ASSUME NEW y \in U, NEW k \in 1..Len(y[2].subs) PROVE <<y[2].key, y[2].subs[k]>> \in U
    <3>1. PICK j \in DOMAIN m : y = Nodal(u, top, m, j)
      BY <2>2
    <3>2. y[2] = m[j]
      BY <3>1 DEF Nodal
    <3> HIDE DEF U
    <3> QED
      BY <2>1, <2>2, <3>2
  <2> HIDE DEF U
  <2> QED
    BY <2>2 DEF Beneath
<1> HIDE DEF U
<1>4. Nested(P) \subseteq U
  BY <1>2, <1>3, NestedLeast
<1>5. x \in U
  BY <1>4
<1> QED
  BY <1>5 DEF U, top

\* What is shown is the payload.
LEMMA TreeStored ==
    ASSUME NEW r, NEW q, NEW view, NEW m, NEW u, Completed(r, q, view, m, u)
    PROVE  StoredTree(u, To(r, q), Top(q)) = Tree(Payload(q.op))
<1> DEFINE P == Payload(q.op)
           top == Top(q)
           F == DOMAIN m
           row(i) == <<Above(u, top, i), u[i].key, u[i].label>>
           leaf(x) == <<x[1], x[2].key, x[2].label>>
<1>1. StoredTree(u, To(r, q), top) = {row(i) : i \in F}
  <2> DEFINE G == Shown(u, To(r, q), top)
  <2>1. StoredTree(u, To(r, q), top) = {row(i) : i \in G}
    BY DEF StoredTree, Above
  <2>2. G = F
    BY ShownIs
  <2> HIDE DEF G, row, F
  <2> QED
    BY <2>1, <2>2
<1>2. Tree(P) = {leaf(x) : x \in Nested(P)}
  BY DEF Tree
<1>3. ASSUME NEW i \in F PROVE \E x \in Nested(P) : row(i) = leaf(x)
  <2> DEFINE x == Nodal(u, top, m, i)
  <2>1. x \in Nested(P) /\ u[i].key = m[i].key /\ u[i].label = m[i].label
    BY NodeThrough
  <2>2. x[1] = Above(u, top, i) /\ x[2] = m[i]
    BY DEF Nodal
  <2> HIDE DEF x
  <2> QED
    BY <2>1, <2>2
<1>4. ASSUME NEW x \in Nested(P) PROVE \E i \in F : leaf(x) = row(i)
  <2>1. PICK i \in F : x = Nodal(u, top, m, i)
    BY NestedThrough
  <2>2. x[1] = Above(u, top, i) /\ x[2] = m[i]
    BY <2>1 DEF Nodal
  <2>3. u[i].key = m[i].key /\ u[i].label = m[i].label
    BY NodeThrough
  <2> QED
    BY <2>2, <2>3
<1> HIDE DEF row, leaf, P, F, top
<1>5. {row(i) : i \in F} = {leaf(x) : x \in Nested(P)}
  BY <1>3, <1>4
<1> QED
  BY <1>1, <1>2, <1>5 DEF P, top

\* At the commit the payload is through, and what is left to flush is to be deleted.
LEMMA CommitCompletes ==
    ASSUME IInv, IInv', Traced, Calm, Matches, NEW r \in Requests, CommitFields(r), InTimeNow(r), Replaces(req[r]),
           Failure(r, Nothing, Pending(r)) = NULL
    PROVE  \E m : Completed(r, req[r], View(r), m, fields')
<1> DEFINE p == req[r]
           ups == Pending(r)
           D == p.doomed
           q == Flushed(p, r, Nothing, ups, D)
           view == View(r)
<1>1. p.pc = "closing" /\ Open(r) /\ p = req[r]
  BY DEF CommitFields, Open
<1>2. ReqOK(p)
  BY <1>1, OpIs
<1>3. fields' = Over(fields, q.tx, q.gone)
  BY DEF CommitFields
<1>4. HasFlushed(r, Nothing, ups, D, q)
  <2>1. FlushedAs(p, r, Nothing, ups, D, q)
    BY <1>2, NothingIs, FlushedIs DEF FlushedAs
  <2> QED
    BY <2>1 DEF FlushedAs
<1> HIDE DEF q
<1>5. OnFields(p) /\ PayloadIn(Payload(p.op))
  BY <1>1, WantsIs
<1>6. view = Over(fields, p.tx, p.gone) /\ IsFiniteSet(DOMAIN view)
  BY <1>1, ViewIs
<1> HIDE DEF view
<1>7. PICK m : m = [i \in DOMAIN m |-> m[i]] /\ DOMAIN m \subseteq DOMAIN view /\ Matching(r, p, view, m)
  <2>1. Replacing(r, p, fields, forms)
    BY <1>1 DEF Matches, InTimeNow
  <2> QED
    BY <1>6, <2>1, ReplacingHas
<1>8. p.stack = <<>>
  BY <1>1, <1>2 DEF ReqOK
<1>9. D \subseteq DOMAIN view /\ p.moved = {} /\ \A i \in DOMAIN view : view[i].parent \in D => i \in D
  BY <1>7 DEF Matching
<1>10. DOMAIN ups = {} /\ DOMAIN Nothing = {} /\ IsFiniteSet(DOMAIN Nothing)
  BY <1>9, NothingIs DEF Pending
<1> HIDE DEF D, p
<1> DEFINE new == Saved(r, Nothing, ups)
           dead == Below(new, D)
           written == Written(r, Nothing, ups)
<1>11. FlushOf(fields, p, new, written, dead, q) /\ SavedIs(view, Nothing, ups, new, written) /\ IsFiniteSet(DOMAIN new)
  <2>1. DOMAIN Nothing \subseteq NewOf(r)
    BY <1>10
  <2>2. /\ FlushOf(fields, req[r], new, written, dead, q) /\ SavedIs(View(r), Nothing, ups, new, written)
        /\ IsFiniteSet(DOMAIN new)
    <3> HIDE DEF ups
    <3> QED
      BY <1>1, <1>4, <1>10, <2>1, FlushIs DEF ups
  <2> QED
    BY <1>1, <2>2 DEF view
<1> HIDE DEF new, written, ups
<1>12. DOMAIN new = DOMAIN view /\ \A i \in DOMAIN new : new[i] = view[i]
  BY <1>10, <1>11 DEF SavedIs
<1>13. dead = D
  <2>1. DOMAIN view \subseteq DOMAIN new /\ \A i \in DOMAIN view : new[i].parent = view[i].parent
    BY <1>12
  <2>2. \A i \in DOMAIN new \ DOMAIN view : new[i].parent \notin D
    BY <1>12
  <2> QED
    BY <1>9, <1>11, <2>1, <2>2, DoomedStay
<1> HIDE DEF dead
<1>14. fields' = RowsIn(new, DOMAIN new \ dead)
  <2>1. FieldsFit(p, fields)
    BY <1>1, OpIs DEF Fits
  <2>2. ASSUME NEW t, t = fields PROVE Over(t, q.tx, q.gone) = RowsIn(new, DOMAIN new \ dead)
    BY <1>11, <2>1, <2>2, FlushFits
  <2> QED
    BY <1>3, <2>2
<1>15. DOMAIN fields' = DOMAIN view \ D /\ \A i \in DOMAIN fields' : fields'[i] = view[i]
  BY <1>12, <1>13, <1>14 DEF RowsIn
<1>16. IsFiniteSet(DOMAIN fields') /\ NULL \notin DOMAIN fields' /\ ~Cyclic(fields')
  <2>1. IsFiniteSet(DOMAIN fields') /\ FieldsOK(fields', forms')
    BY DEF IInv, TypeOK, Isolated
  <2>2. NULL \notin DOMAIN fields'
    BY <2>1, NullAssumption DEF FieldsOK
  <2>3. Book!Forest(fields')
    BY CommitFieldsLeaves DEF Leaves
  <2> QED
    BY <2>1, <2>2, <2>3, BookForest
<1>17. Completed(r, p, view, m, fields')
  BY <1>5, <1>7, <1>8, <1>15, <1>16 DEF Completed, D
<1> QED
  BY <1>1, <1>17 DEF view

\* The root of a tree is in the form that the tree goes to.
LEMMA RootFormed ==
    ASSUME NEW r, NEW q, NEW t, Formed(r, q, t), q.pc = "closing", NEW i \in Root(q)
    PROVE  LET view == Over(t, q.tx, q.gone) IN i \in DOMAIN view /\ view[i].form = To(r, q)
<1> DEFINE view == Over(t, q.tx, q.gone)
<1>1. \A j \in Root(q) : j \in DOMAIN view \cap Plot(r, q, t) /\ view[j].form = To(r, q)
  BY DEF Formed
<1> QED
  BY <1>1

LEMMA CommitStores ==
    ASSUME IInv, IInv', Traced, Calm, Matches, NEW r \in Requests, CommitFields(r), InTimeNow(r), Replaces(req[r]),
           Failure(r, Nothing, Pending(r)) = NULL
    PROVE  Stores(r)
<1> DEFINE p == req[r]
           o == p.op
<1>1. p.pc = "closing" /\ Open(r) /\ p = req[r]
  BY DEF CommitFields, Open
<1>2. PICK m : Completed(r, p, View(r), m, fields')
  BY CommitCompletes
<1>3. StoredTree(fields', To(r, p), Top(p)) = Tree(Payload(o))
  <2>1. ASSUME NEW u, u = fields' PROVE StoredTree(u, To(r, p), Top(p)) = Tree(Payload(o))
    BY <1>2, <2>1, TreeStored
  <2> QED
    BY <2>1
<1>4. CASE o.kind = "newField"
  <2>1. To(r, p) = o.form /\ Top(p) = p.field /\ Payload(o) = o.node.subs
    BY <1>4 DEF To, Top, Payload
  <2>2. StoredTree(fields', o.form, p.field) = Tree(o.node.subs)
    BY <1>3, <2>1
  <2> QED
    BY <1>4, <2>2 DEF Stores
<1>5. CASE o.kind = "editField"
  <2>1. Top(p) = o.field /\ Payload(o) = o.subs /\ Root(p) = {o.field}
    BY <1>5 DEF Top, Payload, Root
  <2>2. View(r)[o.field].form = To(r, p) /\ o.field \in DOMAIN View(r)
    <3>1. Formed(r, p, fields) /\ View(r) = Over(fields, p.tx, p.gone)
      BY <1>1, WantsIs, ViewIs
    <3>2. o.field \in Root(p) /\ p.pc = "closing"
      BY <1>1, <2>1
    <3> HIDE DEF o, p
    <3> QED
      BY <3>1, <3>2, RootFormed
  <2>3. fields'[o.field] = View(r)[o.field]
    <3>1. o.field \notin p.doomed
      BY <1>2, <2>1 DEF Completed, Matching, Owners
    <3> QED
      BY <1>2, <2>2, <3>1 DEF Completed
  <2>4. StoredTree(fields', fields'[o.field].form, o.field) = Tree(o.subs)
    BY <1>3, <2>1, <2>2, <2>3
  <2> QED
    BY <1>5, <2>4 DEF Stores
<1>6. CASE o.kind = "seed"
  <2>1. Top(p) = NULL /\ Payload(o) = o.fields
    BY <1>6 DEF Top, Payload
  <2>2. Seeded(r, p, forms)
    <3>1. Replacing(r, p, fields, forms)
      BY <1>1 DEF Matches, InTimeNow
    <3> QED
      BY <3>1, ReplacingHas
  <2>3. forms' = Over(forms, p.ftx, {})
    BY DEF CommitFields, FormsView
  <2>4. To(r, p) \in DOMAIN forms' /\ forms'[To(r, p)].name = o.row.name
    BY <1>6, <2>2, <2>3 DEF Seeded
  <2>5. StoredTree(fields', To(r, p), NULL) = Tree(o.fields)
    BY <1>3, <2>1
  <2> QED
    BY <1>6, <2>4, <2>5 DEF Stores
<1>7. o.kind \in {"newField", "editField", "seed"}
  BY DEF Replaces, OnFields
<1> QED
  BY <1>4, <1>5, <1>6, <1>7

\* A request is answered with 200 by its own commit.
LEMMA OnlyItself ==
    ASSUME NEW s \in Requests, NEW r \in Requests \ {s}, req[r].pc = "closing", IInv,
           (\E q : Goes(s, q)) \/ req' = Answer(s, 200)
    PROVE  req'[r].pc = "closing"
<1>1. DOMAIN req = Requests /\ DOMAIN req[r] = DOMAIN Idle
  BY DEF IInv, TypeOK, ReqOK
<1>2. CASE \E q : Goes(s, q)
  <2>1. PICK q : req' = [req EXCEPT ![s] = q]
    BY <1>2 DEF Goes
  <2>2. req'[r] = req[r]
    BY <1>1, <2>1
  <2> QED
    BY <2>2
<1>3. CASE req' = Answer(s, 200)
  <2> DEFINE q == req[r]
  <2>1. req'[r] = [q EXCEPT !.late = TRUE]
    BY <1>3 DEF Answer, Open
  <2>2. DOMAIN q = DOMAIN Idle /\ q.pc = "closing"
    BY <1>1
  <2> HIDE DEF q
  <2> QED
    BY <2>1, <2>2 DEF Idle
<1> QED
  BY <1>2, <1>3

\* A step puts its request somewhere else, or answers it.
LEMMA DoneContinues == \A p, code, x, g : Continues(p, Done(code)) /\ Continues(p, Refused(x, g))
BY DEF Continues, Done, Refused, Idle

LEMMA SyncContinues ==
    ASSUME NEW p, NEW r, NEW q, DOMAIN q = DOMAIN Idle, q.op = p.op, q.seen = p.seen, q.late = p.late,
           NEW form, NEW parent, NEW nodes
    PROVE  Continues(p, Sync(r, q, form, parent, nodes))
BY SyncSame DEF Continues, SameWork, Plan

LEMMA WalkGoes ==
    ASSUME IInv, NEW s \in Requests, Walk(s)
    PROVE  \E q : Goes(s, q) /\ Continues(req[s], q)
<1> DEFINE p == req[s]
           o == p.op
           first == p.walked = Nothing
           there == p.up \in DOMAIN p.walked \cup DOMAIN fields
           walked == IF there THEN Put(p.walked, p.up, Ancestor(s)) ELSE p.walked
           top == [p EXCEPT !.pc = "flushing", !.up = NULL, !.walked = walked]
           on == [p EXCEPT !.up = Ancestor(s).parent, !.walked = walked]
           q == IF first /\ ~there THEN Done(404)
                ELSE IF first /\ Ancestor(s).form # Assign(p.seen, o.set).form THEN Done(422)
                ELSE IF there /\ p.up = o.field THEN Done(422)
                ELSE IF ~there \/ Ancestor(s).parent = NULL THEN top ELSE on
<1>1. Goes(s, q) /\ Open(s)
  BY DEF Walk, Goes, Open
<1>2. DOMAIN p = DOMAIN Idle
  BY <1>1, OpIs DEF ReqOK
<1> HIDE DEF p, walked
<1>3. Continues(p, top) /\ Continues(p, on)
  BY <1>2 DEF Continues, Idle
<1> HIDE DEF top, on
<1>4. Continues(p, q)
  BY <1>3, DoneContinues
<1> HIDE DEF q
<1> QED
  BY <1>1, <1>4 DEF p

LEMMA FlushFieldGoes ==
    ASSUME IInv, NEW s \in Requests, FlushField(s)
    PROVE  \E q : Goes(s, q) /\ Continues(req[s], q)
<1> DEFINE p   == req[s]
           o   == p.op
           new == o.kind = "newField"
           id  == IF new THEN NewId(s) ELSE o.field
           to  == IF new THEN NodeRow(o.node, o.form, o.parent) ELSE Assign(p.seen, o.set)
           ins == IF new THEN [i \in {id} |-> to] ELSE Nothing
           changed == {c \in DOMAIN to : ~new /\ to[c] # p.seen[c]}
           ups == IF changed = {} THEN Nothing ELSE [i \in {id} |-> [c \in changed |-> to[c]]]
           f   == Flushed(p, s, ins, ups, {})
           q   == [f EXCEPT !.field = id]
           moving == [q EXCEPT !.pc = "moving", !.visit = {id}]
           closing == [q EXCEPT !.pc = "closing"]
           z   == IF Failure(s, ins, ups) # NULL THEN Refused(Failure(s, ins, ups), FALSE)
                  ELSE IF new THEN Sync(s, q, o.form, id, o.node.subs)
                  ELSE IF "form" \in changed THEN moving
                  ELSE IF o.subs # NULL THEN Sync(s, q, to.form, id, o.subs)
                  ELSE closing
<1>1. Goes(s, z)
  BY DEF FlushField, Goes
<1>2. DOMAIN p = DOMAIN Idle
  <2>1. Open(s)
    BY DEF FlushField, Open
  <2> QED
    BY <2>1, OpIs DEF ReqOK
<1> HIDE DEF p, ins, ups, id, to, changed
<1>3. DOMAIN f = DOMAIN Idle /\ f.op = p.op /\ f.seen = p.seen /\ f.late = p.late
  BY <1>2 DEF Flushed, Idle
<1> HIDE DEF f
<1>4. DOMAIN q = DOMAIN Idle /\ q.op = p.op /\ q.seen = p.seen /\ q.late = p.late
  BY <1>3 DEF Idle
<1> HIDE DEF q
<1>5. Continues(p, moving) /\ Continues(p, closing)
  BY <1>4 DEF Continues, Idle
<1> HIDE DEF moving, closing
<1>6. Continues(p, z)
  BY <1>4, <1>5, DoneContinues, SyncContinues
<1> HIDE DEF z
<1> QED
  BY <1>1, <1>6 DEF p

LEMMA FlushFormGoes ==
    ASSUME IInv, NEW s \in Requests, FlushForm(s)
    PROVE  \E q : Goes(s, q) /\ Continues(req[s], q)
<1> DEFINE p == req[s]
           form == To(s, p)
           nodes == p.op.fields
<1>1. ASSUME NEW q, SameButForms(p, q) PROVE Continues(p, Sync(s, q, form, NULL, nodes))
  <2> HIDE DEF p, form, nodes
  <2> QED
    BY <1>1, SyncContinues DEF SameButForms, SameWork, Plan
<1> QED
  BY <1>1, FlushFormIs, DoneContinues

LEMMA MoveGoes ==
    ASSUME IInv, NEW s \in Requests, Move(s)
    PROVE  \E q : Goes(s, q) /\ Continues(req[s], q)
<1> DEFINE p == req[s]
           o == p.op
<1>1. Open(s)
  BY DEF Move, Open
<1>2. DOMAIN p = DOMAIN Idle
  BY <1>1, OpIs DEF ReqOK
<1>3. PICK i \in p.visit :
         LET kids == ChildrenOf(View(s), i) \ p.moved
             q    == [p EXCEPT !.visit = (@ \ {i}) \cup kids, !.moved = @ \cup kids]
         IN  Goes(s, IF q.visit # {} THEN q
                     ELSE IF o.subs # NULL THEN Sync(s, q, o.set.form, q.field, o.subs)
                     ELSE [q EXCEPT !.pc = "closing"])
  BY DEF Move, Goes
<1> DEFINE kids == ChildrenOf(View(s), i) \ p.moved
           q    == [p EXCEPT !.visit = (@ \ {i}) \cup kids, !.moved = @ \cup kids]
           closing == [q EXCEPT !.pc = "closing"]
           z    == IF q.visit # {} THEN q ELSE IF o.subs # NULL THEN Sync(s, q, o.set.form, q.field, o.subs) ELSE closing
<1>4. Goes(s, z)
  BY <1>3
<1> HIDE DEF p, kids
<1>5. DOMAIN q = DOMAIN Idle /\ q.op = p.op /\ q.seen = p.seen /\ q.late = p.late
  BY <1>2 DEF Idle
<1> HIDE DEF q
<1>6. Continues(p, q) /\ Continues(p, closing)
  BY <1>5 DEF Continues, Idle
<1> HIDE DEF closing
<1>7. Continues(p, z)
  BY <1>5, <1>6, SyncContinues
<1> HIDE DEF z
<1> QED
  BY <1>4, <1>7 DEF p

LEMMA SyncNodeGoes ==
    ASSUME IInv, NEW s \in Requests, SyncNode(s)
    PROVE  \E q : Goes(s, q) /\ Continues(req[s], q)
<1> DEFINE p    == req[s]
           top  == Head(p.stack)
           node == Head(top.rest)
           same == {i \in DOMAIN top.existing : top.existing[i].key = node.key}
           id   == IF same = {} THEN NewId(s) ELSE CHOOSE i \in same : TRUE
           ins  == IF same = {} THEN [i \in {id} |-> NodeRow(node, top.form, top.parent)] ELSE Nothing
           ups  == IF same = {} \/ Known(s, top, id) = node.label THEN Pending(s)
                   ELSE Put(Pending(s), id, [label |-> node.label])
           f    == Flushed(p, s, ins, ups, p.doomed)
           q    == [f EXCEPT !.stack[1].rest = Tail(@)]
           z    == IF Failure(s, ins, ups) # NULL THEN Refused(Failure(s, ins, ups), FALSE)
                   ELSE Sync(s, q, top.form, id, node.subs)
<1>1. Goes(s, z)
  BY DEF SyncNode, Goes
<1>2. DOMAIN p = DOMAIN Idle
  <2>1. Open(s)
    BY DEF SyncNode, Open
  <2> QED
    BY <2>1, OpIs DEF ReqOK
<1> HIDE DEF p, ins, ups, id, top, node
<1>3. DOMAIN f = DOMAIN Idle /\ f.op = p.op /\ f.seen = p.seen /\ f.late = p.late
  BY <1>2 DEF Flushed, Idle
<1> HIDE DEF f
<1>4. DOMAIN q = DOMAIN Idle /\ q.op = p.op /\ q.seen = p.seen /\ q.late = p.late
  BY <1>3 DEF Idle
<1> HIDE DEF q
<1>5. Continues(p, z)
  BY <1>4, DoneContinues, SyncContinues
<1> HIDE DEF z
<1> QED
  BY <1>1, <1>5 DEF p

LEMMA SyncEndGoes ==
    ASSUME IInv, NEW s \in Requests, SyncEnd(s)
    PROVE  \E q : Goes(s, q) /\ Continues(req[s], q)
<1> DEFINE p == req[s]
           top == Head(p.stack)
           obsolete == {i \in DOMAIN top.existing : top.existing[i].key \notin top.expected}
           pc == IF Len(p.stack) = 1 THEN "closing" ELSE "syncing"
           q == [p EXCEPT !.pc = pc, !.stack = Tail(p.stack), !.doomed = p.doomed \cup Below(View(s), obsolete)]
<1>1. p.pc = "syncing" /\ Open(s) /\ p = req[s]
  BY DEF SyncEnd, Open
<1>2. ReqOK(p)
  BY <1>1, OpIs
<1>3. DOMAIN req = Requests /\ DOMAIN p = DOMAIN Idle
  BY <1>1, <1>2 DEF IInv, TypeOK, ReqOK
<1>4. Goes(s, q)
  BY <1>3 DEF SyncEnd, Goes, Idle
<1>5. Continues(p, q)
  <2> HIDE DEF p, pc, obsolete
  <2> QED
    BY <1>3 DEF Continues, Idle
<1> HIDE DEF q
<1> QED
  BY <1>4, <1>5

LEMMA CommitFormGoes ==
    ASSUME NEW s \in Requests, CommitForm(s)
    PROVE  Goes(s, Done(500)) \/ Goes(s, Done(409)) \/ req' = Answer(s, 200)
  BY DEF CommitForm, Goes

LEMMA GoesOn ==
    ASSUME IInv, NEW s \in Requests, Proceed(s) \/ Abort(s)
    PROVE  (\E q : Goes(s, q) /\ Continues(req[s], q)) \/ req' = Answer(s, 200)
<1>1. CASE CommitFields(s)
  <2>1. (\E x, g : Goes(s, Refused(x, g))) \/ req' = Answer(s, 200)
    BY <1>1 DEF CommitFields, Goes
  <2> QED
    BY <2>1, DoneContinues
<1>2. CASE CommitForm(s)
  BY <1>2, CommitFormGoes, DoneContinues
<1>3. CASE CommitDrop(s)
  BY <1>3 DEF CommitDrop
<1>4. CASE Abort(s)
  <2>1. Goes(s, Done(500))
    BY <1>4 DEF Abort, Goes
  <2> QED
    BY <2>1, DoneContinues
<1> QED
  BY <1>1, <1>2, <1>3, <1>4, WalkGoes, FlushFieldGoes, FlushFormGoes, MoveGoes, SyncNodeGoes, SyncEndGoes DEF Proceed

LEMMA LoadFinds ==
    ASSUME NEW o, NEW q, Loaded(o, q)
    PROVE  Found(q, forms)
<1>1. q.op = o /\ q.seen = Seen(o)
  BY DEF Loaded
<1>2. ASSUME o.kind = "seed", Seen(o) # NULL PROVE Seen(o).id \in DOMAIN forms /\ forms[Seen(o).id] = Seen(o).row
  <2> DEFINE g == CHOOSE h \in Same(o) : TRUE
  <2>1. Same(o) # {} /\ Seen(o) = [id |-> g, row |-> forms[g]]
    BY <1>2 DEF Seen
  <2>2. g \in DOMAIN forms
    BY <2>1 DEF Same
  <2> HIDE DEF g
  <2> QED
    BY <2>1, <2>2
<1> QED
  BY <1>1, <1>2 DEF Found

\* While nobody overtakes it a seed goes on with the form that it has found.
LEMMA NextFound ==
    ASSUME IInv, FormsFound, [Next]_vars
    PROVE  FormsFound'
<1>1. CASE UNCHANGED vars
  BY <1>1 DEF vars, FormsFound
<1>2. ASSUME NEW s \in Requests, NEW q, Goes(s, q), Found(q, forms) PROVE FormsFound'
  <2>1. DOMAIN req = Requests
    BY DEF IInv, TypeOK
  <2>2. forms' = forms /\ req'[s] = q /\ \A r \in Requests \ {s} : req'[r] = req[r]
    BY <1>2, <2>1 DEF Goes
  <2> QED
    BY <1>2, <2>2 DEF FormsFound
<1>3. ASSUME NEW s \in Requests PROVE /\ \A code : Found(Done(code), forms)
                                      /\ \A q : Continues(req[s], q) /\ Open(s) => Found(q, forms)
  <2>1. \A code : Done(code).pc = "done"
    BY DEF Done, Idle
  <2> QED
    BY <2>1 DEF FormsFound, Found, Continues, Open
<1>4. ASSUME NEW s \in Requests, req' = Answer(s, 200) PROVE FormsFound'
  <2>1. ASSUME NEW r \in Requests PROVE Found(req'[r], forms')
    <3> DEFINE q == req[r]
    <3>1. DOMAIN q = DOMAIN Idle
      BY DEF IInv, TypeOK, ReqOK
    <3>2. CASE r = s
      BY <1>4, <3>2 DEF Answer, Done, Idle, Found
    <3>3. CASE r # s /\ Open(r)
      <4>1. req'[r] = [q EXCEPT !.late = TRUE]
        BY <1>4, <3>3 DEF Answer
      <4> HIDE DEF q
      <4>2. req'[r].late
        BY <3>1, <4>1 DEF Idle
      <4> QED
        BY <4>2 DEF Found
    <3>4. CASE r # s /\ ~Open(r)
      <4>1. req'[r] = req[r] /\ req[r].pc \in {"idle", "done"}
        BY <1>4, <3>4 DEF Answer, Open
      <4> QED
        BY <4>1 DEF Found
    <3> QED
      BY <3>2, <3>3, <3>4
  <2> QED
    BY <2>1 DEF FormsFound
<1>5. ASSUME NEW s \in Requests, Proceed(s) \/ Abort(s) PROVE Open(s)
  BY <1>5 DEF Proceed, Abort, Walk, FlushField, FlushForm, Move, SyncNode, SyncEnd, CommitFields, CommitForm, CommitDrop, Open
<1>6. ASSUME NEW s \in Requests, NEW o, Load(s, o) PROVE FormsFound'
  BY <1>2, <1>3, <1>6, LoadGoes, LoadFinds
<1>7. ASSUME NEW s \in Requests, Proceed(s) \/ Abort(s) PROVE FormsFound'
  BY <1>2, <1>3, <1>4, <1>5, <1>7, GoesOn
<1> QED
  BY <1>1, <1>6, <1>7 DEF Next, Terminated, vars

LEMMA OnlyCommit ==
    ASSUME IInv, [Next]_vars, NEW r \in Requests, req[r].pc = "closing", OnFields(req[r]),
           req'[r].pc = "done", req'[r].code = 200
    PROVE  CommitFields(r) /\ Failure(r, Nothing, Pending(r)) = NULL
<1>1. PICK s \in Requests : (\E o \in Ops[s] : Load(s, o)) \/ Proceed(s) \/ Abort(s)
  BY DEF Next, Terminated, vars
<1>2. s = r
  BY <1>1, LoadGoes, GoesOn, OnlyItself
<1>3. DOMAIN req = Requests /\ \A code : Goes(r, Done(code)) => req'[r].code = code
  <2>1. DOMAIN req = Requests
    BY DEF IInv, TypeOK
  <2>2. \A code : Done(code).code = code
    BY DEF Done, Idle
  <2> QED
    BY <2>1, <2>2 DEF Goes
<1>4. ~Abort(r)
  <2>1. Abort(r) => Goes(r, Done(500))
    BY DEF Abort, Goes
  <2> QED
    BY <1>3, <2>1
<1>5. CommitFields(r)
  BY <1>1, <1>2, <1>4 DEF Proceed, Load, Walk, FlushField, FlushForm, Move, SyncNode, SyncEnd, CommitForm, CommitDrop, OnFields
<1>6. ASSUME Failure(r, Nothing, Pending(r)) # NULL PROVE FALSE
  <2>1. Goes(r, Done(409)) \/ Goes(r, Done(500))
    BY <1>5, <1>6 DEF CommitFields, Goes, Refused
  <2> QED
    BY <1>3, <2>1
<1> QED
  BY <1>5, <1>6

\* A payload is stored as it is: see PayloadStored.  By the invariant, when the request
\* commits all its nodes have their rows, and what else is below is about to be deleted.
THEOREM PayloadIsStored == Spec => PayloadStored
<1> DEFINE A == \A r \in Requests :
                  /\ req[r].pc = "closing" /\ req'[r].pc = "done" /\ req'[r].code = 200
                  /\ ~raced /\ ~req[r].late /\ Replaces(req[r])
                  => Stores(r)
           J == Traced /\ Calm /\ Matches /\ FormsFound
<1>1. ASSUME IInv, IInv', J, [Next]_vars PROVE A
  <2> SUFFICES ASSUME NEW r \in Requests, req[r].pc = "closing", req'[r].pc = "done", req'[r].code = 200,
                      ~raced, ~req[r].late, Replaces(req[r])
               PROVE  Stores(r)
    OBVIOUS
  <2>1. CommitFields(r) /\ Failure(r, Nothing, Pending(r)) = NULL
    BY <1>1, OnlyCommit DEF Replaces
  <2> QED
    BY <1>1, <2>1, CommitStores DEF InTimeNow
<1>2. Init => Traced
  BY DEF Init, Traced, Open, Idle
<1>3. Init => Calm
  BY InitCalm
<1>4. (Init => Matches) /\ (Init => FormsFound)
  <2>1. Init => FormsFound
    BY DEF Init, FormsFound, Found, Idle
  <2> QED
    BY <2>1, InitMatches
<1>5. ASSUME IInv, IInv', J, [Next]_vars PROVE J'
  <2>1. Traced'
    BY <1>5, NextTraces
  <2>2. Calm'
    BY <1>5, <2>1, NextCalm
  <2>3. Matches'
    BY <1>5, NextMatches
  <2>4. FormsFound'
    BY <1>5, NextFound
  <2> QED
    BY <2>1, <2>2, <2>3, <2>4
<1>6. (IInv /\ IInv' /\ J /\ [Next]_vars => A) /\ (IInv /\ IInv' /\ J /\ [Next]_vars => J')
  BY <1>1, <1>5
<1>7. (A \/ UNCHANGED vars) => [A]_vars
  OBVIOUS
<1>8. PayloadStored <=> [][A]_vars
  BY DEF PayloadStored, Stores
<1> HIDE DEF A, J
<1> QED
  BY <1>2, <1>3, <1>4, <1>6, <1>7, <1>8, TransactionsApart, PTL DEF Spec, J
==============================================================================
