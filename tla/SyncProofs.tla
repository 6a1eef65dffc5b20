------------------------------ MODULE SyncProofs ------------------------------
(***************************************************************************)
(* Proofs about ReferenceSync: types, that what is called successful is    *)
(* stored and stays so, that to run the command again does no harm, and    *)
(* that a report leaves nothing out.                                       *)
(***************************************************************************)
EXTENDS SyncProps, FiniteSetTheorems, WellFoundedInduction, TLAPS

(***************************************************************************)
(* What the operators of SyncTables do.                                    *)
(***************************************************************************)

\* A set of naturals has a least element.
LEMMA LeastExists ==
    ASSUME NEW S \in SUBSET Nat, S # {}
    PROVE  \E n \in S : \A m \in S : n <= m
<1> PICK k \in S : TRUE
  OBVIOUS
<1> DEFINE T == {0..n : n \in {m \in S : m <= k}}
           R == StrictSubsetOrdering(0..k)
<1>1. T \subseteq FiniteSubsetsOf(0..k) /\ T # {}
  <2>1. ASSUME NEW n \in S, n <= k PROVE 0..n \in FiniteSubsetsOf(0..k)
    <3>1. IsFiniteSet(0..n)
      BY <2>1, FS_Interval
    <3> QED
      BY <2>1, <3>1 DEF FiniteSubsetsOf
  <2>2. 0..k \in T
    OBVIOUS
  <2> QED
    BY <2>1, <2>2
<1>2. IsWellFoundedOn(R, FiniteSubsetsOf(0..k))
  BY FS_StrictSubsetOrderingWellFounded
<1> HIDE DEF R
<1>3. PICK x \in T : \A y \in T : ~(<<y, x>> \in R)
  BY <1>1, <1>2, WFMin
<1>4. PICK n \in S : n <= k /\ x = 0..n
  BY <1>3
<1>5. ASSUME NEW m \in S, m < n PROVE FALSE
  <2>1. 0..m \in T
    BY <1>4, <1>5
  <2>2. 0..m \subseteq 0..n /\ 0..n \subseteq 0..k /\ n \in 0..n /\ n \notin 0..m
    BY <1>4, <1>5
  <2>3. <<0..m, x>> \in R
    BY <1>4, <2>2 DEF R, StrictSubsetOrdering
  <2> QED
    BY <1>3, <2>1, <2>3
<1> QED
  BY <1>5

\* A finite set of naturals has a greatest element.
LEMMA GreatestExists ==
    ASSUME NEW S \in SUBSET Nat, S # {}, IsFiniteSet(S)
    PROVE  \E n \in S : \A m \in S : m <= n
<1> DEFINE T == {U \in SUBSET S : U # {} /\ ~\E n \in U : \A m \in U : m <= n}
           R == StrictSubsetOrdering(S)
<1> SUFFICES ASSUME T # {} PROVE FALSE
  OBVIOUS
<1>1. T \subseteq FiniteSubsetsOf(S)
  BY FS_Subset DEF FiniteSubsetsOf
<1>2. IsWellFoundedOn(R, FiniteSubsetsOf(S))
  BY FS_StrictSubsetOrderingWellFounded
<1>3. \E x \in T : \A y \in T : ~(<<y, x>> \in R)
  <2> HIDE DEF T, R
  <2> QED
    BY <1>1, <1>2, WFMin
<1>4. PICK U \in T : \A V \in T : ~(<<V, U>> \in R)
  BY <1>3
<1>5. PICK x \in U : TRUE
  OBVIOUS
<1>6. CASE U = {x}
  BY <1>6
<1>7. CASE U # {x}
  <2>1. U \ {x} \in SUBSET S /\ U \ {x} # {} /\ <<U \ {x}, U>> \in R
    BY <1>5, <1>7 DEF StrictSubsetOrdering
  <2>2. PICK n \in U \ {x} : \A m \in U \ {x} : m <= n
    BY <1>4, <2>1
  <2>3. x \in Nat /\ n \in Nat
    BY <1>5
  <2>4. CASE x <= n
    BY <2>2, <2>3, <2>4
  <2>5. CASE n <= x
    BY <1>5, <2>2, <2>3, <2>5
  <2> QED
    BY <2>3, <2>4, <2>5
<1> QED
  BY <1>6, <1>7


LEMMA MinIs ==
    ASSUME NEW s \in SUBSET Nat, s # {}
    PROVE  Min(s) \in s
BY LeastExists DEF Min

LEMMA LargestIs ==
    ASSUME NEW s \in SUBSET Nat, IsFiniteSet(s)
    PROVE  Largest(s) \in Nat /\ \A i \in s : i <= Largest(s)
<1> DEFINE S == s \cup {0}
<1>1. S \in SUBSET Nat /\ S # {} /\ IsFiniteSet(S)
  BY FS_AddElement
<1>2. Largest(s) = CHOOSE x \in S : \A y \in S : x >= y
  BY DEF Largest, Max
<1>3. s \subseteq S
  OBVIOUS
<1> HIDE DEF S
<1>4. PICK n \in S : \A m \in S : m <= n
  BY <1>1, GreatestExists
<1>5. \A m \in S : n >= m
  BY <1>1, <1>4
<1>6. Largest(s) \in S /\ \A y \in S : Largest(s) >= y
  BY <1>2, <1>5
<1> QED
  BY <1>1, <1>3, <1>6

\* The rows that are inserted are counted one by one.
Nth(new, n) == Cardinality({m \in new : m <= n})

LEMMA NthCounts ==
    ASSUME NEW new \in SUBSET Nat, IsFiniteSet(new)
    PROVE  /\ \A n \in new : Nth(new, n) \in Nat \ {0}
           /\ \A n, m \in new : Nth(new, n) = Nth(new, m) => n = m
<1> DEFINE Upto(n) == {m \in new : m <= n}
<1>1. \A n \in new : IsFiniteSet(Upto(n)) /\ Upto(n) # {} /\ Cardinality(Upto(n)) \in Nat
  BY FS_Subset, FS_CardinalityType
<1>2. \A n \in new : Cardinality(Upto(n)) # 0
  BY <1>1, FS_EmptySet
<1>3. ASSUME NEW n \in new, NEW m \in new, n < m PROVE Cardinality(Upto(n)) # Cardinality(Upto(m))
  <2>1. n \in Nat /\ m \in Nat /\ \A k \in new : k \in Nat
    OBVIOUS
  <2>2. Upto(n) \in SUBSET Upto(m)
    <3>1. \A k \in new : k <= n => k <= m
      BY <1>3, <2>1
    <3> QED
      BY <3>1
  <2>3. m \in Upto(m) /\ m \notin Upto(n)
    BY <1>3, <2>1
  <2> HIDE DEF Upto
  <2> QED
    BY <1>1, <2>2, <2>3, FS_Subset
<1>4. \A n, m \in new : n = m \/ n < m \/ m < n
  OBVIOUS
<1> QED
  BY <1>1, <1>2, <1>3, <1>4 DEF Nth

\* A row that is matched becomes one of the rows that change it, if there are any.
Updated(schema, plan, row, stage) ==
    LET by == Changing(plan, row, stage)
    IN  IF by = {} THEN row
        ELSE [c \in DOMAIN schema |-> IF c \in plan.columns THEN stage[CHOOSE n \in by : TRUE][c] ELSE row[c]]

\* The rows of a table stay where they are, and each unmatched row of the file has one
\* new place.
LEMMA MergedRows ==
    ASSUME NEW schema, NEW plan, NEW table, NEW stage, TableOK(schema, table),
           DOMAIN stage \in SUBSET Nat, IsFiniteSet(DOMAIN stage),
           NEW to, to = Merged(schema, plan, table, stage),
           NEW new, new = Unmatched(plan, table, stage)
    PROVE  /\ to = [i \in DOMAIN to |-> to[i]]
           /\ DOMAIN table \subseteq DOMAIN to
           /\ DOMAIN to \in SUBSET Nat /\ IsFiniteSet(DOMAIN to)
           /\ \A i \in DOMAIN table : to[i] = Updated(schema, plan, table[i], stage)
           /\ \A i \in DOMAIN to \ DOMAIN table :
                 \E n \in new : to[i] = Inserted(schema, plan, table, stage[n], Nth(new, n))
           /\ \A n \in new :
                 \E i \in DOMAIN to \ DOMAIN table :
                    to[i] = Inserted(schema, plan, table, stage[n], Nth(new, n))
<1> DEFINE top == Largest(DOMAIN table)
           places == {top + Nth(new, n) : n \in new}
<1>1. top \in Nat /\ \A i \in DOMAIN table : i \in Nat /\ i <= top
  BY LargestIs DEF TableOK
<1>2. new \in SUBSET Nat /\ IsFiniteSet(new)
  BY FS_Subset DEF Unmatched
<1>3. /\ \A n \in new : Nth(new, n) \in Nat \ {0}
      /\ \A n, m \in new : Nth(new, n) = Nth(new, m) => n = m
  BY <1>2, NthCounts
<1> HIDE DEF top
<1>4. \A n \in new : top + Nth(new, n) \in Nat /\ top + Nth(new, n) > top
  BY <1>1, <1>3
<1>5. to = [i \in DOMAIN table \cup places |->
              IF i > top
              THEN Inserted(schema, plan, table, stage[CHOOSE m \in new : top + Nth(new, m) = i],
                            Nth(new, CHOOSE m \in new : top + Nth(new, m) = i))
              ELSE Updated(schema, plan, table[i], stage)]
  BY DEF Merged, Nth, Updated, top
<1>6. places \cap DOMAIN table = {}
  BY <1>1, <1>4
<1>7. \A n \in new : (CHOOSE m \in new : top + Nth(new, m) = top + Nth(new, n)) = n
  BY <1>1, <1>3
<1>8. \A n \in new : to[top + Nth(new, n)] = Inserted(schema, plan, table, stage[n], Nth(new, n))
  BY <1>4, <1>5, <1>7
<1>9. \A i \in DOMAIN table : to[i] = Updated(schema, plan, table[i], stage)
  BY <1>1, <1>5
<1>10. IsFiniteSet(places)
  <2>1. [n \in new |-> top + Nth(new, n)] \in Surjection(new, places)
    BY DEF Surjection
  <2> QED
    BY <1>2, <2>1, FS_Surjection
<1>11. IsFiniteSet(DOMAIN table \cup places)
  BY <1>10, FS_Union DEF TableOK
<1>12. DOMAIN to = DOMAIN table \cup places
  BY <1>5
<1> QED
  BY <1>1, <1>4, <1>5, <1>6, <1>8, <1>9, <1>11, <1>12

\* A plan writes columns of the table, its keys among them.
LEMMA PlanColumns ==
    ASSUME NEW schema, NEW rows, NEW override, NEW plan, plan = Plan(schema, rows, override), plan # NULL
    PROVE  plan.keys \subseteq plan.columns /\ plan.columns \subseteq DOMAIN schema
<1>1. Given(schema, rows) \subseteq DOMAIN schema
  BY DEF Given
<1> QED
  BY <1>1 DEF Plan

\* It is the same plan for a file and for some of its rows.
LEMMA SamePlan ==
    ASSUME NEW schema, NEW override, NEW file, NEW rows,
           DOMAIN file \in SUBSET Nat, DOMAIN rows \in SUBSET DOMAIN file, DOMAIN rows # {},
           \A n \in DOMAIN rows : rows[n] = file[n],
           \A n, m \in DOMAIN file : DOMAIN file[n] = DOMAIN file[m]
    PROVE  Plan(schema, rows, override) = Plan(schema, file, override)
<1>1. Min(DOMAIN rows) \in DOMAIN rows /\ Min(DOMAIN file) \in DOMAIN file
  BY MinIs
<1>2. DOMAIN rows[Min(DOMAIN rows)] = DOMAIN file[Min(DOMAIN file)]
  BY <1>1
<1>3. Given(schema, rows) = Given(schema, file)
  BY <1>2 DEF Given
<1> QED
  BY <1>3 DEF Plan

\* What a MERGE leaves is a table again.
LEMMA MergedOK ==
    ASSUME NEW schema, NEW plan, NEW table, NEW stage, TableOK(schema, table),
           DOMAIN stage \in SUBSET Nat, IsFiniteSet(DOMAIN stage)
    PROVE  TableOK(schema, Merged(schema, plan, table, stage))
<1> DEFINE to == Merged(schema, plan, table, stage)
           new == Unmatched(plan, table, stage)
<1> HIDE DEF to, new
<1>1. /\ to = [i \in DOMAIN to |-> to[i]]
      /\ DOMAIN table \subseteq DOMAIN to
      /\ DOMAIN to \in SUBSET Nat /\ IsFiniteSet(DOMAIN to)
      /\ \A i \in DOMAIN table : to[i] = Updated(schema, plan, table[i], stage)
      /\ \A i \in DOMAIN to \ DOMAIN table :
            \E n \in new : to[i] = Inserted(schema, plan, table, stage[n], Nth(new, n))
  BY MergedRows DEF to, new
<1>2. \A i \in DOMAIN table : DOMAIN Updated(schema, plan, table[i], stage) = DOMAIN schema
  BY DEF Updated, TableOK
<1>3. \A n : DOMAIN Inserted(schema, plan, table, stage[n], Nth(new, n)) = DOMAIN schema
  BY DEF Inserted
<1>4. TableOK(schema, to)
  BY <1>1, <1>2, <1>3 DEF TableOK
<1> QED
  BY <1>4 DEF to

\* After a MERGE the table has each row of the file that is alone in its key, and every
\* row that it matches is as the file says.
LEMMA MergeStores ==
    ASSUME NEW schema, NEW plan, NEW table, NEW stage, TableOK(schema, table),
           DOMAIN stage \in SUBSET Nat, IsFiniteSet(DOMAIN stage),
           plan.keys \subseteq plan.columns, plan.columns \subseteq DOMAIN schema,
           NEW n \in DOMAIN stage, Alone(plan, stage, DOMAIN stage, n),
           NEW to, to = Merged(schema, plan, table, stage)
    PROVE  /\ \E i \in DOMAIN to : \A c \in plan.columns : to[i][c] = stage[n][c]
           /\ \A i \in DOMAIN to : Matches(plan, to[i], stage[n]) => ~Differs(plan, to[i], stage[n])
<1> DEFINE new == Unmatched(plan, table, stage)
<1>1. /\ DOMAIN table \subseteq DOMAIN to
      /\ \A i \in DOMAIN table : to[i] = Updated(schema, plan, table[i], stage)
      /\ \A i \in DOMAIN to \ DOMAIN table :
            \E m \in new : to[i] = Inserted(schema, plan, table, stage[m], Nth(new, m))
      /\ \A m \in new :
            \E i \in DOMAIN to \ DOMAIN table :
               to[i] = Inserted(schema, plan, table, stage[m], Nth(new, m))
  BY MergedRows
<1>2. \A m : \A c \in plan.columns : Inserted(schema, plan, table, stage[m], Nth(new, m))[c] = stage[m][c]
  BY DEF Inserted
<1>3. ASSUME NEW i \in DOMAIN table, NEW k \in plan.keys
      PROVE  Updated(schema, plan, table[i], stage)[k] = table[i][k]
  <2> DEFINE by == Changing(plan, table[i], stage)
  <2>1. \A m \in by : stage[m][k] = table[i][k]
    BY <1>3 DEF Changing, Matches
  <2>2. DOMAIN table[i] = DOMAIN schema /\ k \in DOMAIN schema /\ k \in plan.columns
    BY DEF TableOK
  <2>3. by # {} => (CHOOSE m \in by : TRUE) \in by
    OBVIOUS
  <2> HIDE DEF by
  <2> QED
    BY <2>1, <2>2, <2>3 DEF Updated, by
<1>4. ASSUME NEW i \in DOMAIN table, Matches(plan, table[i], stage[n]), NEW c \in plan.columns
      PROVE  Updated(schema, plan, table[i], stage)[c] = stage[n][c]
  <2> DEFINE by == Changing(plan, table[i], stage)
  <2>1. by \subseteq {n}
    BY <1>4 DEF Changing, Matches, Alone
  <2>2. CASE by = {}
    <3>1. ~Differs(plan, table[i], stage[n])
      BY <1>4, <2>2 DEF Changing
    <3>2. table[i][c] = stage[n][c]
      BY <1>4, <3>1 DEF Differs, Matches
    <3> QED
      BY <2>2, <3>2 DEF Updated
  <2>3. CASE by = {n}
    <3>1. (CHOOSE m \in by : TRUE) = n
      BY <2>3
    <3>2. c \in DOMAIN schema
      OBVIOUS
    <3> QED
      BY <2>3, <3>1, <3>2 DEF Updated
  <2> HIDE DEF by
  <2> QED
    BY <2>1, <2>2, <2>3
<1> HIDE DEF new
<1>5. \E i \in DOMAIN to : \A c \in plan.columns : to[i][c] = stage[n][c]
  <2>1. CASE n \in new
    BY <1>1, <1>2, <2>1
  <2>2. CASE n \notin new
    <3>1. PICK i \in DOMAIN table : Matches(plan, table[i], stage[n])
      BY <2>2 DEF new, Unmatched
    <3> QED
      BY <1>1, <1>4, <3>1
  <2> QED
    BY <2>1, <2>2
<1>6. ASSUME NEW i \in DOMAIN to, Matches(plan, to[i], stage[n])
      PROVE  ~Differs(plan, to[i], stage[n])
  <2>1. CASE i \in DOMAIN table
    <3>1. \A k \in plan.keys : to[i][k] = table[i][k]
      BY <1>1, <1>3, <2>1
    <3>2. Matches(plan, table[i], stage[n])
      BY <1>6, <3>1 DEF Matches
    <3>3. \A c \in plan.columns : to[i][c] = stage[n][c]
      BY <1>1, <1>4, <2>1, <3>2
    <3> QED
      BY <3>3 DEF Differs
  <2>2. CASE i \notin DOMAIN table
    <3>1. PICK m \in new : to[i] = Inserted(schema, plan, table, stage[m], Nth(new, m))
      BY <1>1, <2>2
    <3>2. \A c \in plan.columns : to[i][c] = stage[m][c]
      BY <1>2, <3>1
    <3>3. m \in DOMAIN stage /\ \A k \in plan.keys : stage[m][k] = stage[n][k]
      BY <1>6, <3>2 DEF Matches, new, Unmatched
    <3>4. m = n
      BY <3>3 DEF Alone
    <3> QED
      BY <3>2, <3>4 DEF Differs
  <2> QED
    BY <2>1, <2>2
<1> QED
  BY <1>5, <1>6

\* A MERGE of rows that are all there, and differ from nothing, changes nothing.
LEMMA MergeRepeats ==
    ASSUME NEW schema, NEW plan, NEW table, NEW stage, TableOK(schema, table),
           DOMAIN stage \in SUBSET Nat, IsFiniteSet(DOMAIN stage),
           \A n \in DOMAIN stage :
              /\ \E i \in DOMAIN table : Matches(plan, table[i], stage[n])
              /\ \A i \in DOMAIN table : Matches(plan, table[i], stage[n]) => ~Differs(plan, table[i], stage[n])
    PROVE  /\ Merged(schema, plan, table, stage) = table
           /\ \A i \in DOMAIN table : Changing(plan, table[i], stage) = {}
<1> DEFINE to == Merged(schema, plan, table, stage)
<1>1. Unmatched(plan, table, stage) = {}
  BY DEF Unmatched
<1>2. \A i \in DOMAIN table : Changing(plan, table[i], stage) = {}
  BY DEF Changing
<1>3. \A i \in DOMAIN table : Updated(schema, plan, table[i], stage) = table[i]
  BY <1>2 DEF Updated
<1> HIDE DEF to
<1>4. /\ to = [i \in DOMAIN to |-> to[i]]
      /\ DOMAIN table \subseteq DOMAIN to
      /\ \A i \in DOMAIN table : to[i] = Updated(schema, plan, table[i], stage)
      /\ \A i \in DOMAIN to \ DOMAIN table : FALSE
  BY <1>1, MergedRows DEF to
<1>5. table = [i \in DOMAIN table |-> table[i]]
  BY DEF TableOK
<1>6. DOMAIN to = DOMAIN table
  BY <1>4
<1>7. to = table
  BY <1>3, <1>4, <1>5, <1>6
<1> QED
  BY <1>2, <1>7 DEF to

(***************************************************************************)
(* Types.                                                                  *)
(***************************************************************************)

LEMMA FirstIsIn ==
    ASSUME NEW plans \in SUBSET TableSet, plans # {}
    PROVE  First(plans) \in plans
<1> DEFINE S == {k \in DOMAIN Tables : Tables[k] \in plans}
<1>1. DOMAIN Tables = 1..4
  BY DEF Tables
<1>2. S \in SUBSET Nat /\ S # {}
  BY <1>1 DEF TableSet, Range
<1>3. Min(S) \in S
  <2> HIDE DEF S
  <2> QED
    BY <1>2, MinIs
<1> QED
  BY <1>3 DEF First

\* The files of a command are sequences of rows with one header.
LEMMA FileIs ==
    ASSUME NEW cmd \in Commands, NEW t \in DOMAIN cmd.files, NEW file, file = cmd.files[t]
    PROVE  /\ Len(file) \in Nat /\ DOMAIN file = 1..Len(file)
           /\ DOMAIN file \in SUBSET Nat /\ IsFiniteSet(DOMAIN file) /\ Cardinality(DOMAIN file) = Len(file)
           /\ \A n, m \in DOMAIN file : DOMAIN file[n] = DOMAIN file[m]
<1>1. file \in Seq(Range(file))
  BY CommandsAssumption
<1>2. Len(file) \in Nat /\ DOMAIN file = 1..Len(file)
  BY <1>1
<1>3. IsFiniteSet(1..Len(file)) /\ Cardinality(1..Len(file)) = Len(file)
  BY <1>2, FS_Interval
<1> QED
  BY <1>2, <1>3, CommandsAssumption

\* The databases that are left of a target.
LEMMA TailOf ==
    ASSUME NEW S, NEW s \in Seq(S), s # <<>>, IsInjective(s)
    PROVE  /\ Tail(s) \in Seq(S) /\ IsInjective(Tail(s))
           /\ Head(s) \in S /\ Head(s) \in Range(s) /\ Head(s) \notin Range(Tail(s))
           /\ Range(Tail(s)) = Range(s) \ {Head(s)}
<1>1. Len(s) \in Nat \ {0} /\ DOMAIN s = 1..Len(s)
  OBVIOUS
<1>2. /\ Tail(s) \in Seq(S) /\ DOMAIN Tail(s) = 1..(Len(s) - 1)
      /\ \A i \in 1..(Len(s) - 1) : Tail(s)[i] = s[i + 1]
  OBVIOUS
<1>3. Head(s) = s[1] /\ Head(s) \in S
  OBVIOUS
<1>4. \A i, j \in DOMAIN s : s[i] = s[j] => i = j
  BY DEF IsInjective
<1>5. IsInjective(Tail(s))
  <2> SUFFICES ASSUME NEW i \in 1..(Len(s) - 1), NEW j \in 1..(Len(s) - 1), Tail(s)[i] = Tail(s)[j]
               PROVE  i = j
    BY <1>2 DEF IsInjective
  <2>1. i + 1 \in DOMAIN s /\ j + 1 \in DOMAIN s /\ s[i + 1] = s[j + 1]
    BY <1>1, <1>2
  <2> QED
    BY <1>4, <2>1
<1>6. Head(s) \in Range(s)
  BY <1>1, <1>3 DEF Range
<1>7. Head(s) \notin Range(Tail(s))
  <2> SUFFICES ASSUME NEW i \in 1..(Len(s) - 1), s[i + 1] = s[1] PROVE FALSE
    BY <1>2, <1>3 DEF Range
  <2>1. i + 1 \in DOMAIN s /\ 1 \in DOMAIN s /\ i + 1 # 1
    BY <1>1
  <2> QED
    BY <1>4, <2>1
<1>8. \A x \in Range(Tail(s)) : x \in Range(s)
  <2>1. \A i \in 1..(Len(s) - 1) : i + 1 \in DOMAIN s
    BY <1>1
  <2> QED
    BY <1>2, <2>1 DEF Range
<1>9. \A x \in Range(s) : x = Head(s) \/ x \in Range(Tail(s))
  <2> SUFFICES ASSUME NEW i \in DOMAIN s PROVE s[i] = s[1] \/ s[i] \in Range(Tail(s))
    BY <1>3 DEF Range
  <2>1. CASE i = 1
    BY <2>1
  <2>2. CASE i # 1
    <3>1. i - 1 \in 1..(Len(s) - 1) /\ (i - 1) + 1 = i
      BY <1>1, <2>2
    <3> QED
      BY <1>2, <3>1 DEF Range
  <2> QED
    BY <2>1, <2>2
<1> QED
  BY <1>2, <1>3, <1>5, <1>6, <1>7, <1>8, <1>9

\* Where a run stands while it is at a table.
LEMMA StandsAt ==
    ASSUME TypeOK, Working
    PROVE  /\ run.cmd \in Commands /\ run.at \in Positions /\ run.at \in Nat /\ Targets[run.at] # NULL
           /\ run.dbs \in Seq(Databases) /\ run.dbs # <<>> /\ IsInjective(run.dbs)
           /\ Head(run.dbs) \in Databases /\ Head(run.dbs) \in Range(DatabasesOf[Targets[run.at]])
           /\ First(run.plans) \in run.plans /\ First(run.plans) \in TableSet
           /\ First(run.plans) \in Plans(run.cmd) /\ First(run.plans) \in DOMAIN run.cmd.files
           /\ Len(File) \in Nat /\ DOMAIN File = 1..Len(File)
           /\ DOMAIN File \in SUBSET Nat /\ IsFiniteSet(DOMAIN File) /\ Cardinality(DOMAIN File) = Len(File)
           /\ \A n, m \in DOMAIN File : DOMAIN File[n] = DOMAIN File[m]
<1>1. run.dbs \in Seq(Databases) /\ run.plans \in SUBSET TableSet /\ run.at \in Nat
  BY DEF TypeOK, RunOK
<1>2. /\ run.cmd \in Commands /\ run.at \in Positions /\ Targets[run.at] # NULL
      /\ run.dbs # <<>> /\ IsInjective(run.dbs) /\ Range(run.dbs) \subseteq Range(DatabasesOf[Targets[run.at]])
      /\ run.plans # {} /\ run.plans \subseteq Plans(run.cmd)
  BY DEF TypeOK, RunOK, Working
<1>3. First(run.plans) \in run.plans
  BY <1>1, <1>2, FirstIsIn
<1>4. First(run.plans) \in DOMAIN run.cmd.files
  BY <1>2, <1>3 DEF Plans
<1>5. Head(run.dbs) \in Databases /\ Head(run.dbs) \in Range(run.dbs)
  BY <1>1, <1>2, TailOf
<1>6. /\ Len(File) \in Nat /\ DOMAIN File = 1..Len(File)
      /\ DOMAIN File \in SUBSET Nat /\ IsFiniteSet(DOMAIN File) /\ Cardinality(DOMAIN File) = Len(File)
      /\ \A n, m \in DOMAIN File : DOMAIN File[n] = DOMAIN File[m]
  <2>1. \A file : file = run.cmd.files[First(run.plans)] =>
           /\ Len(file) \in Nat /\ DOMAIN file = 1..Len(file)
           /\ DOMAIN file \in SUBSET Nat /\ IsFiniteSet(DOMAIN file) /\ Cardinality(DOMAIN file) = Len(file)
           /\ \A n, m \in DOMAIN file : DOMAIN file[n] = DOMAIN file[m]
    BY <1>2, <1>4, FileIs
  <2> QED
    BY <2>1 DEF File
<1> QED
  BY <1>1, <1>2, <1>3, <1>4, <1>5, <1>6

\* The rows that are not skipped.
LEMMA KeptAre ==
    ASSUME TypeOK, Working, NEW rows, rows = Kept(run.skipped)
    PROVE  /\ DOMAIN rows = DOMAIN File \ run.skipped
           /\ DOMAIN rows \in SUBSET Nat /\ IsFiniteSet(DOMAIN rows)
           /\ \A n \in DOMAIN rows : rows[n] = File[n]
<1>1. DOMAIN rows = DOMAIN File \ run.skipped /\ \A n \in DOMAIN rows : rows[n] = File[n]
  BY DEF Kept, Restrict
<1>2. DOMAIN File \in SUBSET Nat /\ IsFiniteSet(DOMAIN File)
  BY StandsAt
<1> QED
  BY <1>1, <1>2, FS_Subset

\* Where it stands after a table.
LEMMA NextPlanIs ==
    ASSUME TypeOK, Working, run' = NextPlan
    PROVE  /\ run'.cmd = run.cmd /\ run'.skipped = {} /\ run'.wrote = run.wrote /\ run'.pc \in {"target", "table"}
           /\ \/ /\ run'.pc = "target" /\ run'.at = run.at + 1 /\ run'.plans = Plans(run.cmd)
                 /\ run'.dbs = <<>> /\ Tail(run.dbs) = <<>> /\ run.plans = {First(run.plans)}
              \/ /\ run'.pc = "table" /\ run'.at = run.at /\ run'.plans = Plans(run.cmd)
                 /\ run'.dbs = Tail(run.dbs) /\ Tail(run.dbs) # <<>> /\ run.plans = {First(run.plans)}
              \/ /\ run'.pc = "table" /\ run'.at = run.at /\ run'.plans = run.plans \ {First(run.plans)}
                 /\ run'.dbs = run.dbs /\ run'.plans # {}
           /\ DOMAIN run' = DOMAIN run
           /\ run' = [k \in DOMAIN run |-> run'[k]]
<1> DEFINE plans == run.plans \ {First(run.plans)}
           dbs == IF plans = {} THEN Tail(run.dbs) ELSE run.dbs
           on == [run EXCEPT !.plans = IF plans = {} THEN Plans(run.cmd) ELSE plans, !.dbs = dbs, !.skipped = {}]
<1>1. run' = IF dbs = <<>> THEN NextTarget(on) ELSE [on EXCEPT !.pc = "table"]
  BY DEF NextPlan
<1>2. DOMAIN run = {"pc", "cmd", "at", "dbs", "plans", "skipped", "wrote"}
  BY DEF TypeOK, RunOK
<1>3. /\ on.plans = IF plans = {} THEN Plans(run.cmd) ELSE plans
      /\ on.dbs = dbs /\ on.skipped = {}
      /\ on.cmd = run.cmd /\ on.wrote = run.wrote /\ on.at = run.at
      /\ DOMAIN on = DOMAIN run
  BY <1>2
<1> HIDE DEF on
<1>4. /\ run'.cmd = run.cmd /\ run'.skipped = {} /\ run'.wrote = run.wrote
      /\ run'.plans = (IF plans = {} THEN Plans(run.cmd) ELSE plans) /\ run'.dbs = dbs
      /\ DOMAIN run' = DOMAIN run
      /\ run' = [k \in DOMAIN run |-> run'[k]]
  <2>1. CASE dbs = <<>>
    BY <1>1, <1>2, <1>3, <2>1 DEF NextTarget
  <2>2. CASE dbs # <<>>
    BY <1>1, <1>2, <1>3, <2>2
  <2> QED
    BY <2>1, <2>2
<1>5. dbs = <<>> => run'.pc = "target" /\ run'.at = run.at + 1
  BY <1>1, <1>2, <1>3 DEF NextTarget
<1>6. dbs # <<>> => run'.pc = "table" /\ run'.at = run.at
  BY <1>1, <1>2, <1>3
<1>7. plans = {} => run.plans = {First(run.plans)}
  BY StandsAt
<1>8. run.dbs # <<>>
  BY StandsAt
<1> QED
  BY <1>4, <1>5, <1>6, <1>7, <1>8

LEMMA TargetsAre == Len(Targets) \in Nat /\ DOMAIN Targets = Positions
BY TargetsAssumption DEF Positions

\* The run knows where it is after a table.
LEMMA RunAfterTable ==
    ASSUME TypeOK, Working, run' = NextPlan, UNCHANGED others
    PROVE  RunOK'
<1> DEFINE R == [pc : {"none", "target", "table", "merge", "diagnose"}, cmd : Commands \cup {NULL}, at : Nat,
                 dbs : Seq(Databases), plans : SUBSET TableSet, skipped : SUBSET Nat, wrote : Nat]
<1>1. /\ run'.cmd = run.cmd /\ run'.skipped = {} /\ run'.wrote = run.wrote /\ run'.pc \in {"target", "table"}
      /\ \/ /\ run'.pc = "target" /\ run'.at = run.at + 1 /\ run'.plans = Plans(run.cmd)
            /\ run'.dbs = <<>>
         \/ /\ run'.pc = "table" /\ run'.at = run.at /\ run'.plans = Plans(run.cmd)
            /\ run'.dbs = Tail(run.dbs) /\ Tail(run.dbs) # <<>> /\ run.plans = {First(run.plans)}
         \/ /\ run'.pc = "table" /\ run'.at = run.at /\ run'.plans = run.plans \ {First(run.plans)}
            /\ run'.dbs = run.dbs /\ run'.plans # {}
      /\ DOMAIN run' = DOMAIN run
      /\ run' = [k \in DOMAIN run |-> run'[k]]
  BY NextPlanIs
<1>2. /\ run \in R /\ run.wrote <= others /\ run.at \in 1..(Len(Targets) + 1)
      /\ Range(run.dbs) \subseteq Range(DatabasesOf[Targets[run.at]]) /\ run.plans \subseteq Plans(run.cmd)
  BY DEF TypeOK, RunOK, Working
<1>3. /\ run.cmd \in Commands /\ run.at \in Positions /\ Targets[run.at] # NULL
      /\ run.dbs \in Seq(Databases) /\ run.dbs # <<>> /\ IsInjective(run.dbs)
  BY StandsAt
<1>4. /\ Tail(run.dbs) \in Seq(Databases) /\ IsInjective(Tail(run.dbs))
      /\ Range(Tail(run.dbs)) = Range(run.dbs) \ {Head(run.dbs)}
  BY <1>3, TailOf
<1>5. Plans(run.cmd) \subseteq TableSet
  BY DEF Plans, TableSet
<1>6. run.at \in 1..Len(Targets) /\ Len(Targets) \in Nat
  BY <1>3, TargetsAre DEF Positions
<1>7. run' \in R
  <2>1. run'.at \in Nat /\ run'.plans \in SUBSET TableSet /\ run'.dbs \in Seq(Databases)
    <3>1. run.at + 1 \in Nat /\ run.at \in Nat
      BY <1>6
    <3>2. run.plans \in SUBSET TableSet
      BY <1>2
    <3>3. <<>> \in Seq(Databases)
      OBVIOUS
    <3>4. run'.at = run.at + 1 \/ run'.at = run.at
      BY <1>1
    <3>5. run'.plans = Plans(run.cmd) \/ run'.plans = run.plans \ {First(run.plans)}
      BY <1>1
    <3>6. run'.dbs = <<>> \/ run'.dbs = Tail(run.dbs) \/ run'.dbs = run.dbs
      BY <1>1
    <3>7. run'.at \in Nat
      BY <3>1, <3>4
    <3>8. run'.plans \in SUBSET TableSet
      BY <1>5, <3>2, <3>5
    <3> QED
      BY <1>3, <1>4, <3>3, <3>6, <3>7, <3>8
  <2>2. run'.skipped \in SUBSET Nat /\ run'.cmd \in Commands \cup {NULL} /\ run'.wrote \in Nat
    BY <1>1, <1>2
  <2>3. DOMAIN run' = {"pc", "cmd", "at", "dbs", "plans", "skipped", "wrote"}
    BY <1>1, <1>2
  <2> QED
    BY <1>1, <2>1, <2>2, <2>3
<1>8. /\ run'.pc # "none" => run'.cmd \in Commands /\ run'.at \in 1..(Len(Targets) + 1)
      /\ run'.pc = "target" => run'.plans = Plans(run'.cmd)
  BY <1>1, <1>3, <1>6
<1>9. run'.pc = "table" =>
        /\ run'.at \in Positions /\ Targets[run'.at] # NULL
        /\ run'.dbs # <<>> /\ IsInjective(run'.dbs) /\ Range(run'.dbs) \subseteq Range(DatabasesOf[Targets[run'.at]])
        /\ run'.plans # {} /\ run'.plans \subseteq Plans(run'.cmd)
  <2>1. Plans(run.cmd) # {}
    BY StandsAt
  <2>2. run'.pc = "table" => run'.plans # {} /\ run'.plans \subseteq Plans(run'.cmd)
    BY <1>1, <1>2, <2>1
  <2>3. CASE run'.dbs = run.dbs /\ run'.at = run.at
    BY <1>2, <1>3, <2>2, <2>3
  <2>4. CASE run'.dbs = Tail(run.dbs) /\ Tail(run.dbs) # <<>> /\ run'.at = run.at
    BY <1>2, <1>3, <1>4, <2>2, <2>4
  <2> QED
    BY <1>1, <2>3, <2>4
<1> HIDE DEF R
<1>10. run'.wrote <= others'
  BY <1>1, <1>2
<1> QED
  BY <1>1, <1>7, <1>8, <1>9, <1>10 DEF RunOK, Working, R

\* And after a target.
LEMMA RunAfterTarget ==
    ASSUME TypeOK, run.pc = "target", run.at <= Len(Targets), run' = NextTarget(run), UNCHANGED others
    PROVE  RunOK' /\ run'.pc = "target" /\ run'.at = run.at + 1 /\ run'.cmd = run.cmd
<1> DEFINE R == [pc : {"none", "target", "table", "merge", "diagnose"}, cmd : Commands \cup {NULL}, at : Nat,
                 dbs : Seq(Databases), plans : SUBSET TableSet, skipped : SUBSET Nat, wrote : Nat]
<1>1. run \in R /\ run.cmd \in Commands /\ run.at \in 1..(Len(Targets) + 1) /\ run.plans = Plans(run.cmd)
      /\ run.wrote <= others
  BY DEF TypeOK, RunOK
<1>2. run' \in R
  <2>1. run.at + 1 \in Nat
    BY <1>1
  <2>2. run' = [run EXCEPT !.pc = "target", !.at = run.at + 1]
    BY DEF NextTarget
  <2> QED
    BY <1>1, <2>1, <2>2
<1>3. /\ run'.pc = "target" /\ run'.at = run.at + 1 /\ run'.cmd = run.cmd /\ run'.plans = run.plans
      /\ run'.wrote = run.wrote
  BY <1>1 DEF NextTarget
<1>4. run'.at \in 1..(Len(Targets) + 1)
  BY <1>1, <1>3, TargetsAre
<1> HIDE DEF R
<1> QED
  BY <1>1, <1>2, <1>3, <1>4 DEF RunOK, Working, R

LEMMA RunEnded ==
    ASSUME run' = NoRun, others' \in Nat
    PROVE  RunOK'
<1>1. run' \in [pc : {"none", "target", "table", "merge", "diagnose"}, cmd : Commands \cup {NULL}, at : Nat,
                dbs : Seq(Databases), plans : SUBSET TableSet, skipped : SUBSET Nat, wrote : Nat]
  BY DEF NoRun
<1>2. run'.pc = "none" /\ run'.wrote <= others'
  BY DEF NoRun
<1> QED
  BY <1>1, <1>2 DEF RunOK, Working

LEMMA NothingReported == ReportOK(NoReport)
BY DEF ReportOK, NoReport

\* The kinds of entries.
Results == [cell : Positions \X Databases \X TableSet, inserted : Nat, updated : Nat, skipped : Nat, rows : Nat]
Errors  == [cell : (Positions \X Databases \X TableSet) \cup {Whole(at) : at \in Positions}, rows : SUBSET Nat]
Skips   == [cell : Positions \X Databases \X TableSet, row : Nat]

LEMMA ReportIs ==
    ASSUME NEW r
    PROVE  ReportOK(r) <=> r \in [results : Seq(Results), errors : Seq(Errors), skipped : Seq(Skips), attempted : Nat]
BY DEF ReportOK, Results, Errors, Skips

\* A report with one more error is a report.
LEMMA ErrorReported ==
    ASSUME NEW r, ReportOK(r), NEW e \in Errors
    PROVE  ReportOK([r EXCEPT !.errors = Append(@, e)])
<1>1. r \in [results : Seq(Results), errors : Seq(Errors), skipped : Seq(Skips), attempted : Nat]
  BY ReportIs
<1>2. Append(r.errors, e) \in Seq(Errors)
  BY <1>1
<1>3. [r EXCEPT !.errors = Append(@, e)]
        \in [results : Seq(Results), errors : Seq(Errors), skipped : Seq(Skips), attempted : Nat]
  BY <1>1, <1>2
<1> QED
  BY <1>3, ReportIs

LEMMA CellIs ==
    ASSUME TypeOK, Working
    PROVE  /\ Cell \in Positions \X Databases \X TableSet
           /\ Cell[1] = run.at /\ Cell[2] = Head(run.dbs) /\ Cell[3] = First(run.plans)
BY StandsAt DEF Cell

\* A table that fails.
LEMMA FailedTyped ==
    ASSUME TypeOK, Working, NEW rep, ReportOK(rep), NEW rows \in SUBSET Nat, Failed(rep, rows), UNCHANGED others
    PROVE  RunOK' /\ ReportOK(report')
<1>1. RunOK'
  BY RunAfterTable DEF Failed
<1>2. [cell |-> Cell, rows |-> rows] \in Errors
  BY CellIs DEF Errors
<1> QED
  BY <1>1, <1>2, ErrorReported DEF Failed

\* What a step leaves alone keeps its type.
LEMMA TablesKept ==
    ASSUME TypeOK, UNCHANGED <<tables, last>>
    PROVE  TablesOK'
BY DEF TypeOK, TablesOK

LEMMA SavedKept ==
    ASSUME TypeOK, UNCHANGED saved
    PROVE  (saved # NULL => saved.cmd \in Commands /\ ReportOK(saved.report))'
BY DEF TypeOK

LEMMA FaultsCounted ==
    ASSUME TypeOK, Breaks \/ Works
    PROVE  faults' \in 0..MaxFaults
BY BoundsAssumption DEF TypeOK, CountsOK, Breaks, Works

\* A finite set in some order.
LEMMA SetToSeqIs ==
    ASSUME NEW S, IsFiniteSet(S), NEW f, f = SetToSeq(S)
    PROVE  /\ Cardinality(S) \in Nat
           /\ f \in [1..Cardinality(S) -> S]
           /\ \A i, j \in 1..Cardinality(S) : f[i] = f[j] => i = j
           /\ \A x \in S : \E i \in 1..Cardinality(S) : f[i] = x
<1> DEFINE n == Cardinality(S)
<1>1. n \in Nat /\ ExistsBijection(1..n, S)
  BY FS_CardinalityType
<1>2. \E g \in [1..n -> S] : IsInjective(g)
  BY <1>1 DEF ExistsBijection, Bijection, Injection, Surjection, IsInjective
<1>3. f \in [1..n -> S] /\ IsInjective(f)
  BY <1>2 DEF SetToSeq
<1>4. f \in Injection(1..n, S)
  BY <1>3 DEF Injection, IsInjective
<1>5. IsFiniteSet(1..n) /\ Cardinality(1..n) = n
  BY <1>1, FS_Interval
<1>6. f \in Surjection(1..n, S)
  BY <1>4, <1>5, FS_Injection
<1> QED
  BY <1>1, <1>3, <1>6 DEF IsInjective, Surjection

LEMMA IncompleteIs ==
    /\ Incomplete \in Seq(Positions)
    /\ DOMAIN Incomplete \in SUBSET Nat
    /\ \A n \in DOMAIN Incomplete : Targets[Incomplete[n]] = NULL
    /\ \A n, m \in DOMAIN Incomplete : Incomplete[n] = Incomplete[m] => n = m
    /\ \A at \in Positions : Targets[at] = NULL => \E n \in DOMAIN Incomplete : Incomplete[n] = at
<1> DEFINE S == {n \in DOMAIN Targets : Targets[n] = NULL}
           f == Incomplete
<1>1. IsFiniteSet(S) /\ S \subseteq Positions
  <2>1. IsFiniteSet(Positions)
    BY TargetsAre, FS_Interval DEF Positions
  <2> QED
    BY <2>1, TargetsAre, FS_Subset
<1>2. f = SetToSeq(S)
  BY DEF Incomplete
<1> DEFINE n == Cardinality(S)
<1> HIDE DEF f
<1>3. /\ n \in Nat
      /\ f \in [1..n -> S]
      /\ \A i, j \in 1..n : f[i] = f[j] => i = j
      /\ \A x \in S : \E i \in 1..n : f[i] = x
  <2> HIDE DEF S
  <2> QED
    BY <1>1, <1>2, SetToSeqIs
<1>4. f \in Seq(Positions)
  BY <1>1, <1>3
<1>5. DOMAIN f = 1..n
  BY <1>3
<1>6. \A at \in Positions : Targets[at] = NULL => at \in S
  BY TargetsAre
<1>7. \A i \in 1..n : Targets[f[i]] = NULL
  BY <1>3
<1>8. \A at \in Positions : Targets[at] = NULL => \E i \in DOMAIN f : f[i] = at
  BY <1>3, <1>5, <1>6
<1> HIDE DEF n, S
<1>9. DOMAIN f \in SUBSET Nat
  BY <1>3, <1>5
<1> QED
  BY <1>3, <1>4, <1>5, <1>7, <1>8, <1>9 DEF f

\* The steps, one by one.
LEMMA StartTyped ==
    ASSUME TypeOK, NEW cmd \in Commands, Start(cmd)
    PROVE  TypeOK'
<1>1. TablesOK' /\ (saved # NULL => saved.cmd \in Commands /\ ReportOK(saved.report))'
  BY TablesKept, SavedKept DEF Start
<1>2. RunOK'
  <2>1. run' \in [pc : {"none", "target", "table", "merge", "diagnose"}, cmd : Commands \cup {NULL}, at : Nat,
                  dbs : Seq(Databases), plans : SUBSET TableSet, skipped : SUBSET Nat, wrote : Nat]
    <3>1. run' = [NoRun EXCEPT !.pc = "target", !.cmd = cmd, !.at = 1, !.plans = Plans(cmd)]
      BY DEF Start
    <3>2. run' = [pc |-> "target", cmd |-> cmd, at |-> 1, dbs |-> <<>>, plans |-> Plans(cmd), skipped |-> {}, wrote |-> 0]
      BY <3>1 DEF NoRun
    <3>3. Plans(cmd) \in SUBSET TableSet
      BY DEF Plans, TableSet
    <3> QED
      BY <3>2, <3>3
  <2>2. run'.pc = "target" /\ run'.cmd = cmd /\ run'.at = 1 /\ run'.plans = Plans(cmd) /\ run'.wrote = 0
    BY DEF Start, NoRun
  <2>3. 1 \in 1..(Len(Targets) + 1) /\ 0 <= others'
    BY TargetsAre DEF Start, TypeOK, CountsOK
  <2> QED
    BY <2>1, <2>2, <2>3 DEF RunOK, Working
<1>3. ReportOK(report')
  <2> DEFINE es == [n \in DOMAIN Incomplete |-> [cell |-> Whole(Incomplete[n]), rows |-> {}]]
  <2>1. \A n \in DOMAIN Incomplete : Incomplete[n] \in Positions
    BY IncompleteIs
  <2>2. \A n \in DOMAIN Incomplete : [cell |-> Whole(Incomplete[n]), rows |-> {}] \in Errors
    BY <2>1 DEF Errors
  <2>3. Len(Incomplete) \in Nat /\ DOMAIN Incomplete = 1..Len(Incomplete)
    BY IncompleteIs
  <2>4. es \in Seq(Errors)
    BY <2>2, <2>3
  <2> HIDE DEF es
  <2>5. report' = [NoReport EXCEPT !.errors = es]
    BY DEF Start, es
  <2>6. report' \in [results : Seq(Results), errors : Seq(Errors), skipped : Seq(Skips), attempted : Nat]
    <3>1. report' = [results |-> <<>>, errors |-> es, skipped |-> <<>>, attempted |-> 0]
      BY <2>5 DEF NoReport
    <3>2. <<>> \in Seq(Results) /\ <<>> \in Seq(Skips)
      OBVIOUS
    <3> QED
      BY <2>4, <3>1, <3>2
  <2> QED
    BY <2>6, ReportIs
<1>4. CountsOK'
  BY BoundsAssumption DEF TypeOK, CountsOK, Start, Works
<1> QED
  BY <1>1, <1>2, <1>3, <1>4 DEF TypeOK

LEMMA SkipTyped ==
    ASSUME TypeOK, Skip
    PROVE  TypeOK'
<1>1. TablesOK' /\ (saved # NULL => saved.cmd \in Commands /\ ReportOK(saved.report))'
  BY TablesKept, SavedKept DEF Skip
<1>2. RunOK'
  BY RunAfterTarget DEF Skip
<1>3. ReportOK(report')
  BY DEF Skip, TypeOK
<1>4. CountsOK'
  BY DEF TypeOK, CountsOK, Skip, Works
<1> QED
  BY <1>1, <1>2, <1>3, <1>4 DEF TypeOK

\* A target that is reached is written database by database.
LEMMA Reached ==
    ASSUME TypeOK, run.pc = "target", run.at <= Len(Targets), Targets[run.at] # NULL
    PROVE  /\ run.at \in Positions /\ run.cmd \in Commands /\ run.plans = Plans(run.cmd)
           /\ DatabasesOf[Targets[run.at]] \in Seq(Databases) /\ IsInjective(DatabasesOf[Targets[run.at]])
<1>1. run.at \in Nat /\ run.at \in 1..(Len(Targets) + 1) /\ run.cmd \in Commands /\ run.plans = Plans(run.cmd)
  BY DEF TypeOK, RunOK
<1>2. run.at \in Positions
  BY <1>1, TargetsAre DEF Positions
<1>3. Targets[run.at] \in DOMAIN DatabasesOf
  BY <1>2, TargetsAssumption, TargetsAre
<1> QED
  BY <1>1, <1>2, <1>3, TargetsAssumption DEF Databases

LEMMA ConnectTyped ==
    ASSUME TypeOK, Connect
    PROVE  TypeOK'
<1> DEFINE dbs == DatabasesOf[Targets[run.at]]
<1>0. run.pc = "target" /\ run.at <= Len(Targets) /\ Targets[run.at] # NULL /\ UNCHANGED <<tables, runs, others, saved, last>>
  BY DEF Connect
<1>1. TablesOK' /\ (saved # NULL => saved.cmd \in Commands /\ ReportOK(saved.report))'
  BY <1>0, TablesKept, SavedKept
<1>2. CountsOK'
  BY <1>0, FaultsCounted DEF TypeOK, CountsOK, Connect
<1>3. /\ run.at \in Positions /\ run.cmd \in Commands /\ run.plans = Plans(run.cmd)
      /\ dbs \in Seq(Databases) /\ IsInjective(dbs)
  BY <1>0, Reached
<1>4. CASE run' = NextTarget(run)
  <2>1. RunOK'
    BY <1>0, <1>4, RunAfterTarget
  <2>2. CASE UNCHANGED report
    BY <1>1, <1>2, <2>1, <2>2 DEF TypeOK
  <2>3. CASE report' = [report EXCEPT !.errors = Append(@, [cell |-> Whole(run.at), rows |-> {}])]
    <3>1. [cell |-> Whole(run.at), rows |-> {}] \in Errors
      BY <1>3 DEF Errors
    <3>2. ReportOK(report')
      BY <2>3, <3>1, ErrorReported DEF TypeOK
    <3> QED
      BY <1>1, <1>2, <2>1, <3>2 DEF TypeOK
  <2> QED
    BY <1>4, <2>2, <2>3 DEF Connect
<1>5. CASE dbs # <<>> /\ run.plans # {} /\ run' = [run EXCEPT !.pc = "table", !.dbs = dbs] /\ UNCHANGED report
  <2>1. run' \in [pc : {"none", "target", "table", "merge", "diagnose"}, cmd : Commands \cup {NULL}, at : Nat,
                  dbs : Seq(Databases), plans : SUBSET TableSet, skipped : SUBSET Nat, wrote : Nat]
    BY <1>3, <1>5 DEF TypeOK, RunOK
  <2>2. /\ run'.pc = "table" /\ run'.at = run.at /\ run'.cmd = run.cmd /\ run'.plans = run.plans /\ run'.dbs = dbs
        /\ run'.wrote = run.wrote
    BY <1>5 DEF TypeOK, RunOK
  <2>3. run.wrote <= others' /\ run.at \in 1..(Len(Targets) + 1)
    BY <1>0 DEF TypeOK, RunOK
  <2>4. RunOK'
    BY <1>0, <1>3, <1>5, <2>1, <2>2, <2>3 DEF RunOK, Working
  <2> QED
    BY <1>1, <1>2, <1>5, <2>4 DEF TypeOK
<1> QED
  BY <1>4, <1>5 DEF Connect

LEMMA MissingIs ==
    ASSUME TypeOK, Working, NEW out, out = Missing(Head(run.dbs), First(run.plans), File)
    PROVE  out \subseteq DOMAIN File /\ out \in SUBSET Nat /\ IsFiniteSet(out)
<1>1. out \subseteq DOMAIN File
  BY DEF Missing
<1>2. DOMAIN File \in SUBSET Nat /\ IsFiniteSet(DOMAIN File)
  BY StandsAt
<1> QED
  BY <1>1, <1>2, FS_Subset

\* What is put in the report of the rows that are skipped.
LEMMA SkippedReported ==
    ASSUME TypeOK, run.pc = "table", NEW out, out = Missing(Head(run.dbs), First(run.plans), File),
           NEW new, new = [k \in 1..Cardinality(out) |-> [cell |-> Cell, row |-> SetToSeq(out)[k]]]
    PROVE  new \in Seq(Skips) /\ Len(new) = Cardinality(out) /\ Cardinality(out) \in Nat
           /\ \A k \in 1..Cardinality(out) : new[k].cell = Cell
<1>1. out \in SUBSET Nat /\ IsFiniteSet(out)
  BY MissingIs DEF Working
<1>2. Cardinality(out) \in Nat /\ SetToSeq(out) \in [1..Cardinality(out) -> out]
  BY <1>1, SetToSeqIs
<1>3. Cell \in Positions \X Databases \X TableSet
  BY CellIs DEF Working
<1>4. \A k \in 1..Cardinality(out) : [cell |-> Cell, row |-> SetToSeq(out)[k]] \in Skips
  BY <1>1, <1>2, <1>3 DEF Skips
<1> QED
  BY <1>2, <1>4

LEMMA SplitTyped ==
    ASSUME TypeOK, Split
    PROVE  TypeOK'
<1> DEFINE db == Head(run.dbs)
           t == First(run.plans)
           out == Missing(db, t, File)
           tried == [report EXCEPT !.attempted = @ + 1]
           new == [k \in 1..Cardinality(out) |-> [cell |-> Cell, row |-> SetToSeq(out)[k]]]
<1>1. /\ run.pc = "table" /\ Working /\ UNCHANGED <<tables, runs, others, saved, last>>
      /\ \/ /\ run' = [run EXCEPT !.pc = "merge", !.skipped = out, !.wrote = others] /\ Works
            /\ report' = [tried EXCEPT !.skipped = @ \o new]
         \/ Failed(tried, {}) /\ (Breaks \/ Works)
  BY DEF Split, Working
<1>2. TablesOK' /\ (saved # NULL => saved.cmd \in Commands /\ ReportOK(saved.report))'
  BY <1>1, TablesKept, SavedKept
<1>3. CountsOK'
  BY <1>1, FaultsCounted DEF TypeOK, CountsOK
<1>4. report \in [results : Seq(Results), errors : Seq(Errors), skipped : Seq(Skips), attempted : Nat]
  BY ReportIs DEF TypeOK
<1>5. tried \in [results : Seq(Results), errors : Seq(Errors), skipped : Seq(Skips), attempted : Nat]
  BY <1>4
<1>6. CASE Failed(tried, {})
  <2>1. RunOK' /\ ReportOK(report')
    BY <1>1, <1>5, <1>6, FailedTyped, ReportIs
  <2> QED
    BY <1>2, <1>3, <2>1 DEF TypeOK
<1>7. CASE /\ run' = [run EXCEPT !.pc = "merge", !.skipped = out, !.wrote = others]
           /\ report' = [tried EXCEPT !.skipped = @ \o new]
  <2>1. out \subseteq DOMAIN File /\ out \in SUBSET Nat
    BY <1>1, MissingIs
  <2>2. new \in Seq(Skips)
    BY <1>1, SkippedReported
  <2>3. ReportOK(report')
    <3> HIDE DEF new, tried
    <3>1. tried.skipped \o new \in Seq(Skips)
      BY <1>5, <2>2
    <3>2. report' \in [results : Seq(Results), errors : Seq(Errors), skipped : Seq(Skips), attempted : Nat]
      BY <1>5, <1>7, <3>1
    <3> QED
      BY <3>2, ReportIs
  <2>4. others \in Nat /\ others' = others
    BY <1>1 DEF TypeOK, CountsOK
  <2> HIDE DEF out
  <2>5. run' \in [pc : {"none", "target", "table", "merge", "diagnose"}, cmd : Commands \cup {NULL}, at : Nat,
                  dbs : Seq(Databases), plans : SUBSET TableSet, skipped : SUBSET Nat, wrote : Nat]
    BY <1>7, <2>1, <2>4 DEF TypeOK, RunOK
  <2>6. /\ run'.pc = "merge" /\ run'.at = run.at /\ run'.cmd = run.cmd /\ run'.plans = run.plans /\ run'.dbs = run.dbs
        /\ run'.wrote = others /\ run'.skipped = out
    BY <1>7 DEF TypeOK, RunOK
  <2>7. File' = File
    BY <2>6 DEF File
  <2>8. RunOK'
    BY <1>1, <2>1, <2>4, <2>5, <2>6, <2>7 DEF TypeOK, RunOK, Working
  <2> QED
    BY <1>2, <1>3, <2>3, <2>8 DEF TypeOK
<1> QED
  BY <1>1, <1>6, <1>7

\* What a MERGE that is taken does.
Database == Head(run.dbs)
Table    == First(run.plans)
Rows     == Kept(run.skipped)
Took     == Try(Database, Table, Rows)

LEMMA MergeIs ==
    ASSUME TypeOK, Merge
    PROVE  /\ Working /\ Database \in Databases /\ Table \in TableSet /\ PlanOf(Database, Table, Rows) # NULL
           /\ Took = Merged(Schemas[Database][Table], PlanOf(Database, Table, Rows), tables[Database][Table], Rows)
           /\ TableOK(Schemas[Database][Table], tables[Database][Table])
           /\ TableOK(Schemas[Database][Table], Took)
           /\ tables' = [tables EXCEPT ![Database][Table] = Took]
           /\ Valid(Database, [tables[Database] EXCEPT ![Table] = Took])
           /\ \A d \in Databases : \A s \in TableSet :
                 tables'[d][s] = IF d = Database /\ s = Table THEN Took ELSE tables[d][s]
<1> DEFINE db == Database
           t == Table
           rows == Rows
           plan == PlanOf(db, t, rows)
           to == Took
<1>1. Working /\ to # NULL /\ tables' = [tables EXCEPT ![db][t] = to]
  BY DEF Merge, Working, Database, Table, Rows, Took
<1>2. db \in Databases /\ t \in TableSet
  BY <1>1, StandsAt DEF Database, Table
<1>3. /\ plan # NULL /\ to = Merged(Schemas[db][t], plan, tables[db][t], rows)
      /\ Valid(db, [tables[db] EXCEPT ![t] = to])
  BY <1>1 DEF Try, Took
<1>4. TableOK(Schemas[db][t], tables[db][t])
  BY <1>2 DEF TypeOK, TablesOK
<1>5. DOMAIN rows \in SUBSET Nat /\ IsFiniteSet(DOMAIN rows)
  BY <1>1, KeptAre DEF Rows
<1> HIDE DEF db, t, rows, plan, to
<1>6. TableOK(Schemas[db][t], to)
  BY <1>3, <1>4, <1>5, MergedOK
<1>7. tables = [d \in Databases |-> [s \in TableSet |-> tables[d][s]]]
  BY DEF TypeOK, TablesOK
<1>8. \A d \in Databases : \A s \in TableSet : tables'[d][s] = IF d = db /\ s = t THEN to ELSE tables[d][s]
  BY <1>1, <1>2, <1>7
<1> QED
  BY <1>1, <1>2, <1>3, <1>4, <1>6, <1>8 DEF db, t, rows, plan, to

\* One table of one database changes, and the database takes it.
LEMMA TableWritten ==
    ASSUME TypeOK, NEW db \in Databases, NEW t \in TableSet, NEW to, TableOK(Schemas[db][t], to),
           Valid(db, [tables[db] EXCEPT ![t] = to]), tables' = [tables EXCEPT ![db][t] = to],
           DOMAIN last' = Databases, \A d \in Databases : DOMAIN last'[d] = TableSet
    PROVE  TablesOK'
<1>1. /\ tables = [d \in Databases |-> [s \in TableSet |-> tables[d][s]]]
      /\ \A d \in Databases : Valid(d, tables[d]) /\ \A s \in TableSet : TableOK(Schemas[d][s], tables[d][s])
  BY DEF TypeOK, TablesOK
<1>2. tables' = [d \in Databases |-> [s \in TableSet |-> tables'[d][s]]]
  BY <1>1
<1>3. /\ tables'[db] = [tables[db] EXCEPT ![t] = to]
      /\ \A d \in Databases : d # db => tables'[d] = tables[d]
      /\ \A d \in Databases : \A s \in TableSet : tables'[d][s] = IF d = db /\ s = t THEN to ELSE tables[d][s]
  BY <1>1
<1>4. ASSUME NEW d \in Databases PROVE Valid(d, tables'[d])
  BY <1>1, <1>3
<1>5. ASSUME NEW d \in Databases, NEW s \in TableSet PROVE TableOK(Schemas[d][s], tables'[d][s])
  <2>1. CASE d = db /\ s = t
    BY <1>3, <2>1
  <2>2. CASE ~(d = db /\ s = t)
    <3>1. tables'[d][s] = tables[d][s]
      BY <1>3, <2>2
    <3> QED
      BY <1>1, <3>1
  <2> QED
    BY <2>1, <2>2
<1> QED
  BY <1>2, <1>4, <1>5 DEF TablesOK

\* What a MERGE reports.
LEMMA MergeReported ==
    ASSUME TypeOK, Merge
    PROVE  \E e \in Results :
              /\ report' = [report EXCEPT !.results = Append(@, e)]
              /\ e.cell = Cell
              /\ e.inserted = Cardinality(DOMAIN Took \ DOMAIN tables[Database][Table])
              /\ e.updated = Cardinality({i \in DOMAIN tables[Database][Table] :
                                Changing(PlanOf(Database, Table, Rows), tables[Database][Table][i], Rows) # {}})
              /\ e.skipped = Cardinality(run.skipped) /\ e.rows = Cardinality(DOMAIN Rows)
<1> DEFINE db == Database
           t == Table
           rows == Rows
           to == Took
           from == tables[db][t]
           changed == {i \in DOMAIN from : Changing(PlanOf(db, t, rows), from[i], rows) # {}}
           e == [cell |-> Cell, inserted |-> Cardinality(DOMAIN to \ DOMAIN from), updated |-> Cardinality(changed),
                 skipped |-> Cardinality(run.skipped), rows |-> Cardinality(DOMAIN rows)]
<1>1. /\ Working /\ TableOK(Schemas[db][t], from) /\ TableOK(Schemas[db][t], to)
  BY MergeIs
<1>2. run.skipped \subseteq DOMAIN File /\ IsFiniteSet(DOMAIN File)
  <2>1. run.pc = "merge"
    BY DEF Merge
  <2> QED
    BY <1>1, <2>1, StandsAt DEF TypeOK, RunOK
<1>3. IsFiniteSet(run.skipped) /\ IsFiniteSet(DOMAIN rows)
  BY <1>1, <1>2, KeptAre, FS_Subset DEF Rows
<1>4. IsFiniteSet(DOMAIN to \ DOMAIN from) /\ IsFiniteSet(changed)
  <2>1. IsFiniteSet(DOMAIN to) /\ IsFiniteSet(DOMAIN from)
    BY <1>1 DEF TableOK
  <2> QED
    BY <2>1, FS_Subset
<1>5. /\ Cardinality(run.skipped) \in Nat /\ Cardinality(DOMAIN rows) \in Nat
      /\ Cardinality(DOMAIN to \ DOMAIN from) \in Nat /\ Cardinality(changed) \in Nat
  BY <1>3, <1>4, FS_CardinalityType
<1>6. Cell \in Positions \X Databases \X TableSet
  BY <1>1, CellIs
<1>7. report' = [report EXCEPT !.results = Append(@, e)]
  BY DEF Merge, Database, Table, Rows, Took
<1> HIDE DEF changed
<1>8. e \in Results
  BY <1>5, <1>6 DEF Results
<1> QED
  BY <1>7, <1>8 DEF changed

\* What is remembered of a MERGE, and what is forgotten.
LEMMA MergeForgets ==
    ASSUME TypeOK, Merge, NEW db, db = Head(run.dbs), NEW t, t = First(run.plans),
           NEW to, to = Try(db, t, Kept(run.skipped))
    PROVE  /\ DOMAIN last' = Databases /\ \A d \in Databases : DOMAIN last'[d] = TableSet
           /\ \A d \in Databases : d # db => last'[d] = last[d]
           /\ last'[db][t] = [file |-> File, skipped |-> run.skipped, calm |-> run.wrote = others]
           /\ \A s \in TableSet :
                 s # t /\ last'[db][s] # NULL =>
                    /\ last'[db][s] = last[db][s]
                    /\ ~(HasRule(s) /\ to # tables[db][t] /\ Rules[s].table = t)
<1> DEFINE done == [file |-> File, skipped |-> run.skipped, calm |-> run.wrote = others]
           keeps(s) == ~(HasRule(s) /\ to # tables[db][t] /\ Rules[s].table = t)
           f == [s \in DOMAIN last[db] |-> IF s = t THEN done ELSE IF ~keeps(s) THEN NULL ELSE last[db][s]]
<1>1. last' = [last EXCEPT ![db] = f]
  BY DEF Merge
<1>2. DOMAIN last = Databases /\ \A d \in Databases : DOMAIN last[d] = TableSet
  BY DEF TypeOK, TablesOK
<1>3. db \in Databases /\ t \in TableSet
  BY StandsAt DEF Merge, Working
<1> HIDE DEF done, keeps
<1>4. f[t] = done /\ DOMAIN f = TableSet
  BY <1>2, <1>3
<1>5. \A s \in TableSet : s # t /\ f[s] # NULL => f[s] = last[db][s] /\ keeps(s)
  BY <1>2, <1>3
<1> HIDE DEF f
<1>6. last'[db] = f /\ DOMAIN last' = Databases /\ \A d \in Databases : d # db => last'[d] = last[d]
  BY <1>1, <1>2, <1>3
<1>7. \A d \in Databases : DOMAIN last'[d] = TableSet
  BY <1>2, <1>4, <1>6
<1> QED
  BY <1>4, <1>5, <1>6, <1>7 DEF done, keeps

LEMMA MergeTyped ==
    ASSUME TypeOK, Merge
    PROVE  TypeOK'
<1> DEFINE db == Head(run.dbs)
           t == First(run.plans)
           rows == Kept(run.skipped)
           to == Try(db, t, rows)
<1> HIDE DEF db, t, rows, to
<1>1. /\ Working /\ db \in Databases /\ t \in TableSet /\ TableOK(Schemas[db][t], to)
      /\ Valid(db, [tables[db] EXCEPT ![t] = to]) /\ tables' = [tables EXCEPT ![db][t] = to]
  BY MergeIs DEF db, t, rows, to, Database, Table, Rows, Took
<1>2. DOMAIN last' = Databases /\ \A d \in Databases : DOMAIN last'[d] = TableSet
  <2>1. DOMAIN last = Databases /\ \A d \in Databases : DOMAIN last[d] = TableSet
    BY DEF TypeOK, TablesOK
  <2> QED
    BY <1>1, <2>1, MergeForgets DEF db, t, rows, to
<1>3. TablesOK'
  BY <1>1, <1>2, TableWritten
<1>4. RunOK' /\ CountsOK' /\ (saved # NULL => saved.cmd \in Commands /\ ReportOK(saved.report))'
  <2>1. run' = NextPlan /\ UNCHANGED <<runs, others, faults, saved>>
    BY DEF Merge, Works
  <2> QED
    BY <1>1, <2>1, RunAfterTable, SavedKept DEF TypeOK, CountsOK
<1>5. ReportOK(report')
  <2>1. PICK e \in Results : report' = [report EXCEPT !.results = Append(@, e)]
    BY MergeReported
  <2>2. report \in [results : Seq(Results), errors : Seq(Errors), skipped : Seq(Skips), attempted : Nat]
    BY ReportIs DEF TypeOK
  <2>3. Append(report.results, e) \in Seq(Results)
    BY <2>2
  <2>4. report' \in [results : Seq(Results), errors : Seq(Errors), skipped : Seq(Skips), attempted : Nat]
    BY <2>1, <2>2, <2>3
  <2> QED
    BY <2>4, ReportIs
<1> QED
  BY <1>3, <1>4, <1>5 DEF TypeOK

LEMMA FailTyped ==
    ASSUME TypeOK, Fail
    PROVE  TypeOK'
<1>0. /\ run.pc = "merge" /\ Working /\ run' = [run EXCEPT !.pc = "diagnose"] /\ (Breaks \/ Works)
      /\ UNCHANGED <<tables, report, runs, others, saved, last>>
  BY DEF Fail, Working
<1>1. TablesOK' /\ (saved # NULL => saved.cmd \in Commands /\ ReportOK(saved.report))'
  BY <1>0, TablesKept, SavedKept
<1>2. CountsOK' /\ ReportOK(report')
  BY <1>0, FaultsCounted DEF TypeOK, CountsOK
<1>3. RunOK'
  <2>1. run' \in [pc : {"none", "target", "table", "merge", "diagnose"}, cmd : Commands \cup {NULL}, at : Nat,
                  dbs : Seq(Databases), plans : SUBSET TableSet, skipped : SUBSET Nat, wrote : Nat]
    BY <1>0 DEF TypeOK, RunOK
  <2>2. /\ run'.pc = "diagnose" /\ run'.at = run.at /\ run'.cmd = run.cmd /\ run'.plans = run.plans
        /\ run'.dbs = run.dbs /\ run'.wrote = run.wrote /\ run'.skipped = run.skipped
    BY <1>0 DEF TypeOK, RunOK
  <2>3. File' = File
    BY <2>2 DEF File
  <2> QED
    BY <1>0, <2>1, <2>2, <2>3 DEF TypeOK, RunOK, Working
<1> QED
  BY <1>1, <1>2, <1>3 DEF TypeOK

LEMMA DiagnoseTyped ==
    ASSUME TypeOK, Diagnose
    PROVE  TypeOK'
<1> DEFINE rows == Kept(run.skipped)
<1>0. /\ Working /\ UNCHANGED <<tables, runs, others, saved, last>> /\ (Breaks \/ Works)
      /\ \E bad \in SUBSET DOMAIN rows : Failed(report, bad)
  BY DEF Diagnose, Working
<1>1. TablesOK' /\ (saved # NULL => saved.cmd \in Commands /\ ReportOK(saved.report))'
  BY <1>0, TablesKept, SavedKept
<1>2. CountsOK'
  BY <1>0, FaultsCounted DEF TypeOK, CountsOK
<1>3. DOMAIN rows \in SUBSET Nat
  BY <1>0, KeptAre
<1>4. RunOK' /\ ReportOK(report')
  <2> HIDE DEF rows
  <2>1. PICK bad \in SUBSET DOMAIN rows : Failed(report, bad)
    BY <1>0
  <2>2. bad \in SUBSET Nat /\ ReportOK(report)
    BY <1>3 DEF TypeOK
  <2> QED
    BY <1>0, <2>1, <2>2, FailedTyped
<1> QED
  BY <1>1, <1>2, <1>4 DEF TypeOK

LEMMA EndTyped ==
    ASSUME TypeOK, Save \/ Crash
    PROVE  TypeOK'
<1>1. /\ run' = NoRun /\ report' = NoReport /\ (Breaks \/ Works) /\ UNCHANGED <<tables, runs, others, last>>
      /\ UNCHANGED saved \/ (saved' = [cmd |-> run.cmd, report |-> report] /\ run.pc = "target")
  BY DEF Save, Crash
<1>2. TablesOK'
  BY <1>1, TablesKept
<1>3. CountsOK' /\ RunOK'
  <2>1. others' \in Nat
    BY <1>1 DEF TypeOK, CountsOK
  <2> QED
    BY <1>1, <2>1, FaultsCounted, RunEnded DEF TypeOK, CountsOK
<1>4. ReportOK(report')
  BY <1>1, NothingReported
<1>5. (saved # NULL => saved.cmd \in Commands /\ ReportOK(saved.report))'
  <2>1. CASE UNCHANGED saved
    BY <2>1, SavedKept
  <2>2. CASE saved' = [cmd |-> run.cmd, report |-> report] /\ run.pc = "target"
    BY <2>2 DEF TypeOK, RunOK
  <2> QED
    BY <1>1, <2>1, <2>2
<1> QED
  BY <1>2, <1>3, <1>4, <1>5 DEF TypeOK

LEMMA WriteTyped ==
    ASSUME TypeOK, NEW w \in Others, Write(w)
    PROVE  TypeOK'
<1> DEFINE to == Written(w)
           table == tables[w.db][w.table]
<1>1. /\ w.db \in Databases /\ w.table \in TableSet /\ w.at \in Nat
      /\ w.row # NULL => DOMAIN w.row = DOMAIN Schemas[w.db][w.table]
  BY OthersAssumption DEF Databases, TableSet
<1>2. TableOK(Schemas[w.db][w.table], table)
  BY <1>1 DEF TypeOK, TablesOK
<1>3. TableOK(Schemas[w.db][w.table], to)
  <2>1. CASE w.row # NULL
    <3>1. to = [i \in DOMAIN table \cup {w.at} |-> IF i = w.at THEN w.row ELSE table[i]]
      BY <2>1 DEF Written
    <3>2. IsFiniteSet(DOMAIN table \cup {w.at})
      BY <1>2, FS_AddElement DEF TableOK
    <3> HIDE DEF to, table
    <3> QED
      BY <1>1, <1>2, <2>1, <3>1, <3>2 DEF TableOK
  <2>2. CASE w.row = NULL
    <3>1. to = [i \in DOMAIN table \ {w.at} |-> table[i]]
      BY <2>2 DEF Written, Restrict
    <3>2. IsFiniteSet(DOMAIN table \ {w.at})
      BY <1>2, FS_RemoveElement DEF TableOK
    <3> HIDE DEF to, table
    <3> QED
      BY <1>1, <1>2, <2>2, <3>1, <3>2 DEF TableOK
  <2> QED
    BY <2>1, <2>2
<1>4. /\ Valid(w.db, [tables[w.db] EXCEPT ![w.table] = to]) /\ tables' = [tables EXCEPT ![w.db][w.table] = to]
      /\ UNCHANGED <<run, report, runs, faults, saved>> /\ others < MaxOthers /\ others' = others + 1
  BY DEF Write
<1>5. DOMAIN last' = Databases /\ \A d \in Databases : DOMAIN last'[d] = TableSet
  <2>1. DOMAIN last = Databases /\ \A d \in Databases : DOMAIN last[d] = TableSet
    BY DEF TypeOK, TablesOK
  <2>2. last' = [last EXCEPT ![w.db] = [s \in DOMAIN last[w.db] |-> NULL]]
    BY DEF Write
  <2> QED
    BY <1>1, <2>1, <2>2
<1> HIDE DEF to
<1>6. TablesOK'
  BY <1>1, <1>3, <1>4, <1>5, TableWritten
<1>7. CountsOK'
  BY <1>4, BoundsAssumption DEF TypeOK, CountsOK
<1>8. RunOK'
  <2>1. others \in Nat /\ run.wrote \in Nat
    BY DEF TypeOK, CountsOK, RunOK
  <2>2. File' = File
    BY <1>4 DEF File
  <2> QED
    BY <1>4, <2>1, <2>2 DEF TypeOK, RunOK, Working
<1>9. ReportOK(report') /\ (saved # NULL => saved.cmd \in Commands /\ ReportOK(saved.report))'
  BY <1>4, SavedKept DEF TypeOK
<1> QED
  BY <1>6, <1>7, <1>8, <1>9 DEF TypeOK

LEMMA StutterTyped ==
    ASSUME TypeOK, UNCHANGED vars
    PROVE  TypeOK'
<1>1. TablesOK' /\ (saved # NULL => saved.cmd \in Commands /\ ReportOK(saved.report))'
  BY TablesKept, SavedKept DEF vars
<1>2. File' = File
  BY DEF vars, File
<1>3. RunOK' /\ CountsOK' /\ ReportOK(report')
  BY <1>2 DEF vars, TypeOK, RunOK, CountsOK, Working
<1> QED
  BY <1>1, <1>3 DEF TypeOK

LEMMA InitTyped ==
    ASSUME Init
    PROVE  TypeOK
<1>1. TablesOK
  <2>1. last = [db \in Databases |-> [t \in DOMAIN Initial[db] |-> NULL]] /\ tables = Initial
    BY DEF Init, Databases
  <2>2. \A db \in Databases : DOMAIN Initial[db] = TableSet
    BY InitialAssumption DEF Databases, TableSet
  <2> QED
    BY <2>1, <2>2, InitialAssumption DEF TablesOK, Databases, TableSet
<1>2. CountsOK
  BY BoundsAssumption DEF Init, CountsOK
<1>3. RunOK
  <2>1. run \in [pc : {"none", "target", "table", "merge", "diagnose"}, cmd : Commands \cup {NULL}, at : Nat,
                 dbs : Seq(Databases), plans : SUBSET TableSet, skipped : SUBSET Nat, wrote : Nat]
    BY DEF Init, NoRun
  <2> QED
    BY <2>1 DEF Init, NoRun, RunOK, Working
<1> QED
  BY <1>1, <1>2, <1>3, NothingReported DEF Init, TypeOK

LEMMA StepTyped ==
    ASSUME TypeOK, [Next]_vars
    PROVE  TypeOK'
<1>1. CASE UNCHANGED vars
  BY <1>1, StutterTyped
<1>2. CASE \E cmd \in Commands : Start(cmd)
  BY <1>2, StartTyped
<1>3. CASE Step
  BY <1>3, SkipTyped, ConnectTyped, SplitTyped, MergeTyped, FailTyped, DiagnoseTyped, EndTyped DEF Step
<1>4. CASE Crash
  BY <1>4, EndTyped
<1>5. CASE \E w \in Others : Write(w)
  BY <1>5, WriteTyped
<1> QED
  BY <1>1, <1>2, <1>3, <1>4, <1>5 DEF Next, Terminated

\* Whatever the files, and whatever others write, the tables keep their columns and their
\* constraints, and a run knows which table of which database it is at.
THEOREM TypeCorrect == Spec => []TypeOK
<1>1. Init => TypeOK
  BY InitTyped
<1>2. TypeOK /\ [Next]_vars => TypeOK'
  BY StepTyped
<1> QED
  BY <1>1, <1>2, PTL DEF Spec

(***************************************************************************)
(* What is called successful is stored, and stays so.                      *)
(***************************************************************************)

\* The rows of the file that a run skips depend on the ids of one other table.
LEMMA RulesAre ==
    ASSUME NEW t \in TableSet, HasRule(t)
    PROVE  Rules[t].table \in TableSet /\ Rules[t].table # t
BY DEF Rules, HasRule, TableSet, Range, Tables

LEMMA SameMissing ==
    ASSUME NEW db, NEW t, NEW file, HasRule(t) => tables'[db][Rules[t].table] = tables[db][Rules[t].table]
    PROVE  Missing(db, t, file)' = Missing(db, t, file)
<1>1. CASE HasRule(t)
  <2>1. Ids(db, Rules[t].table)' = Ids(db, Rules[t].table)
    BY <1>1 DEF Ids, IdsOf
  <2> QED
    BY <2>1 DEF Missing
<1>2. CASE ~HasRule(t)
  BY <1>2 DEF Missing
<1> QED
  BY <1>1, <1>2

\* What stands, stands while neither the table nor the one it refers to changes.
LEMMA StandsStill ==
    ASSUME NEW db, NEW t, Stands(db, t), last'[db][t] = last[db][t] \/ last'[db][t] = NULL,
           tables'[db][t] = tables[db][t],
           HasRule(t) => tables'[db][Rules[t].table] = tables[db][Rules[t].table]
    PROVE  Stands(db, t)'
<1>1. CASE last'[db][t] = NULL
  BY <1>1 DEF Stands
<1>2. CASE last'[db][t] = last[db][t]
  <2> DEFINE rows == tables[db][t]
             done == last[db][t]
             out(file) == Missing(db, t, file)
  <2>1. \A file : Missing(db, t, file)' = out(file)
    BY SameMissing
  <2>2. tables'[db][t] = rows /\ last'[db][t] = done
    BY <1>2
  <2>3. \A file : PlanOf(db, t, file)' = PlanOf(db, t, file)
    BY DEF PlanOf
  <2> QED
    BY <1>2, <2>1, <2>2, <2>3, SMTT(30) DEF Stands
<1> QED
  BY <1>1, <1>2

LEMMA AllStand ==
    ASSUME LastStands, UNCHANGED <<tables, last>>
    PROVE  LastStands'
<1> SUFFICES ASSUME NEW db \in Databases, NEW t \in TableSet PROVE Stands(db, t)'
  BY DEF LastStands
<1>1. Stands(db, t)
  BY DEF LastStands
<1> QED
  BY <1>1, StandsStill

LEMMA MergeStands ==
    ASSUME TypeOK, LastStands, SkipsMissing, Merge
    PROVE  LastStands'
<1>1. PICK db : db = Head(run.dbs)
  OBVIOUS
<1>2. PICK t : t = First(run.plans)
  OBVIOUS
<1>3. PICK rows : rows = Kept(run.skipped)
  OBVIOUS
<1>4. PICK plan : plan = PlanOf(db, t, rows)
  OBVIOUS
<1>5. PICK to : to = Try(db, t, rows)
  OBVIOUS
<1>6. PICK file : file = File
  OBVIOUS
<1>7. PICK out : out = run.skipped
  OBVIOUS
<1>8. PICK from : from = tables[db][t]
  OBVIOUS
<1>9. /\ Working /\ db \in Databases /\ t \in TableSet /\ plan # NULL
      /\ to = Merged(Schemas[db][t], plan, from, rows)
      /\ TableOK(Schemas[db][t], from)
      /\ \A d \in Databases : \A s \in TableSet :
            tables'[d][s] = IF d = db /\ s = t THEN to ELSE tables[d][s]
  <2>1. /\ Working /\ db \in Databases /\ t \in TableSet /\ plan # NULL
        /\ to = Merged(Schemas[db][t], plan, tables[db][t], rows)
        /\ TableOK(Schemas[db][t], tables[db][t])
        /\ \A d \in Databases : \A s \in TableSet :
              tables'[d][s] = IF d = db /\ s = t THEN to ELSE tables[d][s]
    <3>1. db = Database /\ t = Table /\ rows = Rows
      BY <1>1, <1>2, <1>3 DEF Database, Table, Rows
    <3>2. plan = PlanOf(Database, Table, Rows) /\ to = Took
      BY <1>4, <1>5, <3>1 DEF Took
    <3> QED
      BY <3>1, <3>2, MergeIs
  <2> QED
    BY <1>8, <2>1
<1>10. /\ \A d \in Databases : d # db => last'[d] = last[d]
       /\ last'[db][t] = [file |-> file, skipped |-> out, calm |-> run.wrote = others]
       /\ \A s \in TableSet :
             s # t /\ last'[db][s] # NULL =>
                /\ last'[db][s] = last[db][s]
                /\ ~(HasRule(s) /\ to # from /\ Rules[s].table = t)
  BY <1>1, <1>2, <1>3, <1>5, <1>6, <1>7, <1>8, MergeForgets
<1>11. ASSUME NEW d \in Databases, NEW s \in TableSet, ~(d = db /\ s = t) PROVE Stands(d, s)'
  <2>1. Stands(d, s) /\ tables'[d][s] = tables[d][s]
    BY <1>9, <1>11 DEF LastStands
  <2>2. CASE d # db
    <3>1. HasRule(s) => tables'[d][Rules[s].table] = tables[d][Rules[s].table]
      BY <1>9, <2>2, RulesAre
    <3>2. last'[d][s] = last[d][s]
      BY <1>10, <2>2
    <3> QED
      BY <2>1, <3>1, <3>2, StandsStill
  <2>3. CASE d = db /\ last'[d][s] # NULL
    <3>1. HasRule(s) => tables'[d][Rules[s].table] = tables[d][Rules[s].table]
      BY <1>8, <1>9, <1>10, <1>11, <2>3, RulesAre
    <3>2. last'[d][s] = last[d][s]
      BY <1>10, <1>11, <2>3
    <3> QED
      BY <2>1, <3>1, <3>2, StandsStill
  <2>4. CASE last'[d][s] = NULL
    BY <2>4 DEF Stands
  <2> QED
    BY <2>2, <2>3, <2>4
<1>12. Stands(db, t)'
  <2>1. /\ DOMAIN rows = DOMAIN file \ out
        /\ DOMAIN rows \in SUBSET Nat /\ IsFiniteSet(DOMAIN rows)
        /\ \A n \in DOMAIN rows : rows[n] = file[n]
    BY <1>3, <1>6, <1>7, <1>9, KeptAre
  <2>2. /\ \E cmd \in Commands : t \in DOMAIN cmd.files /\ file = cmd.files[t]
        /\ DOMAIN file \in SUBSET Nat
        /\ \A n, m \in DOMAIN file : DOMAIN file[n] = DOMAIN file[m]
    BY <1>2, <1>6, <1>9, StandsAt DEF File
  <2>3. DOMAIN rows # {} => PlanOf(db, t, file) = plan
    <3> SUFFICES ASSUME DOMAIN rows # {} PROVE PlanOf(db, t, file) = plan
      OBVIOUS
    <3>1. DOMAIN rows \in SUBSET DOMAIN file
      BY <2>1
    <3>2. Plan(Schemas[db][t], rows, Override(t)) = Plan(Schemas[db][t], file, Override(t))
      BY <2>1, <2>2, <3>1, SamePlan
    <3> QED
      BY <1>4, <3>2 DEF PlanOf
  <2>4. plan.keys \subseteq plan.columns /\ plan.columns \subseteq DOMAIN Schemas[db][t]
    BY <1>4, <1>9, PlanColumns DEF PlanOf
  <2>5. ASSUME NEW n \in DOMAIN rows, Alone(plan, file, DOMAIN rows, n)
        PROVE  /\ \E i \in DOMAIN to : \A c \in plan.columns : to[i][c] = file[n][c]
               /\ \A i \in DOMAIN to : Matches(plan, to[i], file[n]) => ~Differs(plan, to[i], file[n])
    <3>1. Alone(plan, rows, DOMAIN rows, n)
      BY <2>1, <2>5 DEF Alone
    <3>2. /\ \E i \in DOMAIN to : \A c \in plan.columns : to[i][c] = rows[n][c]
          /\ \A i \in DOMAIN to : Matches(plan, to[i], rows[n]) => ~Differs(plan, to[i], rows[n])
      BY <1>9, <2>1, <2>4, <3>1, MergeStores
    <3> QED
      BY <2>1, <3>2
  <2>6. run.wrote = others => out = Missing(db, t, file)'
    <3>1. run.pc = "merge"
      BY DEF Merge
    <3>2. run.wrote = others => out = Missing(db, t, file)
      BY <1>1, <1>2, <1>6, <1>7, <3>1 DEF SkipsMissing
    <3>3. HasRule(t) => tables'[db][Rules[t].table] = tables[db][Rules[t].table]
      BY <1>9, RulesAre
    <3>4. Missing(db, t, file)' = Missing(db, t, file)
      BY <3>3, SameMissing
    <3> QED
      BY <3>2, <3>4
  <2>7. tables'[db][t] = to
    BY <1>9
  <2>8. /\ last'[db][t].file = file /\ last'[db][t].skipped = out
    BY <1>10
  <2>9. last'[db][t].calm => run.wrote = others
    <3> SUFFICES ASSUME run.wrote # others PROVE ~last'[db][t].calm
      OBVIOUS
    <3>1. (run.wrote = others) = FALSE
      OBVIOUS
    <3>2. last'[db][t] = [file |-> file, skipped |-> out, calm |-> FALSE]
      BY <1>10, <3>1
    <3>3. last'[db][t].calm = FALSE
      BY <3>2
    <3> QED
      BY <3>3
  <2>10. /\ DOMAIN rows # {} => PlanOf(db, t, file) # NULL
         /\ \A n \in DOMAIN rows :
               Alone(PlanOf(db, t, file), file, DOMAIN rows, n) =>
                  /\ \E i \in DOMAIN to : \A c \in PlanOf(db, t, file).columns : to[i][c] = file[n][c]
                  /\ \A i \in DOMAIN to : Matches(PlanOf(db, t, file), to[i], file[n])
                                            => ~Differs(PlanOf(db, t, file), to[i], file[n])
    BY <1>9, <2>3, <2>5
  <2>11. last'[db][t].calm => last'[db][t].skipped = Missing(db, t, file)'
    BY <2>6, <2>8, <2>9
  <2>12. ASSUME NEW n \in DOMAIN rows, Alone(PlanOf(db, t, file), file, DOMAIN rows, n)
         PROVE  /\ \E i \in DOMAIN tables'[db][t] :
                      \A c \in PlanOf(db, t, file).columns : tables'[db][t][i][c] = file[n][c]
                /\ \A i \in DOMAIN tables'[db][t] :
                      Matches(PlanOf(db, t, file), tables'[db][t][i], file[n])
                        => ~Differs(PlanOf(db, t, file), tables'[db][t][i], file[n])
    BY <2>7, <2>10, <2>12
  <2>13. DOMAIN file \ out = DOMAIN rows
    BY <2>1
  <2> QED
    BY <2>2, <2>8, <2>10, <2>11, <2>12, <2>13, SMTT(30) DEF Stands
<1> QED
  BY <1>11, <1>12 DEF LastStands

LEMMA WriteForgets ==
    ASSUME TypeOK, NEW w \in Others, Write(w)
    PROVE  /\ w.db \in Databases
           /\ \A t \in TableSet : last'[w.db][t] = NULL
           /\ \A d \in Databases : d # w.db => last'[d] = last[d] /\ tables'[d] = tables[d]
<1>1. w.db \in Databases /\ w.table \in TableSet
  BY OthersAssumption DEF Databases, TableSet
<1>2. /\ DOMAIN last = Databases /\ \A d \in Databases : DOMAIN last[d] = TableSet
      /\ tables = [d \in Databases |-> [t \in TableSet |-> tables[d][t]]]
  BY DEF TypeOK, TablesOK
<1>3. /\ last' = [last EXCEPT ![w.db] = [s \in DOMAIN last[w.db] |-> NULL]]
      /\ tables' = [tables EXCEPT ![w.db][w.table] = Written(w)]
  BY DEF Write
<1>4. \A t \in TableSet : last'[w.db][t] = NULL
  BY <1>1, <1>2, <1>3
<1>5. \A d \in Databases : d # w.db => last'[d] = last[d] /\ tables'[d] = tables[d]
  BY <1>1, <1>2, <1>3
<1> QED
  BY <1>1, <1>4, <1>5

LEMMA WriteStands ==
    ASSUME TypeOK, LastStands, NEW w \in Others, Write(w)
    PROVE  LastStands'
<1> SUFFICES ASSUME NEW d \in Databases, NEW t \in TableSet PROVE Stands(d, t)'
  BY DEF LastStands
<1>1. CASE d = w.db
  BY <1>1, WriteForgets DEF Stands
<1>2. CASE d # w.db
  <2>1. last'[d] = last[d] /\ tables'[d] = tables[d] /\ Stands(d, t)
    BY <1>2, WriteForgets DEF LastStands
  <2> QED
    BY <2>1, StandsStill
<1> QED
  BY <1>1, <1>2

LEMMA StepStands ==
    ASSUME TypeOK, LastStands, SkipsMissing, [Next]_vars
    PROVE  LastStands'
<1>1. CASE UNCHANGED <<tables, last>>
  BY <1>1, AllStand
<1>2. CASE Merge
  BY <1>2, MergeStands
<1>3. CASE \E w \in Others : Write(w)
  BY <1>3, WriteStands
<1>4. UNCHANGED <<tables, last>> \/ Merge \/ \E w \in Others : Write(w)
  BY DEF Next, Step, Terminated, vars, Start, Skip, Connect, Split, Fail, Diagnose, Save, Crash
<1> QED
  BY <1>1, <1>2, <1>3, <1>4

\* A run skips what is missing.
LEMMA StepSkips ==
    ASSUME TypeOK, TypeOK', SkipsMissing, [Next]_vars
    PROVE  SkipsMissing'
<1>1. CASE run'.pc \notin {"merge", "diagnose"}
  BY <1>1 DEF SkipsMissing
<1>2. CASE UNCHANGED <<tables, others, last>> /\ run.pc \in {"merge", "diagnose"}
           /\ run'.dbs = run.dbs /\ run'.plans = run.plans /\ run'.cmd = run.cmd
           /\ run'.skipped = run.skipped /\ run'.wrote = run.wrote
  <2>1. File' = File
    BY <1>2 DEF File
  <2>2. PICK db : db = Head(run.dbs)
    OBVIOUS
  <2>3. PICK t : t = First(run.plans)
    OBVIOUS
  <2>4. PICK file : file = File
    OBVIOUS
  <2>5. Missing(db, t, file)' = Missing(db, t, file)
    BY <1>2, SameMissing
  <2>6. Head(run'.dbs) = db /\ First(run'.plans) = t /\ File' = file
    BY <1>2, <2>1, <2>2, <2>3, <2>4
  <2> QED
    BY <1>2, <2>2, <2>3, <2>4, <2>5, <2>6 DEF SkipsMissing
<1>3. CASE Split /\ run'.pc \in {"merge", "diagnose"}
  <2>1. run.pc = "table" /\ Working /\ UNCHANGED <<tables, others, last>>
    BY <1>3 DEF Split, Working
  <2>2. PICK db : db = Head(run.dbs)
    OBVIOUS
  <2>3. PICK t : t = First(run.plans)
    OBVIOUS
  <2>4. PICK file : file = File
    OBVIOUS
  <2>5. run' # NextPlan
    BY <1>3, <2>1, NextPlanIs
  <2>6. run' = [run EXCEPT !.pc = "merge", !.skipped = Missing(db, t, file), !.wrote = others]
    BY <1>3, <2>2, <2>3, <2>4, <2>5 DEF Split, Failed
  <2>7. run'.dbs = run.dbs /\ run'.plans = run.plans /\ run'.cmd = run.cmd /\ run'.skipped = Missing(db, t, file)
    BY <2>6 DEF TypeOK, RunOK
  <2>8. Missing(db, t, file)' = Missing(db, t, file)
    BY <2>1, SameMissing
  <2>9. Head(run'.dbs) = db /\ First(run'.plans) = t /\ File' = file
    BY <2>2, <2>3, <2>4, <2>7 DEF File
  <2> QED
    BY <2>7, <2>8, <2>9 DEF SkipsMissing
<1>4. CASE (\E w \in Others : Write(w)) /\ run.pc \in {"merge", "diagnose"}
  <2>1. PICK w \in Others : Write(w)
    BY <1>4
  <2>2. others' = others + 1 /\ UNCHANGED run
    BY <2>1 DEF Write
  <2>3. run.wrote \in Nat /\ others \in Nat /\ run.wrote <= others
    BY DEF TypeOK, RunOK, CountsOK
  <2>4. run'.wrote # others'
    BY <2>2, <2>3
  <2>5. Working
    BY <1>4 DEF Working
  <2>6. PICK db : db = Head(run.dbs)
    OBVIOUS
  <2>7. PICK t : t = First(run.plans)
    OBVIOUS
  <2>8. PICK file : file = File
    OBVIOUS
  <2>9. db \in Databases
    BY <2>5, <2>6, StandsAt
  <2>10. CASE db = w.db
    <3>1. \A s \in TableSet : last'[db][s] = NULL
      BY <2>10, <2>1, WriteForgets
    <3> QED
      BY <2>2, <2>4, <2>6, <3>1 DEF SkipsMissing
  <2>11. CASE db # w.db
    <3>1. last'[db] = last[db] /\ tables'[db] = tables[db]
      BY <2>1, <2>9, <2>11, WriteForgets
    <3>2. Missing(db, t, file)' = Missing(db, t, file)
      BY <3>1, SameMissing
    <3>3. Head(run'.dbs) = db /\ First(run'.plans) = t /\ File' = file
      BY <2>2, <2>6, <2>7, <2>8 DEF File
    <3> QED
      BY <1>4, <2>2, <2>4, <2>6, <2>7, <2>8, <3>1, <3>2, <3>3 DEF SkipsMissing
  <2> QED
    BY <2>10, <2>11
<1>5. CASE UNCHANGED vars \/ Fail
  BY <1>1, <1>2, <1>5 DEF vars, Fail, TypeOK, RunOK
<1>6. CASE (\E cmd \in Commands : Start(cmd)) \/ Skip \/ Save \/ Crash
  <2>1. CASE \E cmd \in Commands : Start(cmd)
    <3>1. run'.pc = "target"
      BY <2>1 DEF Start, NoRun
    <3> QED
      BY <1>1, <3>1
  <2>2. CASE Skip
    <3>1. run'.pc = "target"
      BY <2>2 DEF Skip, NextTarget, TypeOK, RunOK
    <3> QED
      BY <1>1, <3>1
  <2>3. CASE Save \/ Crash
    <3>1. run'.pc = "none"
      BY <2>3 DEF Save, Crash, NoRun
    <3> QED
      BY <1>1, <3>1
  <2> QED
    BY <1>6, <2>1, <2>2, <2>3
<1>7. CASE Connect
  <2>1. run'.pc \in {"target", "table"}
    BY <1>7 DEF Connect, NextTarget, TypeOK, RunOK
  <2> QED
    BY <1>1, <2>1
<1>8. CASE Merge \/ Diagnose
  <2>1. Working /\ run' = NextPlan
    BY <1>8 DEF Merge, Diagnose, Failed, Working
  <2>2. run'.pc \in {"target", "table"}
    BY <2>1, NextPlanIs
  <2> QED
    BY <1>1, <2>2
<1>9. CASE \E w \in Others : Write(w)
  <2>1. UNCHANGED run
    BY <1>9 DEF Write
  <2> QED
    BY <1>1, <1>4, <1>9, <2>1
<1>10. CASE Split
  BY <1>1, <1>3, <1>10
<1> QED
  BY <1>5, <1>6, <1>7, <1>8, <1>9, <1>10 DEF Next, Step, Terminated

\* What is skipped is not there.
LEMMA StandsStored == TypeOK /\ LastStands => RowsStored
<1> SUFFICES ASSUME TypeOK, LastStands, NEW db \in DOMAIN last, NEW t \in DOMAIN last[db], last[db][t] # NULL
             PROVE  LET file == last[db][t].file
                        plan == PlanOf(db, t, file)
                        kept == DOMAIN file \ last[db][t].skipped
                    IN  /\ \A n \in kept :
                              Alone(plan, file, kept, n) =>
                                 \E i \in DOMAIN tables[db][t] :
                                    \A c \in plan.columns : tables[db][t][i][c] = file[n][c]
                        /\ last[db][t].calm =>
                              \A n \in last[db][t].skipped :
                                 file[n][Rules[t].column] \notin Ids(db, Rules[t].table)
  BY DEF RowsStored
<1> DEFINE file == last[db][t].file
           plan == PlanOf(db, t, file)
           kept == DOMAIN file \ last[db][t].skipped
<1>1. db \in Databases /\ t \in TableSet
  BY DEF TypeOK, TablesOK
<1>2. Stands(db, t)
  BY <1>1 DEF LastStands
<1>3. \A n \in Missing(db, t, file) : file[n][Rules[t].column] \notin Ids(db, Rules[t].table)
  BY DEF Missing
<1>4. /\ \A n \in kept :
            Alone(plan, file, kept, n) =>
               \E i \in DOMAIN tables[db][t] :
                  \A c \in plan.columns : tables[db][t][i][c] = file[n][c]
      /\ last[db][t].calm => last[db][t].skipped = Missing(db, t, file)
  BY <1>2 DEF Stands
<1> QED
  BY <1>3, <1>4

LEMMA InitStands ==
    ASSUME Init
    PROVE  LastStands /\ SkipsMissing
<1>1. run.pc = "none"
  BY DEF Init, NoRun
<1>2. \A db \in Databases : \A t \in TableSet : last[db][t] = NULL
  <2>1. \A db \in Databases : DOMAIN Initial[db] = TableSet
    BY InitialAssumption DEF Databases, TableSet
  <2> QED
    BY <2>1 DEF Init, Databases
<1> QED
  BY <1>1, <1>2 DEF LastStands, Stands, SkipsMissing

\* The inductive invariant about the rows: what is remembered of the last run of a table
\* stands, and what a run is about to write skips what is missing.
StandInv == TypeOK /\ LastStands /\ SkipsMissing

LEMMA StandInvariant == Spec => []StandInv
<1>1. Init => StandInv
  BY InitTyped, InitStands DEF StandInv
<1>2. StandInv /\ [Next]_vars => StandInv'
  BY StepTyped, StepStands, StepSkips DEF StandInv
<1> QED
  BY <1>1, <1>2, PTL DEF Spec

\* What the last run of a table calls successful is in the table as long as nobody else
\* writes to the database, and what it skipped has no reference there.
THEOREM SuccessIsStored == Spec => []RowsStored
<1>1. StandInv => RowsStored
  BY StandsStored DEF StandInv
<1> QED
  BY <1>1, StandInvariant, PTL

(***************************************************************************)
(* To run the command again does no harm.                                  *)
(***************************************************************************)

\* The rows that a run is about to write, if they identify what they write and the last
\* run has written them: each matches a row of the table and differs from none.
LEMMA RerunMatches ==
    ASSUME StandInv, Merge, last[Database][Table] # NULL, last[Database][Table].file = File,
           last[Database][Table].calm, Identified(PlanOf(Database, Table, File), Rows)
    PROVE  \A n \in DOMAIN Rows :
              LET plan == PlanOf(Database, Table, Rows)
                  table == tables[Database][Table]
              IN  /\ \E i \in DOMAIN table : Matches(plan, table[i], Rows[n])
                  /\ \A i \in DOMAIN table : Matches(plan, table[i], Rows[n]) => ~Differs(plan, table[i], Rows[n])
<1> DEFINE db == Database
           t == Table
           rows == Rows
           file == File
           plan == PlanOf(db, t, file)
           table == tables[db][t]
<1>1. Working /\ db \in Databases /\ t \in TableSet /\ PlanOf(db, t, rows) # NULL
  BY MergeIs DEF StandInv
<1>2. /\ DOMAIN rows = DOMAIN file \ run.skipped
      /\ \A n \in DOMAIN rows : rows[n] = file[n]
  BY <1>1, KeptAre DEF StandInv, Rows
<1>3. Stands(db, t)
  BY <1>1 DEF StandInv, LastStands
<1>4. run.skipped = last[db][t].skipped
  <2>1. last[db][t].skipped = Missing(db, t, file)
    BY <1>3 DEF Stands
  <2>2. run.pc = "merge"
    BY DEF Merge
  <2>3. run.skipped = Missing(db, t, file)
    BY <1>1, <2>2 DEF StandInv, SkipsMissing, Database, Table
  <2> QED
    BY <2>1, <2>3
<1>5. ASSUME NEW n \in DOMAIN rows PROVE PlanOf(db, t, rows) = plan
  <2>1. /\ DOMAIN file \in SUBSET Nat
        /\ \A m, k \in DOMAIN file : DOMAIN file[m] = DOMAIN file[k]
    BY <1>1, StandsAt DEF StandInv
  <2>2. DOMAIN rows \in SUBSET DOMAIN file /\ DOMAIN rows # {}
    BY <1>2
  <2> HIDE DEF rows, file
  <2>3. Plan(Schemas[db][t], rows, Override(t)) = Plan(Schemas[db][t], file, Override(t))
    BY <1>2, <2>1, <2>2, SamePlan
  <2> QED
    BY <2>3 DEF PlanOf
<1>6. ASSUME NEW n \in DOMAIN rows
      PROVE  /\ \E i \in DOMAIN table : Matches(plan, table[i], rows[n])
             /\ \A i \in DOMAIN table : Matches(plan, table[i], rows[n]) => ~Differs(plan, table[i], rows[n])
  <2>1. Alone(plan, rows, DOMAIN rows, n) /\ \A k \in plan.keys : rows[n][k] # NULL
    BY DEF Identified
  <2>2. Alone(plan, file, DOMAIN rows, n)
    BY <1>2, <2>1 DEF Alone
  <2>3. DOMAIN rows = DOMAIN file \ last[db][t].skipped /\ last[db][t] # NULL /\ last[db][t].file = file
    BY <1>2, <1>4
  <2>4. /\ \E i \in DOMAIN table : \A c \in plan.columns : table[i][c] = file[n][c]
        /\ \A i \in DOMAIN table : Matches(plan, table[i], file[n]) => ~Differs(plan, table[i], file[n])
    BY <1>3, <2>2, <2>3 DEF Stands
  <2>5. plan.keys \subseteq plan.columns
    BY <1>1, <1>5, PlanColumns DEF PlanOf
  <2>6. PICK i \in DOMAIN table : \A c \in plan.columns : table[i][c] = file[n][c]
    BY <2>4
  <2>7. Matches(plan, table[i], rows[n])
    BY <1>2, <2>1, <2>5, <2>6 DEF Matches
  <2> QED
    BY <1>2, <2>4, <2>7
<1> HIDE DEF plan
<1>7. \A n \in DOMAIN rows : PlanOf(db, t, rows) = plan
  BY <1>5
<1> QED
  BY <1>6, <1>7

LEMMA RerunHarmless ==
    ASSUME StandInv, Merge, last[Database][Table] # NULL, last[Database][Table].file = File,
           last[Database][Table].calm, Identified(PlanOf(Database, Table, File), Rows)
    PROVE  UNCHANGED tables /\ Last(report'.results).inserted = 0 /\ Last(report'.results).updated = 0
<1> DEFINE db == Database
           t == Table
           rows == Rows
           plan == PlanOf(db, t, rows)
           table == tables[db][t]
           changed == {i \in DOMAIN table : Changing(plan, table[i], rows) # {}}
<1>1. /\ Working /\ db \in Databases /\ t \in TableSet
      /\ Took = Merged(Schemas[db][t], plan, table, rows) /\ TableOK(Schemas[db][t], table)
      /\ tables' = [tables EXCEPT ![db][t] = Took]
  BY MergeIs DEF StandInv
<1>2. DOMAIN rows \in SUBSET Nat /\ IsFiniteSet(DOMAIN rows)
  BY <1>1, KeptAre DEF StandInv, Rows
<1>3. \A n \in DOMAIN rows :
         /\ \E i \in DOMAIN table : Matches(plan, table[i], rows[n])
         /\ \A i \in DOMAIN table : Matches(plan, table[i], rows[n]) => ~Differs(plan, table[i], rows[n])
  BY RerunMatches
<1>4. Took = table /\ \A i \in DOMAIN table : Changing(plan, table[i], rows) = {}
  <2> HIDE DEF table, plan, rows
  <2> QED
    BY <1>1, <1>2, <1>3, MergeRepeats
<1>5. UNCHANGED tables
  <2>1. tables = [d \in Databases |-> [s \in TableSet |-> tables[d][s]]]
    BY DEF StandInv, TypeOK, TablesOK
  <2> QED
    BY <1>1, <1>4, <2>1
<1>6. DOMAIN Took \ DOMAIN table = {} /\ changed = {}
  BY <1>4
<1>7. Cardinality(DOMAIN Took \ DOMAIN table) = 0 /\ Cardinality(changed) = 0
  BY <1>6, FS_EmptySet
<1>8. PICK e \in Results : /\ report' = [report EXCEPT !.results = Append(@, e)]
                           /\ e.inserted = Cardinality(DOMAIN Took \ DOMAIN table)
                           /\ e.updated = Cardinality(changed)
  <2>1. PICK e \in Results :
           /\ report' = [report EXCEPT !.results = Append(@, e)]
           /\ e.cell = Cell
           /\ e.inserted = Cardinality(DOMAIN Took \ DOMAIN table) /\ e.updated = Cardinality(changed)
           /\ e.skipped = Cardinality(run.skipped) /\ e.rows = Cardinality(DOMAIN rows)
    BY MergeReported DEF StandInv
  <2> QED
    BY <2>1
<1>9. report \in [results : Seq(Results), errors : Seq(Errors), skipped : Seq(Skips), attempted : Nat]
  BY ReportIs DEF StandInv, TypeOK
<1>10. report'.results = Append(report.results, e) /\ report.results \in Seq(Results)
  BY <1>8, <1>9
<1>11. Last(report'.results) = e
  <2>1. Len(Append(report.results, e)) = Len(report.results) + 1
    BY <1>10
  <2>2. Append(report.results, e)[Len(report.results) + 1] = e
    BY <1>10
  <2> QED
    BY <1>10, <2>1, <2>2 DEF Last
<1> QED
  BY <1>5, <1>7, <1>8, <1>11

\* A table that already had this file, and to which nobody else has written, does not
\* change and is reported with nothing inserted and nothing updated.
THEOREM RerunIsHarmless == Spec => RerunChangesNothing
<1>1. ASSUME StandInv, [Next]_vars
      PROVE  [\A db \in DOMAIN last : \A t \in DOMAIN last[db] :
                /\ Merge /\ db = Head(run.dbs) /\ t = First(run.plans)
                /\ last[db][t] # NULL /\ last[db][t].file = File /\ last[db][t].calm
                /\ Identified(PlanOf(db, t, File), Kept(run.skipped))
                => /\ UNCHANGED tables
                   /\ LET x == Last(report'.results) IN x.inserted = 0 /\ x.updated = 0]_vars
  BY <1>1, RerunHarmless DEF Database, Table, Rows
<1> QED
  BY <1>1, StandInvariant, PTL DEF Spec, RerunChangesNothing

(***************************************************************************)
(* A report leaves nothing out.                                            *)
(***************************************************************************)

\* The entries of a cell are counted.
LEMMA CountType ==
    ASSUME NEW S, NEW s \in Seq(S), NEW c
    PROVE  /\ Count(s, c) \in Nat /\ IsFiniteSet({i \in DOMAIN s : s[i].cell = c})
           /\ Count(s, c) = 0 => \A i \in DOMAIN s : s[i].cell # c
<1> DEFINE T == {i \in DOMAIN s : s[i].cell = c}
<1>1. DOMAIN s = 1..Len(s) /\ Len(s) \in Nat
  OBVIOUS
<1>2. IsFiniteSet(T)
  <2>1. IsFiniteSet(DOMAIN s)
    BY <1>1, FS_Interval
  <2> QED
    BY <2>1, FS_Subset
<1>3. Cardinality(T) \in Nat /\ (Cardinality(T) = 0 => T = {})
  <2> HIDE DEF T
  <2> QED
    BY <1>2, FS_CardinalityType, FS_EmptySet
<1> QED
  BY <1>2, <1>3 DEF Count

LEMMA CountAppend ==
    ASSUME NEW S, NEW s \in Seq(S), NEW e \in S, NEW c
    PROVE  Count(Append(s, e), c) = Count(s, c) + IF e.cell = c THEN 1 ELSE 0
<1> DEFINE T == {i \in DOMAIN s : s[i].cell = c}
           U == {i \in DOMAIN Append(s, e) : Append(s, e)[i].cell = c}
           n == Len(s) + 1
<1>1. /\ DOMAIN s = 1..Len(s) /\ Len(s) \in Nat /\ DOMAIN Append(s, e) = 1..n
      /\ \A i \in 1..Len(s) : Append(s, e)[i] = s[i]
      /\ Append(s, e)[n] = e
  OBVIOUS
<1>2. IsFiniteSet(T) /\ Cardinality(T) \in Nat
  BY CountType DEF Count
<1>3. n \notin T
  BY <1>1
<1>4. \A i \in 1..n : i = n \/ i \in 1..Len(s)
  BY <1>1
<1>5. CASE e.cell = c
  <2>1. U = T \cup {n}
    BY <1>1, <1>4, <1>5
  <2> HIDE DEF T, U, n
  <2>2. Cardinality(U) = Cardinality(T) + 1
    BY <1>2, <1>3, <2>1, FS_AddElement
  <2> QED
    BY <1>5, <2>2 DEF Count, T, U
<1>6. CASE e.cell # c
  <2>1. U = T
    BY <1>1, <1>4, <1>6
  <2>2. Count(Append(s, e), c) = Count(s, c) /\ Count(s, c) \in Nat
    BY <2>1, CountType DEF Count
  <2> QED
    BY <1>6, <2>2
<1> QED
  BY <1>5, <1>6

\* All of a sequence is of one cell.
AllOf(seq, cell) == \A k \in 1..Len(seq) : seq[k].cell = cell

LEMMA CountConcat ==
    ASSUME NEW s \in Seq(Skips), NEW t \in Seq(Skips), NEW d, AllOf(t, d), NEW c
    PROVE  /\ c = d => Count(s \o t, c) = Count(s, c) + Len(t)
           /\ c # d => Count(s \o t, c) = Count(s, c)
<1> DEFINE T == {i \in DOMAIN s : s[i].cell = c}
           U == {i \in DOMAIN (s \o t) : (s \o t)[i].cell = c}
           new == (Len(s) + 1)..(Len(s) + Len(t))
<1>1. /\ DOMAIN s = 1..Len(s) /\ Len(s) \in Nat /\ DOMAIN t = 1..Len(t) /\ Len(t) \in Nat
      /\ DOMAIN (s \o t) = 1..(Len(s) + Len(t))
      /\ \A i \in 1..Len(s) : (s \o t)[i] = s[i]
      /\ \A i \in new : (s \o t)[i] = t[i - Len(s)] /\ i - Len(s) \in DOMAIN t
      /\ \A k \in DOMAIN t : t[k].cell = d
  BY DEF AllOf
<1>2. IsFiniteSet(T) /\ Cardinality(T) \in Nat
  BY CountType DEF Count
<1>3. \A i \in new : (s \o t)[i].cell = d
  BY <1>1
<1>4. \A i : i \in 1..(Len(s) + Len(t)) <=> i \in 1..Len(s) \/ i \in new
  BY <1>1
<1>5. T \cap new = {}
  BY <1>1
<1>6. CASE c = d
  <2>1. U = T \cup new
    BY <1>1, <1>3, <1>4, <1>6
  <2>2. IsFiniteSet(new) /\ Cardinality(new) = Len(t)
    <3>1. Len(s) + 1 <= Len(s) + Len(t) \/ Len(t) = 0
      BY <1>1
    <3>2. Len(s) + 1 \in Int /\ Len(s) + Len(t) \in Int /\ (Len(s) + Len(t)) - (Len(s) + 1) + 1 = Len(t)
      BY <1>1
    <3>3. Len(s) + 1 > Len(s) + Len(t) => Len(t) = 0
      BY <1>1
    <3> QED
      BY <3>2, <3>3, FS_Interval
  <2> HIDE DEF T, U, new
  <2>3. Cardinality(U) = Cardinality(T) + Cardinality(new) - Cardinality(T \cap new)
    BY <1>2, <2>1, <2>2, FS_Union
  <2>4. Cardinality(T \cap new) = 0
    BY <1>5, FS_EmptySet
  <2>5. Cardinality(U) = Cardinality(T) + Len(t)
    BY <1>1, <1>2, <2>2, <2>3, <2>4
  <2> QED
    BY <1>6, <2>5 DEF Count, T, U
<1>7. CASE c # d
  <2>1. U = T
    BY <1>1, <1>3, <1>4, <1>7
  <2>2. Count(s \o t, c) = Count(s, c) /\ Count(s, c) \in Nat
    BY <2>1, CountType DEF Count
  <2> QED
    BY <1>7, <2>2
<1> QED
  BY <1>6, <1>7

LEMMA ReportCounts ==
    ASSUME NEW r, ReportOK(r), NEW c
    PROVE  /\ Outcomes(r, c) \in Nat /\ Count(r.skipped, c) \in Nat
           /\ Count(r.results, c) \in Nat /\ Count(r.errors, c) \in Nat
           /\ Outcomes(r, c) = 0 => \A i \in DOMAIN r.results : r.results[i].cell # c
<1>1. r.results \in Seq(Results) /\ r.errors \in Seq(Errors) /\ r.skipped \in Seq(Skips)
  BY ReportIs
<1>2. Count(r.skipped, c) \in Nat /\ Count(r.results, c) \in Nat /\ Count(r.errors, c) \in Nat
  BY <1>1, CountType
<1>3. Count(r.results, c) = 0 => \A i \in DOMAIN r.results : r.results[i].cell # c
  BY <1>1, CountType
<1> QED
  BY <1>2, <1>3 DEF Outcomes

\* An error is one outcome of its cell.
LEMMA ErrorCounts ==
    ASSUME NEW r, ReportOK(r), NEW e \in Errors, NEW to, to = [r EXCEPT !.errors = Append(@, e)]
    PROVE  /\ \A c : Outcomes(to, c) = Outcomes(r, c) + IF c = e.cell THEN 1 ELSE 0
           /\ to.skipped = r.skipped
           /\ \A cmd : AccountsForRows(r, cmd) => AccountsForRows(to, cmd)
<1>1. r \in [results : Seq(Results), errors : Seq(Errors), skipped : Seq(Skips), attempted : Nat]
  BY ReportIs
<1>2. to.results = r.results /\ to.skipped = r.skipped /\ to.errors = Append(r.errors, e) /\ r.errors \in Seq(Errors)
  BY <1>1
<1>3. ASSUME NEW c PROVE Outcomes(to, c) = Outcomes(r, c) + IF c = e.cell THEN 1 ELSE 0
  <2>1. Count(to.errors, c) = Count(r.errors, c) + IF e.cell = c THEN 1 ELSE 0
    BY <1>2, CountAppend
  <2>2. Count(r.results, c) \in Nat /\ Count(r.errors, c) \in Nat
    BY ReportCounts
  <2> QED
    BY <1>2, <2>1, <2>2 DEF Outcomes
<1> QED
  BY <1>2, <1>3 DEF AccountsForRows, Accounted

\* So is a result, of a table whose rows are accounted for.
LEMMA ResultCounts ==
    ASSUME NEW r, ReportOK(r), NEW e \in Results, NEW to, to = [r EXCEPT !.results = Append(@, e)],
           NEW cmd, AccountsForRows(r, cmd), Accounted(r, cmd, e)
    PROVE  /\ \A c : Outcomes(to, c) = Outcomes(r, c) + IF c = e.cell THEN 1 ELSE 0
           /\ to.skipped = r.skipped
           /\ AccountsForRows(to, cmd)
<1>1. r \in [results : Seq(Results), errors : Seq(Errors), skipped : Seq(Skips), attempted : Nat]
  BY ReportIs
<1>2. /\ to.errors = r.errors /\ to.skipped = r.skipped /\ to.results = Append(r.results, e)
      /\ r.results \in Seq(Results)
  BY <1>1
<1>3. ASSUME NEW c PROVE Outcomes(to, c) = Outcomes(r, c) + IF c = e.cell THEN 1 ELSE 0
  <2>1. Count(to.results, c) = Count(r.results, c) + IF e.cell = c THEN 1 ELSE 0
    BY <1>2, CountAppend
  <2>2. Count(r.results, c) \in Nat /\ Count(r.errors, c) \in Nat
    BY ReportCounts
  <2> QED
    BY <1>2, <2>1, <2>2 DEF Outcomes
<1>4. ASSUME NEW i \in DOMAIN to.results PROVE Accounted(to, cmd, to.results[i])
  <2>1. to.results[i] = e \/ \E k \in DOMAIN r.results : to.results[i] = r.results[k]
    BY <1>2
  <2>2. Accounted(r, cmd, to.results[i])
    BY <2>1 DEF AccountsForRows
  <2> QED
    BY <1>2, <2>2 DEF Accounted
<1> QED
  BY <1>2, <1>3, <1>4 DEF AccountsForRows

\* Rows that are skipped are no outcome, and change no account of another table.
LEMMA SkipsCount ==
    ASSUME NEW r, ReportOK(r), NEW new \in Seq(Skips), NEW d, AllOf(new, d),
           NEW to, to.results = r.results, to.errors = r.errors, to.skipped = r.skipped \o new,
           Outcomes(r, d) = 0
    PROVE  /\ \A c : Outcomes(to, c) = Outcomes(r, c)
           /\ Count(to.skipped, d) = Count(r.skipped, d) + Len(new)
           /\ \A c : c # d => Count(to.skipped, c) = Count(r.skipped, c)
           /\ \A cmd : AccountsForRows(r, cmd) => AccountsForRows(to, cmd)
<1>1. r.skipped \in Seq(Skips)
  BY ReportIs
<1>2. /\ Count(to.skipped, d) = Count(r.skipped, d) + Len(new)
      /\ \A c : c # d => Count(to.skipped, c) = Count(r.skipped, c)
  <2> DEFINE s == r.skipped
  <2>1. s \in Seq(Skips)
    BY <1>1
  <2>2. to.skipped = s \o new /\ s = r.skipped
    OBVIOUS
  <2> HIDE DEF s
  <2>3. ASSUME NEW c
        PROVE  /\ c = d => Count(s \o new, c) = Count(s, c) + Len(new)
               /\ c # d => Count(s \o new, c) = Count(s, c)
    BY <2>1, CountConcat
  <2>4. Count(s \o new, d) = Count(s, d) + Len(new)
    BY <2>3
  <2>5. Count(to.skipped, d) = Count(s, d) + Len(new)
    BY <2>2, <2>4, Zenon
  <2>6. ASSUME NEW c, c # d PROVE Count(to.skipped, c) = Count(s, c)
    <3>1. Count(s \o new, c) = Count(s, c)
      BY <2>3, <2>6
    <3> QED
      BY <2>2, <3>1, Zenon
  <2> QED
    BY <2>2, <2>5, <2>6, Zenon
<1>3. \A i \in DOMAIN r.results : r.results[i].cell # d
  BY ReportCounts
<1>4. \A c : Count(r.skipped, c) \in Nat
  BY ReportCounts
<1>5. \A i \in DOMAIN r.results : Count(to.skipped, r.results[i].cell) = Count(r.skipped, r.results[i].cell)
  BY <1>2, <1>3, <1>4
<1> QED
  BY <1>2, <1>5 DEF Outcomes, AccountsForRows, Accounted

\* Cells of two targets differ, and no cell is a whole target.
LEMMA CellsOf ==
    ASSUME NEW p \in Positions, NEW cmd, NEW x \in Cells(p, cmd)
    PROVE  /\ Targets[p] # NULL /\ x[1] = p /\ x[2] \in Databases /\ x[3] \in Plans(cmd)
           /\ x = <<p, x[2], x[3]>> /\ x[2] \in Range(DatabasesOf[Targets[p]])
           /\ \A q : x # Whole(q)
<1>1. Targets[p] # NULL
  BY DEF Cells
<1>2. PICK db \in Range(DatabasesOf[Targets[p]]), t \in Plans(cmd) : x = <<p, db, t>>
  BY <1>1 DEF Cells
<1>3. Targets[p] \in DOMAIN DatabasesOf
  BY <1>1, TargetsAre, TargetsAssumption
<1>4. db \in Databases
  <2>1. DatabasesOf[Targets[p]] \in Seq(Databases)
    BY <1>3, TargetsAssumption DEF Databases
  <2> QED
    BY <2>1 DEF Range
<1>5. NULL \notin Databases
  BY TargetsAssumption DEF Databases
<1>6. \A q : x # Whole(q)
  BY <1>2, <1>4, <1>5 DEF Whole
<1> QED
  BY <1>1, <1>2, <1>4, <1>6

\* A report that says all there is to say of one target.
LEMMA TargetReported ==
    ASSUME NEW cmd, NEW at \in Positions, NEW rep, NEW to, NEW left, NEW cell, NEW out,
           SoFar(rep, cmd, at, left, cell, out),
           Complete(to, cmd, at), AccountsForRows(to, cmd),
           \A p \in Positions : p # at =>
              /\ Outcomes(to, Whole(p)) = Outcomes(rep, Whole(p))
              /\ \A x \in Cells(p, cmd) : Outcomes(to, x) = Outcomes(rep, x) /\ Count(to.skipped, x) = Count(rep.skipped, x)
    PROVE  \A cell2 : SoFar(to, cmd, at + 1, Cells(at + 1, cmd), cell2, 0)
<1> SUFFICES ASSUME NEW cell2 PROVE SoFar(to, cmd, at + 1, Cells(at + 1, cmd), cell2, 0)
  OBVIOUS
<1>0. at \in Nat /\ \A p \in Positions : p \in Nat
  BY DEF Positions
<1>1. ASSUME NEW p \in Positions, p < at + 1 PROVE Complete(to, cmd, p)
  <2>1. CASE p = at
    BY <2>1
  <2>2. CASE p < at
    <3>1. Complete(rep, cmd, p) /\ p # at
      BY <1>0, <2>2 DEF SoFar
    <3> QED
      BY <3>1 DEF Complete
  <2> QED
    BY <1>0, <1>1, <2>1, <2>2
<1>2. ASSUME NEW p \in Positions, p >= at + 1
      PROVE  /\ Outcomes(to, Whole(p)) = IF Targets[p] = NULL THEN 1 ELSE 0
             /\ \A x \in Cells(p, cmd) : Outcomes(to, x) = 0 /\ Count(to.skipped, x) = 0
  <2>1. p > at /\ p >= at /\ p # at
    BY <1>0, <1>2
  <2> QED
    BY <2>1 DEF SoFar
<1>3. \A p \in Positions : p > at + 1 => p >= at + 1
  BY <1>0
<1> QED
  BY <1>0, <1>1, <1>2, <1>3 DEF SoFar

\* A report that says one thing more, of a cell that is left.
LEMMA CellReported ==
    ASSUME NEW cmd, NEW at \in Positions, Targets[at] # NULL, NEW rep, ReportOK(rep), NEW to,
           NEW left \in SUBSET Cells(at, cmd), NEW cell \in left, NEW out,
           SoFar(rep, cmd, at, left, cell, out), AccountsForRows(to, cmd),
           \A c : Outcomes(to, c) = Outcomes(rep, c) + IF c = cell THEN 1 ELSE 0,
           to.skipped = rep.skipped
    PROVE  /\ \A cell2 : SoFar(to, cmd, at, left \ {cell}, cell2, 0)
           /\ left = {cell} => \A cell2 : SoFar(to, cmd, at + 1, Cells(at + 1, cmd), cell2, 0)
<1>0. at \in Nat /\ \A p \in Positions : p \in Nat
  BY DEF Positions
<1>1. \A c : Outcomes(rep, c) \in Nat
  BY ReportCounts
<1>2. \A c : c # cell => Outcomes(to, c) = Outcomes(rep, c)
  BY <1>1
<1>3. Outcomes(rep, cell) = 0
  BY DEF SoFar
<1>4. Outcomes(to, cell) = 1
  BY <1>3
<1>5. \A p \in Positions : Outcomes(to, Whole(p)) = Outcomes(rep, Whole(p))
  BY <1>2, CellsOf
<1>6. \A p \in Positions : p # at => \A x \in Cells(p, cmd) : Outcomes(to, x) = Outcomes(rep, x)
  <2>1. cell[1] = at
    BY CellsOf
  <2>2. \A p \in Positions : \A x \in Cells(p, cmd) : x[1] = p
    BY CellsOf
  <2> QED
    BY <1>2, <2>1, <2>2
<1>7. ASSUME NEW x \in Cells(at, cmd)
      PROVE  /\ x \in left \ {cell} => Outcomes(to, x) = 0 /\ Count(to.skipped, x) = 0
             /\ x \notin left \ {cell} => Outcomes(to, x) = 1
  <2>1. CASE x = cell
    BY <1>4, <2>1
  <2>2. CASE x # cell
    BY <1>2, <2>2 DEF SoFar
  <2> QED
    BY <2>1, <2>2
<1>8. \A cell2 : SoFar(to, cmd, at, left \ {cell}, cell2, 0)
  <2> SUFFICES ASSUME NEW cell2 PROVE SoFar(to, cmd, at, left \ {cell}, cell2, 0)
    OBVIOUS
  <2>1. ASSUME NEW p \in Positions, p < at PROVE Complete(to, cmd, p)
    <3>1. Complete(rep, cmd, p) /\ p # at
      BY <1>0, <2>1 DEF SoFar
    <3> QED
      BY <1>5, <1>6, <3>1 DEF Complete
  <2>2. \A p \in Positions : p >= at => Outcomes(to, Whole(p)) = IF Targets[p] = NULL THEN 1 ELSE 0
    BY <1>5 DEF SoFar
  <2>3. \A p \in Positions : p > at => \A x \in Cells(p, cmd) : Outcomes(to, x) = 0 /\ Count(to.skipped, x) = 0
    <3>1. \A p \in Positions : p > at => p # at
      BY <1>0
    <3> QED
      BY <1>6, <3>1 DEF SoFar
  <2> QED
    BY <1>7, <2>1, <2>2, <2>3 DEF SoFar
<1>9. ASSUME left = {cell} PROVE \A cell2 : SoFar(to, cmd, at + 1, Cells(at + 1, cmd), cell2, 0)
  <2>1. Complete(to, cmd, at)
    <3>1. Outcomes(rep, Whole(at)) = 0
      BY <1>0 DEF SoFar
    <3>2. \A x \in Cells(at, cmd) : Outcomes(to, x) = 1
      BY <1>7, <1>9
    <3> QED
      BY <1>5, <3>1, <3>2 DEF Complete
  <2>2. \A p \in Positions : p # at =>
           /\ Outcomes(to, Whole(p)) = Outcomes(rep, Whole(p))
           /\ \A x \in Cells(p, cmd) : Outcomes(to, x) = Outcomes(rep, x) /\ Count(to.skipped, x) = Count(rep.skipped, x)
    BY <1>5, <1>6
  <2> QED
    BY <2>1, <2>2, TargetReported
<1> QED
  BY <1>8, <1>9

\* What is left of a target, and that the current cell is among it.
LEMMA LeftIs ==
    ASSUME TypeOK, Working
    PROVE  /\ Left \in SUBSET Cells(run.at, run.cmd) /\ Cell \in Left /\ Current = Cell
           /\ Left = {x \in Cells(run.at, run.cmd) :
                        (x[2] = Head(run.dbs) /\ x[3] \in run.plans) \/ x[2] \in Range(Tail(run.dbs))}
<1>1. Left = {x \in Cells(run.at, run.cmd) :
                (x[2] = Head(run.dbs) /\ x[3] \in run.plans) \/ x[2] \in Range(Tail(run.dbs))}
  BY DEF Left
<1>2. Cell \in Cells(run.at, run.cmd)
  BY StandsAt DEF Cell, Cells
<1>3. Cell[2] = Head(run.dbs) /\ Cell[3] \in run.plans
  BY StandsAt DEF Cell
<1> QED
  BY <1>1, <1>2, <1>3 DEF Current

LEMMA LeftAfter ==
    ASSUME TypeOK, Working, run' = NextPlan
    PROVE  \/ run'.pc = "target" /\ run'.at = run.at + 1 /\ Left = {Cell} /\ Left' = Cells(run.at + 1, run.cmd)
           \/ run'.pc = "table" /\ run'.at = run.at /\ Left' = Left \ {Cell}
<1> DEFINE db == Head(run.dbs)
           t == First(run.plans)
           S == Cells(run.at, run.cmd)
<1>1. /\ run.at \in Positions /\ t \in run.plans /\ run.plans \subseteq Plans(run.cmd)
      /\ run.dbs \in Seq(Databases) /\ run.dbs # <<>> /\ IsInjective(run.dbs)
  BY StandsAt DEF TypeOK, RunOK, Working
<1>2. /\ Left = {x \in S : (x[2] = db /\ x[3] \in run.plans) \/ x[2] \in Range(Tail(run.dbs))} /\ Cell \in Left
  BY LeftIs
<1>3. \A x \in S : x = <<run.at, x[2], x[3]>> /\ x[3] \in Plans(run.cmd)
  BY <1>1, CellsOf
<1>4. \A x \in S : x[2] = db /\ x[3] = t <=> x = Cell
  BY <1>3 DEF Cell
<1>5. db \notin Range(Tail(run.dbs)) /\ Tail(run.dbs) \in Seq(Databases) /\ IsInjective(Tail(run.dbs))
  BY <1>1, TailOf
<1>6. CASE /\ run'.pc = "target" /\ run'.at = run.at + 1 /\ run'.cmd = run.cmd
           /\ Tail(run.dbs) = <<>> /\ run.plans = {t}
  <2>1. Range(Tail(run.dbs)) = {}
    BY <1>6 DEF Range
  <2>2. Left = {Cell}
    <3> HIDE DEF db, t, S
    <3> QED
      BY <1>2, <1>4, <1>6, <2>1
  <2>3. Left' = Cells(run.at + 1, run.cmd)
    BY <1>6 DEF Left, Working
  <2> QED
    BY <1>6, <2>2, <2>3
<1>7. CASE /\ run'.pc = "table" /\ run'.at = run.at /\ run'.cmd = run.cmd /\ run'.plans = Plans(run.cmd)
           /\ run'.dbs = Tail(run.dbs) /\ Tail(run.dbs) # <<>> /\ run.plans = {t}
  <2>1. Left' = {x \in S : (x[2] = Head(run'.dbs) /\ x[3] \in run'.plans) \/ x[2] \in Range(Tail(run'.dbs))}
    BY <1>7 DEF Left, Working
  <2>2. Range(run'.dbs) = Range(Tail(run'.dbs)) \cup {Head(run'.dbs)}
    <3> DEFINE d == Tail(run.dbs)
    <3>1. d \in Seq(Databases) /\ d # <<>> /\ IsInjective(d) /\ run'.dbs = d
      BY <1>5, <1>7
    <3> HIDE DEF d
    <3>2. Head(d) \in Range(d) /\ Range(Tail(d)) = Range(d) \ {Head(d)}
      BY <3>1, TailOf
    <3> QED
      BY <3>1, <3>2
  <2>3. Left' = {x \in S : x[2] \in Range(Tail(run.dbs))}
    BY <1>3, <1>7, <2>1, <2>2
  <2>4. Left' = Left \ {Cell}
    <3> HIDE DEF db, t, S
    <3> QED
      BY <1>2, <1>4, <1>5, <1>7, <2>3
  <2> QED
    BY <1>7, <2>4
<1>8. CASE /\ run'.pc = "table" /\ run'.at = run.at /\ run'.cmd = run.cmd /\ run'.plans = run.plans \ {t}
           /\ run'.dbs = run.dbs
  <2>1. Left' = {x \in S : (x[2] = db /\ x[3] \in run.plans \ {t}) \/ x[2] \in Range(Tail(run.dbs))}
    BY <1>8 DEF Left, Working
  <2>2. Left' = Left \ {Cell}
    <3> HIDE DEF db, t, S
    <3> QED
      BY <1>2, <1>4, <1>5, <2>1
  <2> QED
    BY <1>8, <2>2
<1> QED
  BY <1>6, <1>7, <1>8, NextPlanIs

\* A table that is done, with one result or one error.
LEMMA TableReported ==
    ASSUME TypeOK, ReportSoFar, Working, run' = NextPlan,
           \A c : Outcomes(report', c) = Outcomes(report, c) + IF c = Cell THEN 1 ELSE 0,
           report'.skipped = report.skipped, AccountsForRows(report', run.cmd)
    PROVE  ReportSoFar'
<1>1. run.at \in Positions /\ Targets[run.at] # NULL /\ ReportOK(report)
  BY StandsAt DEF TypeOK
<1>2. Left \in SUBSET Cells(run.at, run.cmd) /\ Cell \in Left /\ Current = Cell
  BY LeftIs
<1>3. SoFar(report, run.cmd, run.at, Left, Cell, Out)
  BY <1>2 DEF ReportSoFar, Working
<1>4. run'.cmd = run.cmd /\ Out' = 0
  BY NextPlanIs DEF Out
<1>5. /\ \A c : SoFar(report', run.cmd, run.at, Left \ {Cell}, c, 0)
      /\ Left = {Cell} => \A c : SoFar(report', run.cmd, run.at + 1, Cells(run.at + 1, run.cmd), c, 0)
  BY <1>1, <1>2, <1>3, CellReported
<1> QED
  BY <1>4, <1>5, LeftAfter DEF ReportSoFar

LEMMA FailedReported ==
    ASSUME TypeOK, ReportSoFar, Working, NEW rep, ReportOK(rep),
           rep.results = report.results, rep.errors = report.errors, rep.skipped = report.skipped,
           NEW rows \in SUBSET Nat, Failed(rep, rows)
    PROVE  ReportSoFar'
<1>1. [cell |-> Cell, rows |-> rows] \in Errors
  BY CellIs DEF Errors
<1>2. run' = NextPlan /\ report' = [rep EXCEPT !.errors = Append(@, [cell |-> Cell, rows |-> rows])]
  BY DEF Failed
<1>3. /\ \A c : Outcomes(report', c) = Outcomes(rep, c) + IF c = Cell THEN 1 ELSE 0
      /\ report'.skipped = rep.skipped
      /\ \A cmd : AccountsForRows(rep, cmd) => AccountsForRows(report', cmd)
  BY <1>1, <1>2, ErrorCounts
<1>4. AccountsForRows(report, run.cmd)
  BY DEF ReportSoFar, SoFar, Working
<1>5. \A c : Outcomes(rep, c) = Outcomes(report, c)
  BY DEF Outcomes
<1>6. AccountsForRows(rep, run.cmd)
  BY <1>4 DEF AccountsForRows, Accounted
<1>7. \A c : Outcomes(report', c) = Outcomes(report, c) + IF c = Cell THEN 1 ELSE 0
  BY <1>3, <1>5
<1>8. AccountsForRows(report', run.cmd) /\ report'.skipped = report.skipped
  BY <1>3, <1>6
<1> QED
  BY <1>2, <1>7, <1>8, TableReported

LEMMA MergeSoFar ==
    ASSUME TypeOK, ReportSoFar, Merge
    PROVE  ReportSoFar'
<1>1. PICK e \in Results :
         /\ report' = [report EXCEPT !.results = Append(@, e)]
         /\ e.cell = Cell
         /\ e.inserted = Cardinality(DOMAIN Took \ DOMAIN tables[Database][Table])
         /\ e.updated = Cardinality({i \in DOMAIN tables[Database][Table] :
                           Changing(PlanOf(Database, Table, Rows), tables[Database][Table][i], Rows) # {}})
         /\ e.skipped = Cardinality(run.skipped) /\ e.rows = Cardinality(DOMAIN Rows)
  BY MergeReported
<1>2. Working /\ run.pc = "merge" /\ run' = NextPlan
  BY DEF Merge, Working
<1>3. Cell \in Left /\ Current = Cell /\ Cell \in Cells(run.at, run.cmd) /\ run.at \in Positions
  BY <1>2, LeftIs, StandsAt
<1>4. e.skipped = Count(report.skipped, e.cell)
  <2>1. SoFar(report, run.cmd, run.at, Left, Cell, Cardinality(run.skipped))
    BY <1>2, <1>3 DEF ReportSoFar, Out
  <2>2. Count(report.skipped, Cell) = Cardinality(run.skipped)
    BY <1>3, <2>1 DEF SoFar
  <2> QED
    BY <1>1, <2>2
<1>5. e.rows + e.skipped = Len(run.cmd.files[e.cell[3]])
  <2>1. run.skipped \subseteq DOMAIN File /\ IsFiniteSet(DOMAIN File) /\ Cardinality(DOMAIN File) = Len(File)
    BY <1>2, StandsAt DEF TypeOK, RunOK
  <2>2. DOMAIN Rows = DOMAIN File \ run.skipped
    BY <1>2, KeptAre DEF Rows
  <2>3. IsFiniteSet(run.skipped) /\ IsFiniteSet(DOMAIN Rows)
    BY <2>1, <2>2, FS_Subset
  <2>4. Cardinality(DOMAIN Rows) + Cardinality(run.skipped) = Cardinality(DOMAIN File)
    <3>1. DOMAIN Rows \cup run.skipped = DOMAIN File /\ DOMAIN Rows \cap run.skipped = {}
      BY <2>1, <2>2
    <3>2. Cardinality(DOMAIN Rows \cup run.skipped)
            = Cardinality(DOMAIN Rows) + Cardinality(run.skipped) - Cardinality(DOMAIN Rows \cap run.skipped)
      BY <2>3, FS_Union
    <3>3. Cardinality(DOMAIN Rows \cap run.skipped) = 0
      BY <3>1, FS_EmptySet
    <3>4. Cardinality(DOMAIN Rows) \in Nat /\ Cardinality(run.skipped) \in Nat
      BY <2>3, FS_CardinalityType
    <3> QED
      BY <3>1, <3>2, <3>3, <3>4
  <2>5. run.cmd.files[e.cell[3]] = File
    BY <1>1, <1>2, CellIs DEF File
  <2> QED
    BY <1>1, <2>1, <2>4, <2>5
<1>6. AccountsForRows(report, run.cmd) /\ ReportOK(report)
  BY <1>2 DEF ReportSoFar, SoFar, TypeOK
<1>7. /\ \A c : Outcomes(report', c) = Outcomes(report, c) + IF c = e.cell THEN 1 ELSE 0
      /\ report'.skipped = report.skipped
      /\ AccountsForRows(report', run.cmd)
  <2>1. Accounted(report, run.cmd, e)
    BY <1>4, <1>5 DEF Accounted
  <2> QED
    BY <1>1, <1>6, <2>1, ResultCounts
<1>8. \A c : Outcomes(report', c) = Outcomes(report, c) + IF c = Cell THEN 1 ELSE 0
  BY <1>1, <1>7
<1> QED
  BY <1>2, <1>7, <1>8, TableReported

\* At first the report has one error for each row of the input that lacks a field.
LEMMA StartReported ==
    ASSUME NEW cmd \in Commands, Start(cmd), TypeOK'
    PROVE  ReportSoFar'
<1> DEFINE es == [n \in DOMAIN Incomplete |-> [cell |-> Whole(Incomplete[n]), rows |-> {}]]
<1>1. /\ run' = [NoRun EXCEPT !.pc = "target", !.cmd = cmd, !.at = 1, !.plans = Plans(cmd)]
      /\ report' = [NoReport EXCEPT !.errors = es]
  BY DEF Start
<1>2. run'.pc = "target" /\ run'.cmd = cmd /\ run'.at = 1
  BY <1>1 DEF NoRun
<1>3. report'.results = <<>> /\ report'.errors = es /\ report'.skipped = <<>>
  BY <1>1 DEF NoReport
<1>4. DOMAIN es = DOMAIN Incomplete /\ \A n \in DOMAIN Incomplete : es[n].cell = Whole(Incomplete[n])
  OBVIOUS
<1>5. \A c : Count(report'.results, c) = 0 /\ Count(report'.skipped, c) = 0
  BY <1>3, FS_EmptySet DEF Count
<1>6. \A c : Count(report'.errors, c) \in Nat
  <2>1. ReportOK(report')
    BY DEF TypeOK
  <2> QED
    BY <2>1, ReportCounts
<1> HIDE DEF es
<1>7. ASSUME NEW p \in Positions
      PROVE  Outcomes(report', Whole(p)) = IF Targets[p] = NULL THEN 1 ELSE 0
  <2> DEFINE S == {n \in DOMAIN es : es[n].cell = Whole(p)}
  <2>1. \A n \in DOMAIN Incomplete : Whole(Incomplete[n]) = Whole(p) <=> Incomplete[n] = p
    BY DEF Whole
  <2>2. S = {n \in DOMAIN Incomplete : Incomplete[n] = p}
    BY <1>4, <2>1
  <2>3. Outcomes(report', Whole(p)) = Cardinality(S)
    <3>1. Count(report'.errors, Whole(p)) = Cardinality(S)
      BY <1>3 DEF Count
    <3> QED
      BY <1>5, <1>6, <3>1 DEF Outcomes
  <2>4. CASE Targets[p] = NULL
    <3>1. PICK n \in DOMAIN Incomplete : Incomplete[n] = p
      BY <2>4, IncompleteIs
    <3>2. S = {n}
      BY <2>2, <3>1, IncompleteIs
    <3>3. Cardinality({n}) = 1
      BY FS_Singleton
    <3> QED
      BY <2>3, <2>4, <3>2, <3>3
  <2>5. CASE Targets[p] # NULL
    <3>1. S = {}
      BY <2>2, <2>5, IncompleteIs
    <3>2. Cardinality(S) = 0
      BY <3>1, FS_EmptySet
    <3> QED
      BY <2>3, <2>5, <3>2
  <2> QED
    BY <2>4, <2>5
<1>8. ASSUME NEW p \in Positions, NEW x \in Cells(p, cmd)
      PROVE  Outcomes(report', x) = 0 /\ Count(report'.skipped, x) = 0
  <2>1. {n \in DOMAIN es : es[n].cell = x} = {}
    BY <1>4, CellsOf
  <2>2. Count(report'.errors, x) = 0
    BY <1>3, <2>1, FS_EmptySet DEF Count
  <2> QED
    BY <1>5, <2>2 DEF Outcomes
<1>9. \A p \in Positions : ~(p < 1)
  BY DEF Positions
<1>10. Left' = Cells(1, cmd) /\ Out' = 0
  BY <1>2 DEF Left, Working, Out
<1>11. AccountsForRows(report', cmd)
  BY <1>3 DEF AccountsForRows
<1>12. \A c : SoFar(report', cmd, 1, Cells(1, cmd), c, 0)
  BY <1>7, <1>8, <1>9, <1>11 DEF SoFar
<1> QED
  BY <1>2, <1>10, <1>12 DEF ReportSoFar

\* What there is to report of a target, before anything is written there.
LEMMA AtTarget ==
    ASSUME TypeOK, ReportSoFar, run.pc = "target", run.at <= Len(Targets)
    PROVE  /\ run.at \in Positions /\ run.at \in Nat
           /\ \A c : SoFar(report, run.cmd, run.at, Cells(run.at, run.cmd), c, 0)
           /\ Outcomes(report, Whole(run.at)) = IF Targets[run.at] = NULL THEN 1 ELSE 0
           /\ \A x \in Cells(run.at, run.cmd) : Outcomes(report, x) = 0
           /\ AccountsForRows(report, run.cmd)
<1>1. run.at \in Positions /\ run.at \in Nat
  BY TargetsAre DEF TypeOK, RunOK, Positions
<1>2. Left = Cells(run.at, run.cmd) /\ Out = 0
  BY DEF Left, Working, Out
<1>3. SoFar(report, run.cmd, run.at, Cells(run.at, run.cmd), Current, 0)
  BY <1>2 DEF ReportSoFar
<1>4. \A c : SoFar(report, run.cmd, run.at, Cells(run.at, run.cmd), c, 0)
  BY <1>3 DEF SoFar
<1> QED
  BY <1>1, <1>3, <1>4 DEF SoFar

\* A target that is done at once.
LEMMA WholeReported ==
    ASSUME TypeOK, ReportSoFar, run.pc = "target", run.at <= Len(Targets), run' = NextTarget(run),
           Complete(report', run.cmd, run.at), AccountsForRows(report', run.cmd),
           \A c : c # Whole(run.at) => Outcomes(report', c) = Outcomes(report, c),
           report'.skipped = report.skipped
    PROVE  ReportSoFar'
<1>1. /\ run.at \in Positions /\ run.at \in Nat
      /\ \A c : SoFar(report, run.cmd, run.at, Cells(run.at, run.cmd), c, 0)
  BY AtTarget
<1>2. run'.pc = "target" /\ run'.at = run.at + 1 /\ run'.cmd = run.cmd
  BY DEF NextTarget, TypeOK, RunOK
<1>3. \A p \in Positions : p # run.at =>
         /\ Outcomes(report', Whole(p)) = Outcomes(report, Whole(p))
         /\ \A x \in Cells(p, run.cmd) : Outcomes(report', x) = Outcomes(report, x)
                                         /\ Count(report'.skipped, x) = Count(report.skipped, x)
  <2>1. \A p \in Positions : p # run.at => Whole(p) # Whole(run.at)
    BY DEF Whole
  <2>2. \A p \in Positions : \A x \in Cells(p, run.cmd) : x # Whole(run.at)
    BY CellsOf
  <2> QED
    BY <2>1, <2>2
<1>4. \A c : SoFar(report', run.cmd, run.at + 1, Cells(run.at + 1, run.cmd), c, 0)
  BY <1>1, <1>3, TargetReported
<1>5. Left' = Cells(run.at + 1, run.cmd) /\ Out' = 0
  BY <1>2 DEF Left, Working, Out
<1> QED
  BY <1>2, <1>4, <1>5 DEF ReportSoFar

LEMMA SkipReported ==
    ASSUME TypeOK, ReportSoFar, Skip
    PROVE  ReportSoFar'
<1>1. /\ run.pc = "target" /\ run.at <= Len(Targets) /\ Targets[run.at] = NULL /\ run' = NextTarget(run)
      /\ report' = report
  BY DEF Skip
<1>2. Outcomes(report, Whole(run.at)) = 1 /\ AccountsForRows(report, run.cmd)
  BY <1>1, AtTarget
<1>3. Cells(run.at, run.cmd) = {}
  BY <1>1 DEF Cells
<1>4. Complete(report', run.cmd, run.at)
  BY <1>1, <1>2, <1>3 DEF Complete
<1> QED
  BY <1>1, <1>2, <1>4, WholeReported

LEMMA ConnectReported ==
    ASSUME TypeOK, ReportSoFar, Connect
    PROVE  ReportSoFar'
<1> DEFINE dbs == DatabasesOf[Targets[run.at]]
<1>1. run.pc = "target" /\ run.at <= Len(Targets) /\ Targets[run.at] # NULL
  BY DEF Connect
<1>2. /\ run.at \in Positions /\ run.cmd \in Commands /\ run.plans = Plans(run.cmd)
      /\ dbs \in Seq(Databases) /\ IsInjective(dbs)
  BY <1>1, Reached
<1>3. /\ \A c : SoFar(report, run.cmd, run.at, Cells(run.at, run.cmd), c, 0)
      /\ Outcomes(report, Whole(run.at)) = 0
      /\ \A x \in Cells(run.at, run.cmd) : Outcomes(report, x) = 0
      /\ AccountsForRows(report, run.cmd)
  BY <1>1, AtTarget
<1>4. CASE (dbs = <<>> \/ run.plans = {}) /\ run' = NextTarget(run) /\ report' = report
  <2>1. Cells(run.at, run.cmd) = {}
    <3>1. dbs = <<>> => Range(dbs) = {}
      BY DEF Range
    <3> QED
      BY <1>1, <1>2, <1>4, <3>1 DEF Cells
  <2>2. Complete(report', run.cmd, run.at)
    BY <1>1, <1>3, <1>4, <2>1 DEF Complete
  <2> QED
    BY <1>1, <1>3, <1>4, <2>2, WholeReported
<1>5. CASE dbs # <<>> /\ run' = [run EXCEPT !.pc = "table", !.dbs = dbs] /\ report' = report
  <2>1. /\ run'.pc = "table" /\ run'.at = run.at /\ run'.cmd = run.cmd /\ run'.plans = run.plans /\ run'.dbs = dbs
    BY <1>5 DEF TypeOK, RunOK
  <2>2. Range(dbs) = Range(Tail(dbs)) \cup {Head(dbs)}
    <3>1. Head(dbs) \in Range(dbs) /\ Range(Tail(dbs)) = Range(dbs) \ {Head(dbs)}
      BY <1>2, <1>5, TailOf
    <3> QED
      BY <3>1
  <2>3. \A x \in Cells(run.at, run.cmd) : x[2] \in Range(dbs) /\ x[3] \in Plans(run.cmd)
    BY <1>2, CellsOf
  <2>4. Left' = {x \in Cells(run.at, run.cmd) :
                   (x[2] = Head(dbs) /\ x[3] \in run.plans) \/ x[2] \in Range(Tail(dbs))}
    BY <2>1 DEF Left, Working
  <2>5. Left' = Cells(run.at, run.cmd)
    <3> HIDE DEF dbs
    <3> QED
      BY <1>2, <2>2, <2>3, <2>4
  <2>6. Out' = 0
    BY <2>1 DEF Out
  <2> QED
    BY <1>3, <1>5, <2>1, <2>5, <2>6 DEF ReportSoFar
<1>6. CASE /\ run' = NextTarget(run)
           /\ report' = [report EXCEPT !.errors = Append(@, [cell |-> Whole(run.at), rows |-> {}])]
  <2>1. [cell |-> Whole(run.at), rows |-> {}] \in Errors
    BY <1>2 DEF Errors
  <2>2. /\ \A c : Outcomes(report', c) = Outcomes(report, c) + IF c = Whole(run.at) THEN 1 ELSE 0
        /\ report'.skipped = report.skipped
        /\ \A cmd : AccountsForRows(report, cmd) => AccountsForRows(report', cmd)
    BY <1>6, <2>1, ErrorCounts DEF TypeOK
  <2>3. \A c : Outcomes(report, c) \in Nat
    BY ReportCounts DEF TypeOK
  <2>4. \A c : c # Whole(run.at) => Outcomes(report', c) = Outcomes(report, c)
    BY <2>2, <2>3
  <2>5. Outcomes(report', Whole(run.at)) = 1
    BY <1>3, <2>2
  <2>6. \A x \in Cells(run.at, run.cmd) : Outcomes(report', x) = 0
    BY <1>2, <1>3, <2>4, CellsOf
  <2>7. Complete(report', run.cmd, run.at)
    BY <2>5, <2>6 DEF Complete
  <2>8. AccountsForRows(report', run.cmd)
    BY <1>3, <2>2
  <2> QED
    BY <1>1, <1>6, <2>2, <2>4, <2>7, <2>8, WholeReported
<1> QED
  BY <1>4, <1>5, <1>6 DEF Connect

LEMMA SplitReported ==
    ASSUME TypeOK, ReportSoFar, Split
    PROVE  ReportSoFar'
<1> DEFINE out == Missing(Head(run.dbs), First(run.plans), File)
           tried == [report EXCEPT !.attempted = @ + 1]
           new == [k \in 1..Cardinality(out) |-> [cell |-> Cell, row |-> SetToSeq(out)[k]]]
<1>1. /\ run.pc = "table" /\ Working
      /\ \/ /\ run' = [run EXCEPT !.pc = "merge", !.skipped = out, !.wrote = others]
            /\ report' = [tried EXCEPT !.skipped = @ \o new]
         \/ Failed(tried, {})
  BY DEF Split, Working
<1>2. report \in [results : Seq(Results), errors : Seq(Errors), skipped : Seq(Skips), attempted : Nat]
  BY ReportIs DEF TypeOK
<1>3. /\ tried.results = report.results /\ tried.errors = report.errors /\ tried.skipped = report.skipped
      /\ ReportOK(tried)
  <2>1. tried \in [results : Seq(Results), errors : Seq(Errors), skipped : Seq(Skips), attempted : Nat]
    BY <1>2
  <2>2. tried.results = report.results /\ tried.errors = report.errors /\ tried.skipped = report.skipped
    BY <1>2
  <2> QED
    BY <2>1, <2>2, ReportIs
<1>4. CASE Failed(tried, {})
  <2> HIDE DEF tried
  <2> QED
    BY <1>1, <1>3, <1>4, FailedReported
<1>5. CASE /\ run' = [run EXCEPT !.pc = "merge", !.skipped = out, !.wrote = others]
           /\ report' = [tried EXCEPT !.skipped = @ \o new]
  <2>1. /\ run'.pc = "merge" /\ run'.at = run.at /\ run'.cmd = run.cmd /\ run'.plans = run.plans /\ run'.dbs = run.dbs
        /\ run'.skipped = out
    BY <1>5 DEF TypeOK, RunOK
  <2>2. Left' = Left /\ Current' = Cell /\ Out' = Cardinality(out)
    <3>1. Cell' = Cell
      BY <2>1 DEF Cell
    <3> QED
      BY <1>1, <2>1, <3>1 DEF Left, Current, Out, Working
  <2>3. new \in Seq(Skips) /\ Len(new) = Cardinality(out) /\ AllOf(new, Cell)
    BY <1>1, SkippedReported DEF AllOf
  <2>4. report'.results = report.results /\ report'.errors = report.errors /\ report'.skipped = report.skipped \o new
    <3> HIDE DEF new
    <3> QED
      BY <1>2, <1>5
  <2>5. SoFar(report, run.cmd, run.at, Left, Cell, 0)
    BY <1>1, LeftIs DEF ReportSoFar, Out
  <2>6. Cell \in Left /\ Cell \in Cells(run.at, run.cmd) /\ run.at \in Positions /\ run.at \in Nat
    BY <1>1, LeftIs, StandsAt
  <2>7. Outcomes(report, Cell) = 0 /\ Count(report.skipped, Cell) = 0
    BY <2>5, <2>6 DEF SoFar
  <2>8. /\ \A c : Outcomes(report', c) = Outcomes(report, c)
        /\ Count(report'.skipped, Cell) = Count(report.skipped, Cell) + Len(new)
        /\ \A c : c # Cell => Count(report'.skipped, c) = Count(report.skipped, c)
        /\ \A cmd : AccountsForRows(report, cmd) => AccountsForRows(report', cmd)
    <3> HIDE DEF new
    <3> QED
      BY <2>3, <2>4, <2>7, SkipsCount DEF TypeOK
  <2>9. Count(report'.skipped, Cell) = Cardinality(out)
    <3>1. Cardinality(out) \in Nat
      BY <1>1, SkippedReported
    <3> HIDE DEF new, out
    <3> QED
      BY <2>3, <2>7, <2>8, <3>1
  <2> HIDE DEF new, out, tried
  <2>10. SoFar(report', run.cmd, run.at, Left, Cell, Cardinality(out))
    <3>1. ASSUME NEW p \in Positions
          PROVE  /\ p < run.at => Complete(report', run.cmd, p)
                 /\ p >= run.at => Outcomes(report', Whole(p)) = IF Targets[p] = NULL THEN 1 ELSE 0
      BY <2>5, <2>8 DEF SoFar, Complete
    <3>2. ASSUME NEW p \in Positions, p > run.at, NEW x \in Cells(p, run.cmd)
          PROVE  Outcomes(report', x) = 0 /\ Count(report'.skipped, x) = 0
      <4>1. x # Cell
        <5>1. x[1] = p /\ Cell[1] = run.at /\ p # run.at
          BY <2>6, <3>2, CellsOf DEF Positions
        <5> QED
          BY <5>1
      <4> QED
        BY <2>5, <2>8, <3>2, <4>1 DEF SoFar
    <3>3. ASSUME NEW x \in Cells(run.at, run.cmd)
          PROVE  IF x \in Left
                 THEN Outcomes(report', x) = 0 /\ Count(report'.skipped, x) = IF x = Cell THEN Cardinality(out) ELSE 0
                 ELSE Outcomes(report', x) = 1
      <4>1. x \notin Left => Outcomes(report', x) = 1
        BY <2>5, <2>6, <2>8 DEF SoFar
      <4>2. x \in Left => Outcomes(report', x) = 0
        BY <2>5, <2>6, <2>8 DEF SoFar
      <4>3. x \in Left /\ x # Cell => Count(report'.skipped, x) = 0
        BY <2>5, <2>6, <2>8 DEF SoFar
      <4> QED
        BY <2>9, <4>1, <4>2, <4>3
    <3>4. AccountsForRows(report', run.cmd)
      BY <2>5, <2>8 DEF SoFar
    <3> QED
      BY <3>1, <3>2, <3>3, <3>4 DEF SoFar
  <2> QED
    BY <2>1, <2>2, <2>10 DEF ReportSoFar
<1> QED
  BY <1>1, <1>4, <1>5

\* A run that does not move.
LEMMA SameSoFar ==
    ASSUME ReportSoFar, report' = report, run'.cmd = run.cmd, run'.at = run.at, run'.dbs = run.dbs,
           run'.plans = run.plans, run'.skipped = run.skipped,
           run'.pc = run.pc \/ (run.pc = "merge" /\ run'.pc = "diagnose")
    PROVE  ReportSoFar'
<1>1. Cell' = Cell /\ (Working' <=> Working)
  BY DEF Cell, Working
<1>2. Left' = Left
  BY <1>1 DEF Left
<1>3. Current' = Current
  BY <1>1 DEF Current
<1>4. Out' = Out
  BY DEF Out
<1> QED
  BY <1>2, <1>3, <1>4 DEF ReportSoFar

LEMMA StepSoFar ==
    ASSUME TypeOK, TypeOK', ReportSoFar, [Next]_vars
    PROVE  ReportSoFar'
<1>1. CASE UNCHANGED vars \/ \E w \in Others : Write(w)
  <2>1. UNCHANGED <<run, report>>
    BY <1>1 DEF vars, Write
  <2> QED
    BY <2>1, SameSoFar
<1>2. CASE \E cmd \in Commands : Start(cmd)
  BY <1>2, StartReported
<1>3. CASE Skip \/ Connect \/ Split \/ Merge
  BY <1>3, SkipReported, ConnectReported, SplitReported, MergeSoFar
<1>4. CASE Fail
  <2>1. run.pc = "merge" /\ run' = [run EXCEPT !.pc = "diagnose"] /\ report' = report
    BY <1>4 DEF Fail
  <2>2. /\ run'.cmd = run.cmd /\ run'.at = run.at /\ run'.dbs = run.dbs
        /\ run'.plans = run.plans /\ run'.skipped = run.skipped /\ run'.pc = "diagnose"
    BY <2>1 DEF TypeOK, RunOK
  <2> QED
    BY <2>1, <2>2, SameSoFar
<1>5. CASE Diagnose
  <2> DEFINE rows == Kept(run.skipped)
  <2>1. Working /\ \E bad \in SUBSET DOMAIN rows : Failed(report, bad)
    BY <1>5 DEF Diagnose, Working
  <2>2. DOMAIN rows \in SUBSET Nat
    BY <2>1, KeptAre
  <2> HIDE DEF rows
  <2>3. PICK bad \in SUBSET DOMAIN rows : Failed(report, bad)
    BY <2>1
  <2>4. bad \in SUBSET Nat /\ ReportOK(report)
    BY <2>2 DEF TypeOK
  <2> QED
    BY <2>1, <2>3, <2>4, FailedReported
<1>6. CASE Save \/ Crash
  <2>1. run'.pc = "none"
    BY <1>6 DEF Save, Crash, NoRun
  <2> QED
    BY <2>1 DEF ReportSoFar
<1> QED
  BY <1>1, <1>2, <1>3, <1>4, <1>5, <1>6 DEF Next, Step, Terminated

\* A report is saved when all targets are done.
LEMMA StepComplete ==
    ASSUME TypeOK, ReportSoFar, ReportComplete, [Next]_vars
    PROVE  ReportComplete'
<1>1. CASE UNCHANGED saved
  BY <1>1 DEF ReportComplete
<1>2. CASE Save /\ saved' = [cmd |-> run.cmd, report |-> report]
  <2>1. run.pc = "target" /\ run.at > Len(Targets) /\ saved'.report = report /\ saved'.cmd = run.cmd
    BY <1>2 DEF Save
  <2>2. SoFar(report, run.cmd, run.at, Left, Current, Out)
    BY <2>1 DEF ReportSoFar
  <2>3. \A p \in Positions : p < run.at
    BY <2>1, TargetsAre DEF Positions, TypeOK, RunOK
  <2>4. (\A p \in Positions : Complete(report, run.cmd, p)) /\ AccountsForRows(report, run.cmd)
    BY <2>2, <2>3 DEF SoFar
  <2> QED
    BY <2>1, <2>4 DEF ReportComplete
<1> QED
  BY <1>1, <1>2 DEF Next, Step, Terminated, vars, Start, Skip, Connect, Split, Merge, Fail, Diagnose, Save, Crash, Write

\* A report that is saved leaves out no target, no database, no table and no row.
THEOREM ReportLeavesNothingOut == Spec => []ReportComplete
<1>1. Init => ReportSoFar /\ ReportComplete
  BY DEF Init, NoRun, ReportSoFar, ReportComplete
<1>2. TypeOK /\ TypeOK' /\ ReportSoFar /\ ReportComplete /\ [Next]_vars => ReportSoFar' /\ ReportComplete'
  BY StepSoFar, StepComplete
<1> QED
  BY <1>1, <1>2, TypeCorrect, PTL DEF Spec
=============================================================================
