----------------------------- MODULE MetadataProofs -----------------------------
(***************************************************************************)
(* Proofs about Metadata: types, what a sync that nobody has overtaken     *)
(* holds in its hands, and that Metadata implements MetadataBook.          *)
(***************************************************************************)
EXTENDS MetadataProps, FiniteSetTheorems, WellFoundedInduction, TLAPS

(***************************************************************************)
(* What the operators of Metadata do.                                      *)
(***************************************************************************)

\* A set of naturals has a least element.
LEMMA LeastExists ==
    ASSUME NEW S \in SUBSET Nat, S # {}
    PROVE  \E n \in S : \A m \in S : n <= m
<1> PICK k \in S : TRUE
  OBVIOUS
<1> DEFINE T == {0..n : n \in {m \in S : m <= k}}
           R == StrictSubsetOrdering(0..k)
<1>1. T \subseteq FiniteSubsetsOf(0..k) /\ T # {}
  <2>1. ASSUME NEW n \in S, n <= k PROVE 0..n \in FiniteSubsetsOf(0..k)
    <3>1. IsFiniteSet(0..n)
      BY <2>1, FS_Interval
    <3> QED
      BY <2>1, <3>1 DEF FiniteSubsetsOf
  <2>2. 0..k \in T
    OBVIOUS
  <2> QED
    BY <2>1, <2>2
<1>2. IsWellFoundedOn(R, FiniteSubsetsOf(0..k))
  BY FS_StrictSubsetOrderingWellFounded
<1> HIDE DEF R
<1>3. PICK x \in T : \A y \in T : ~(<<y, x>> \in R)
  BY <1>1, <1>2, WFMin
<1>4. PICK n \in S : n <= k /\ x = 0..n
  BY <1>3
<1>5. ASSUME NEW m \in S, m < n PROVE FALSE
  <2>1. 0..m \in T
    BY <1>4, <1>5
  <2>2. 0..m \subseteq 0..n /\ 0..n \subseteq 0..k /\ n \in 0..n /\ n \notin 0..m
    BY <1>4, <1>5
  <2>3. <<0..m, x>> \in R
    BY <1>4, <2>2 DEF R, StrictSubsetOrdering
  <2> QED
    BY <1>3, <2>1, <2>3
<1> QED
  BY <1>5

\* A finite set of naturals has a greatest element.
LEMMA GreatestExists ==
    ASSUME NEW S \in SUBSET Nat, S # {}, IsFiniteSet(S)
    PROVE  \E n \in S : \A m \in S : m <= n
<1> DEFINE T == {U \in SUBSET S : U # {} /\ ~\E n \in U : \A m \in U : m <= n}
           R == StrictSubsetOrdering(S)
<1> SUFFICES ASSUME T # {} PROVE FALSE
  OBVIOUS
<1>1. T \subseteq FiniteSubsetsOf(S)
  BY FS_Subset DEF FiniteSubsetsOf
<1>2. IsWellFoundedOn(R, FiniteSubsetsOf(S))
  BY FS_StrictSubsetOrderingWellFounded
<1>3. \E x \in T : \A y \in T : ~(<<y, x>> \in R)
  <2> HIDE DEF T, R
  <2> QED
    BY <1>1, <1>2, WFMin
<1>4. PICK U \in T : \A V \in T : ~(<<V, U>> \in R)
  BY <1>3
<1>5. PICK x \in U : TRUE
  OBVIOUS
<1>6. CASE U = {x}
  BY <1>6
<1>7. CASE U # {x}
  <2>1. U \ {x} \in SUBSET S /\ U \ {x} # {} /\ <<U \ {x}, U>> \in R
    BY <1>5, <1>7 DEF StrictSubsetOrdering
  <2>2. PICK n \in U \ {x} : \A m \in U \ {x} : m <= n
    BY <1>4, <2>1
  <2>3. x \in Nat /\ n \in Nat
    BY <1>5
  <2>4. CASE x <= n
    BY <2>2, <2>3, <2>4
  <2>5. CASE n <= x
    BY <1>5, <2>2, <2>3, <2>5
  <2> QED
    BY <2>3, <2>4, <2>5
<1> QED
  BY <1>6, <1>7


\* Every prefix of a sequence of sequences has been put in a row as FlattenSeq does it.
Flat(seqs, n) == CHOOSE f : f = [i \in 1..n |-> IF i = 1 THEN seqs[i] ELSE f[i-1] \o seqs[i]]

IsFlat(seqs, n, f) == f = [i \in 1..n |-> IF i = 1 THEN seqs[i] ELSE f[i-1] \o seqs[i]]

LEMMA FlatExists ==
    ASSUME NEW seqs, NEW n \in Nat
    PROVE  \E f : IsFlat(seqs, n, f)
<1> DEFINE T == {m \in Nat : ~\E f : IsFlat(seqs, m, f)}
<1> SUFFICES ASSUME T # {} PROVE FALSE
  OBVIOUS
<1>1. PICK m \in T : \A l \in T : m <= l
  <2>1. T \in SUBSET Nat
    OBVIOUS
  <2> HIDE DEF T
  <2> QED
    BY <2>1, LeastExists
<1>2. CASE m = 0
  <2>1. 1..m = {}
    BY <1>2
  <2>2. IsFlat(seqs, m, [i \in {} |-> 0])
    BY <2>1 DEF IsFlat
  <2> QED
    BY <1>1, <2>2
<1>3. CASE m # 0
  <2>1. m - 1 \in Nat /\ m - 1 \notin T
    BY <1>1, <1>3
  <2>2. PICK f : IsFlat(seqs, m - 1, f)
    BY <2>1
  <2> DEFINE g == [i \in 1..m |-> IF i \in 1..(m-1) THEN f[i] ELSE IF i = 1 THEN seqs[i] ELSE f[i-1] \o seqs[i]]
  <2>6. m \in Nat /\ m # 0
    BY <1>1, <1>3
  <2>7. \A i \in 1..(m-1) : f[i] = IF i = 1 THEN seqs[i] ELSE f[i-1] \o seqs[i]
    BY <2>2 DEF IsFlat
  <2>3. ASSUME NEW i \in 1..m
        PROVE  g[i] = IF i = 1 THEN seqs[i] ELSE g[i-1] \o seqs[i]
    <3>1. i \in Nat /\ (i # 1 => i - 1 \in 1..m /\ i - 1 \in 1..(m-1))
      BY <2>6
    <3>2. i # 1 => g[i-1] = f[i-1]
      BY <3>1
    <3>3. CASE i \in 1..(m-1)
      BY <2>7, <3>2, <3>3
    <3>4. CASE i \notin 1..(m-1)
      BY <3>2, <3>4
    <3> QED
      BY <3>3, <3>4
  <2>4. g = [i \in 1..m |-> IF i = 1 THEN seqs[i] ELSE g[i-1] \o seqs[i]]
    <3> DEFINE h == [i \in 1..m |-> IF i = 1 THEN seqs[i] ELSE g[i-1] \o seqs[i]]
    <3>1. \A i \in 1..m : g[i] = h[i]
      BY <2>3
    <3> QED
      BY <3>1, ZenonT(60)
  <2>5. IsFlat(seqs, m, g)
    BY <2>4 DEF IsFlat
  <2> QED
    BY <1>1, <2>5
<1> QED
  BY <1>2, <1>3

\* An element of one of the sequences at its place, with those before it of its sequence
\* right before it.
Placed(seqs, flat) ==
    \A j \in DOMAIN flat : \E i \in DOMAIN seqs : \E m \in DOMAIN seqs[i] :
        \A l \in 1..m : j - m + l \in 1..j /\ flat[j - m + l] = seqs[i][l]

LEMMA SeqInto ==
    ASSUME NEW S, NEW s, NEW n \in Nat, DOMAIN s = 1..n, s = [j \in DOMAIN s |-> s[j]],
           \A j \in 1..n : s[j] \in S
    PROVE  s \in Seq(S) /\ Len(s) = n
<1>1. s \in [1..n -> S]
  OBVIOUS
<1> QED
  BY <1>1

LEMMA ConcatAt ==
    ASSUME NEW S, NEW s \in Seq(S), NEW t \in Seq(S)
    PROVE  /\ s \o t \in Seq(S) /\ Len(s \o t) = Len(s) + Len(t)
           /\ \A j \in 1..Len(s) : (s \o t)[j] = s[j]
           /\ \A j \in 1..Len(t) : (s \o t)[Len(s) + j] = t[j]
OBVIOUS

LEMMA ConcatPlaces ==
    ASSUME NEW S, NEW seqs \in Seq(Seq(S)), NEW s \in Seq(S), Placed(seqs, s), NEW n \in DOMAIN seqs
    PROVE  s \o seqs[n] \in Seq(S) /\ Placed(seqs, s \o seqs[n])
<1> DEFINE t == seqs[n]
           a == Len(s)
           flat == s \o t
<1>1. t \in Seq(S) /\ a \in Nat /\ Len(t) \in Nat /\ DOMAIN t = 1..Len(t) /\ DOMAIN s = 1..a
  OBVIOUS
<1>2. /\ flat \in Seq(S) /\ Len(flat) = a + Len(t)
      /\ \A j \in 1..a : flat[j] = s[j]
      /\ \A j \in 1..Len(t) : flat[a + j] = t[j]
  BY <1>1, ConcatAt
<1>3. DOMAIN flat = 1..(a + Len(t))
  BY <1>2
<1> HIDE DEF t, a, flat
<1>4. ASSUME NEW j \in DOMAIN flat
      PROVE  \E i \in DOMAIN seqs : \E k \in DOMAIN seqs[i] :
                 \A l \in 1..k : j - k + l \in 1..j /\ flat[j - k + l] = seqs[i][l]
  <2>1. j \in Nat
    BY <1>1, <1>3
  <2>2. CASE j <= a
    <3>1. j \in DOMAIN s
      BY <1>1, <1>3, <2>2
    <3>2. PICK i \in DOMAIN seqs : \E k \in DOMAIN seqs[i] :
              \A l \in 1..k : j - k + l \in 1..j /\ s[j - k + l] = seqs[i][l]
      BY <3>1 DEF Placed
    <3>3. PICK k \in DOMAIN seqs[i] :
              \A l \in 1..k : j - k + l \in 1..j /\ s[j - k + l] = seqs[i][l]
      BY <3>2
    <3>4. \A l \in 1..k : j - k + l \in 1..a
      BY <1>1, <2>1, <2>2, <3>3
    <3> QED
      BY <1>2, <3>3, <3>4
  <2>3. CASE j > a
    <3>4. j - a \in 1..Len(t) /\ j = a + (j - a)
      BY <1>1, <1>3, <2>1, <2>3
    <3>1. PICK k \in 1..Len(t) : j = a + k
      BY <3>4
    <3>2. \A l \in 1..k : j - k + l = a + l /\ a + l \in 1..j /\ l \in 1..Len(t)
      BY <1>1, <3>1
    <3>3. \A l \in 1..k : j - k + l \in 1..j /\ flat[j - k + l] = t[l]
      BY <1>2, <3>2
    <3> QED
      BY <1>1, <3>1, <3>3 DEF t
  <2> QED
    BY <1>1, <2>1, <2>2, <2>3
<1>5. flat \in Seq(S) /\ Placed(seqs, flat)
  BY <1>2, <1>4 DEF Placed
<1> QED
  BY <1>5 DEF flat, t

LEMMA FlattenPlaces ==
    ASSUME NEW S, NEW seqs \in Seq(Seq(S))
    PROVE  FlattenSeq(seqs) \in Seq(S) /\ Placed(seqs, FlattenSeq(seqs))
<1> DEFINE n == Len(seqs)
           f == Flat(seqs, n)
           T == {m \in 1..n : ~(f[m] \in Seq(S) /\ Placed(seqs, f[m]))}
<1>1. CASE n = 0
  BY <1>1 DEF FlattenSeq, Placed
<1>2. CASE n # 0
  <2>1. FlattenSeq(seqs) = f[n] /\ n \in 1..n
    BY <1>2 DEF FlattenSeq, Flat
  <2>2. \A m \in 1..n : f[m] = IF m = 1 THEN seqs[m] ELSE f[m-1] \o seqs[m]
    <3>2. n \in Nat
      OBVIOUS
    <3>3. PICK g : IsFlat(seqs, n, g)
      BY <3>2, FlatExists
    <3>1. IsFlat(seqs, n, f)
      BY <3>3 DEF Flat, IsFlat
    <3> HIDE DEF f
    <3> QED
      BY <3>1 DEF IsFlat
  <2> HIDE DEF f
  <2>3. ASSUME T # {} PROVE FALSE
    <3>1. PICK m \in T : \A l \in T : m <= l
      <4>1. T \in SUBSET Nat
        OBVIOUS
      <4> HIDE DEF T
      <4> QED
        BY <2>3, <4>1, LeastExists
    <3>2. CASE m = 1
      <4>1. f[m] = seqs[m] /\ m \in DOMAIN seqs /\ seqs[m] \in Seq(S)
        BY <1>2, <2>2, <3>1, <3>2
      <4>2. ASSUME NEW j \in DOMAIN seqs[m]
            PROVE  \A l \in 1..j : j - j + l \in 1..j /\ seqs[m][j - j + l] = seqs[m][l]
        BY <4>1, <4>2
      <4> QED
        BY <3>1, <4>1, <4>2 DEF Placed
    <3>3. CASE m # 1
      <4>1. m - 1 \in 1..n /\ m - 1 \notin T /\ m \in 1..n
        BY <3>1, <3>3
      <4>2. f[m-1] \in Seq(S) /\ Placed(seqs, f[m-1])
        BY <4>1
      <4>3. m \in DOMAIN seqs /\ seqs[m] \in Seq(S)
        BY <4>1
      <4>4. f[m] = f[m-1] \o seqs[m]
        BY <2>2, <3>3, <4>1
      <4>5. f[m] \in Seq(S) /\ Placed(seqs, f[m])
        BY <4>2, <4>3, <4>4, ConcatPlaces
      <4> QED
        BY <3>1, <4>5
    <3> QED
      BY <3>2, <3>3
  <2> QED
    BY <2>1, <2>3
<1> QED
  BY <1>1, <1>2
(***************************************************************************)
(* The items of a payload, in order.                                       *)
(***************************************************************************)

\* What a payload has to say of a row.
ItemOK(i) ==
    i.key \in RowKeys /\ i.type \in Texts /\ i.text \in Texts /\ Hash(i) \in Texts \X Texts

\* A field comes after its model.
LEMMA ItemsAre ==
    ASSUME NEW o, Payload(o)
    PROVE  /\ Len(Items(o)) \in Nat /\ DOMAIN Items(o) = 1..Len(Items(o))
           /\ \A k \in DOMAIN Items(o) : ItemOK(Items(o)[k]) /\ Items(o)[k].key[1] = o.source
           /\ \A j, k \in DOMAIN Items(o) : Items(o)[j].key = Items(o)[k].key => j = k
           /\ \A k \in DOMAIN Items(o) : Len(Items(o)[k].key) = 3 =>
                 \E j \in DOMAIN Items(o) : j < k /\ Items(o)[j].key = <<Items(o)[k].key[1], Items(o)[k].key[2]>>
<1> DEFINE seqs == [k \in DOMAIN o.models |-> ModelItems(o, o.models[k])]
           S == UNION {Range(seqs[k]) : k \in DOMAIN o.models}
           is == Items(o)
<1>1. o.models \in Seq(Range(o.models)) /\ \A m \in Range(o.models) : m.fields \in Seq(Range(m.fields))
  BY DEF Payload
<1>2. ASSUME NEW k \in DOMAIN o.models
      PROVE  /\ seqs[k] \in Seq(S) /\ Len(seqs[k]) >= 1
             /\ seqs[k][1].key = <<o.source, o.models[k].label>>
             /\ \A m \in DOMAIN seqs[k] : m # 1 =>
                   \E name : seqs[k][m].key = <<o.source, o.models[k].label, name>>
  <2> DEFINE m == o.models[k]
             head == <<[key |-> <<o.source, m.label>>, type |-> m.type, text |-> m.text]>>
             tail == [j \in DOMAIN m.fields |-> [key  |-> <<o.source, m.label, m.fields[j].name>>,
                                                 type |-> m.fields[j].type, text |-> m.fields[j].text]]
  <2>1. m \in Range(o.models)
    BY DEF Range
  <2>2. m.fields \in Seq(Range(m.fields))
    BY <1>1, <2>1
  <2>3. seqs[k] = head \o tail
    BY DEF ModelItems
  <2>4. DOMAIN m.fields = 1..Len(m.fields) /\ Len(m.fields) \in Nat
    BY <2>2
  <2> HIDE DEF m, seqs
  <2>5. head \in Seq(Range(head) \cup Range(tail)) /\ Len(head) = 1
    BY DEF Range
  <2>6. tail \in Seq(Range(head) \cup Range(tail)) /\ Len(tail) = Len(m.fields)
    <3>1. DOMAIN tail = 1..Len(m.fields) /\ tail = [j \in DOMAIN tail |-> tail[j]]
      BY <2>4
    <3>2. \A j \in DOMAIN tail : tail[j] \in Range(head) \cup Range(tail)
      BY DEF Range
    <3> HIDE DEF head, tail
    <3> QED
      BY <2>4, <3>1, <3>2, SeqInto
  <2>7. \A j \in DOMAIN tail : tail[j].key = <<o.source, m.label, m.fields[j].name>>
    OBVIOUS
  <2>8. head[1].key = <<o.source, m.label>>
    OBVIOUS
  <2> HIDE DEF head, tail
  <2>9. /\ seqs[k] \in Seq(Range(head) \cup Range(tail)) /\ Len(seqs[k]) = 1 + Len(tail)
        /\ seqs[k][1] = head[1]
        /\ \A j \in 1..Len(tail) : seqs[k][1 + j] = tail[j]
    <3>1. /\ Len(head \o tail) = Len(head) + Len(tail)
          /\ \A j \in 1..Len(head) : (head \o tail)[j] = head[j]
          /\ \A j \in 1..Len(tail) : (head \o tail)[Len(head) + j] = tail[j]
          /\ head \o tail \in Seq(Range(head) \cup Range(tail))
      <4> DEFINE R == Range(head) \cup Range(tail)
      <4>1. head \in Seq(R) /\ tail \in Seq(R)
        BY <2>5, <2>6
      <4> HIDE DEF R
      <4>2. /\ Len(head \o tail) = Len(head) + Len(tail)
            /\ \A j \in 1..Len(head) : (head \o tail)[j] = head[j]
            /\ \A j \in 1..Len(tail) : (head \o tail)[Len(head) + j] = tail[j]
            /\ head \o tail \in Seq(R)
        BY <4>1, ConcatAt
      <4> QED
        BY <4>2 DEF R
    <3> QED
      BY <2>3, <2>5, <3>1
  <2>10. DOMAIN seqs[k] = 1..Len(seqs[k]) /\ DOMAIN tail = 1..Len(tail) /\ Len(tail) \in Nat
    BY <2>6, <2>9
  <2>11. \A j \in DOMAIN seqs[k] : seqs[k][j] \in S
    BY DEF Range
  <2>12. seqs[k] \in Seq(S) /\ Len(seqs[k]) >= 1
    <3> DEFINE s == seqs[k]
               R == Range(head) \cup Range(tail)
    <3>2. s \in Seq(R) /\ Len(s) = 1 + Len(tail) /\ Len(tail) \in Nat
      BY <2>9, <2>10
    <3> HIDE DEF s, R
    <3>3. s = [j \in DOMAIN s |-> s[j]] /\ Len(s) \in Nat /\ Len(s) >= 1
      BY <3>2
    <3>1. seqs[k] = [j \in DOMAIN seqs[k] |-> seqs[k][j]] /\ Len(seqs[k]) \in Nat /\ Len(seqs[k]) >= 1
      BY <3>3 DEF s
    <3> HIDE DEF S
    <3> QED
      BY <2>10, <2>11, <3>1, SeqInto
  <2>13. ASSUME NEW j \in DOMAIN seqs[k], j # 1
         PROVE  \E name : seqs[k][j].key = <<o.source, m.label, name>>
    <3>1. j - 1 \in 1..Len(tail) /\ j = 1 + (j - 1)
      BY <2>9, <2>10, <2>13
    <3>2. seqs[k][j] = tail[j - 1]
      BY <2>9, <3>1
    <3> QED
      BY <2>7, <2>10, <3>1, <3>2
  <2> QED
    BY <2>8, <2>9, <2>12, <2>13 DEF m
<1>3. seqs \in Seq(Seq(S)) /\ DOMAIN seqs = DOMAIN o.models
  <2>1. DOMAIN o.models = 1..Len(o.models) /\ Len(o.models) \in Nat
    BY <1>1
  <2>2. \A k \in 1..Len(o.models) : seqs[k] \in Seq(S)
    BY <1>2, <2>1
  <2>3. seqs = [k \in 1..Len(o.models) |-> seqs[k]] /\ DOMAIN seqs = DOMAIN o.models
    BY <2>1
  <2> HIDE DEF seqs, S
  <2> QED
    BY <2>1, <2>2, <2>3
<1>4. is = FlattenSeq(seqs)
  BY DEF Items
<1> HIDE DEF seqs, S
<1>5. is \in Seq(S) /\ Placed(seqs, is)
  BY <1>3, <1>4, FlattenPlaces
<1>6. Len(is) \in Nat /\ DOMAIN is = 1..Len(is)
  BY <1>5
<1>7. /\ KeysIn(is) \subseteq RowKeys /\ IsInjective([k \in DOMAIN is |-> is[k].key])
      /\ \A k \in DOMAIN is : Hash(is[k]) \in Texts \X Texts
  BY DEF Payload
<1>8. \A k \in DOMAIN is : ItemOK(is[k])
  <2> HIDE DEF is
  <2>1. \A k \in DOMAIN is : is[k].key \in RowKeys
    BY <1>7 DEF KeysIn
  <2>2. \A k \in DOMAIN is : is[k].type \in Texts /\ is[k].text \in Texts
    BY <1>7 DEF Hash
  <2> QED
    BY <1>7, <2>1, <2>2 DEF ItemOK
<1>9. \A j, k \in DOMAIN is : is[j].key = is[k].key => j = k
  <2> HIDE DEF is
  <2> QED
    BY <1>7 DEF IsInjective
<1>10. ASSUME NEW j \in DOMAIN is
       PROVE  /\ is[j].key[1] = o.source
              /\ Len(is[j].key) = 3 =>
                    \E i \in DOMAIN is : i < j /\ is[i].key = <<is[j].key[1], is[j].key[2]>>
  <2> HIDE DEF is
  <2>1. PICK k \in DOMAIN seqs : \E m \in DOMAIN seqs[k] :
            \A l \in 1..m : j - m + l \in 1..j /\ is[j - m + l] = seqs[k][l]
    BY <1>5 DEF Placed
  <2>2. PICK m \in DOMAIN seqs[k] : \A l \in 1..m : j - m + l \in 1..j /\ is[j - m + l] = seqs[k][l]
    BY <2>1
  <2>3. m \in Nat /\ m >= 1 /\ j \in Nat
    BY <1>2, <1>3, <1>6
  <2>4. is[j] = seqs[k][m] /\ j - m + m = j
    BY <2>2, <2>3
  <2>5. CASE m = 1
    <3>1. is[j].key = <<o.source, o.models[k].label>>
      BY <1>2, <1>3, <2>4, <2>5
    <3>2. is[j].key[1] = o.source /\ Len(is[j].key) = 2
      BY <3>1
    <3> QED
      BY <3>2
  <2>6. CASE m # 1
    <3>1. PICK name : seqs[k][m].key = <<o.source, o.models[k].label, name>>
      BY <1>2, <1>3, <2>6
    <3>2. is[j - m + 1] = seqs[k][1] /\ j - m + 1 \in 1..j /\ j - m + 1 < j
      BY <2>2, <2>3, <2>6
    <3>3. is[j - m + 1].key = <<o.source, o.models[k].label>>
      BY <1>2, <1>3, <3>2
    <3>4. is[j].key[1] = o.source /\ is[j].key[2] = o.models[k].label
      BY <2>4, <3>1
    <3>5. j - m + 1 \in DOMAIN is
      BY <1>6, <3>2
    <3> QED
      BY <3>2, <3>3, <3>4, <3>5
  <2> QED
    BY <2>5, <2>6
<1> QED
  BY <1>6, <1>8, <1>9, <1>10
\* The image of a finite set under a function that tells its elements apart has as many
\* elements.
LEMMA SameSize ==
    ASSUME NEW S, NEW T, IsFiniteSet(S), NEW f \in [S -> T],
           \A x, y \in S : f[x] = f[y] => x = y, \A t \in T : \E x \in S : f[x] = t
    PROVE  IsFiniteSet(T) /\ Cardinality(T) = Cardinality(S)
<1>1. f \in Bijection(S, T)
  BY DEF Bijection, Injection, Surjection, IsInjective
<1> QED
  BY <1>1, FS_Bijection DEF ExistsBijection

LEMMA KeyShape ==
    ASSUME NEW k \in RowKeys
    PROVE  /\ \/ Len(k) = 2 /\ k = <<k[1], k[2]>>
              \/ Len(k) = 3 /\ k = <<k[1], k[2], k[3]>>
           /\ k[1] \in SourceKeys /\ k[2] \in ModelLabels /\ <<k[1], k[2]>> \in RowKeys
           /\ Len(<<k[1], k[2]>>) = 2 /\ <<k[1], k[2]>>[1] = k[1] /\ <<k[1], k[2]>>[2] = k[2]
BY DEF RowKeys

LEMMA ItemCounts ==
    ASSUME NEW o, Payload(o)
    PROVE  /\ Sized(Items(o), 2) \in Nat /\ Sized(Items(o), 3) \in Nat
           /\ Sized(Items(o), 2) + Sized(Items(o), 3) = Len(Items(o))
           /\ Sized(<<>>, 2) = 0 /\ Sized(<<>>, 3) = 0
           /\ IsFiniteSet(KeysIn(Items(o)))
<1> DEFINE is == Items(o)
           two == {k \in DOMAIN is : Len(is[k].key) = 2}
           three == {k \in DOMAIN is : Len(is[k].key) = 3}
<1>1. /\ Len(is) \in Nat /\ DOMAIN is = 1..Len(is) /\ \A k \in DOMAIN is : is[k].key \in RowKeys
      /\ \A j, k \in DOMAIN is : is[j].key = is[k].key => j = k
  BY ItemsAre DEF ItemOK
<1>2. Sized(is, 2) = Cardinality(two) /\ Sized(is, 3) = Cardinality(three)
  BY DEF Sized
<1> HIDE DEF is
<1>3. IsFiniteSet(DOMAIN is) /\ Cardinality(DOMAIN is) = Len(is)
  <2> DEFINE n == Len(is)
  <2>1. n \in Int /\ 1 \in Int /\ n >= 0 /\ DOMAIN is = 1..n
    BY <1>1
  <2> HIDE DEF n
  <2>2. IsFiniteSet(1..n) /\ Cardinality(1..n) = IF 1 > n THEN 0 ELSE n - 1 + 1
    BY <2>1, FS_Interval
  <2>3. (IF 1 > n THEN 0 ELSE n - 1 + 1) = n
    BY <2>1
  <2> QED
    BY <2>1, <2>2, <2>3 DEF n
<1>4. two \cup three = DOMAIN is /\ two \cap three = {}
  <2>1. \A k \in DOMAIN is : Len(is[k].key) \in {2, 3}
    BY <1>1, KeyShape
  <2> QED
    BY <2>1
<1>5. IsFiniteSet(two) /\ IsFiniteSet(three)
  BY <1>3, FS_Subset
<1> HIDE DEF two, three
<1>6. Cardinality(two) \in Nat /\ Cardinality(three) \in Nat
  BY <1>5, FS_CardinalityType
<1>7. Cardinality(DOMAIN is) = Cardinality(two) + Cardinality(three) - Cardinality({})
  BY <1>4, <1>5, FS_Union
<1>8. Cardinality(two) + Cardinality(three) = Len(is)
  BY <1>3, <1>6, <1>7, FS_EmptySet
<1>9. Sized(<<>>, 2) = 0 /\ Sized(<<>>, 3) = 0
  <2>1. \A n \in Nat : {k \in DOMAIN <<>> : Len(<<>>[k].key) = n} = {}
    OBVIOUS
  <2> QED
    BY <2>1, FS_EmptySet DEF Sized
<1>10. IsFiniteSet(KeysIn(is))
  <2> DEFINE f == [k \in DOMAIN is |-> is[k].key]
  <2>1. f \in [DOMAIN is -> KeysIn(is)] /\ \A t \in KeysIn(is) : \E x \in DOMAIN is : f[x] = t
    BY DEF KeysIn
  <2>2. \A x, y \in DOMAIN is : f[x] = f[y] => x = y
    BY <1>1
  <2> HIDE DEF f
  <2> QED
    BY <1>3, <2>1, <2>2, SameSize
<1> QED
  BY <1>2, <1>6, <1>8, <1>9, <1>10 DEF is

(***************************************************************************)
(* Rows, and what is assigned to them.                                     *)
(***************************************************************************)

LEMMA OverIs ==
    ASSUME NEW t, NEW u
    PROVE  /\ DOMAIN Over(t, u) = DOMAIN t \cup DOMAIN u
           /\ \A k \in DOMAIN t : Over(t, u)[k] = t[k]
           /\ \A k \in DOMAIN u : k \notin DOMAIN t => Over(t, u)[k] = u[k]
BY DEF Over

LEMMA WantedRow ==
    ASSUME NEW i, ItemOK(i)
    PROVE  /\ RowOK(Wanted(i)) /\ Wanted(i).is_active = TRUE
           /\ Wanted(i).type = i.type /\ Wanted(i).text = i.text /\ Wanted(i).hash = Hash(i)
           /\ Wanted(i).hash = Hash(Wanted(i))
BY DEF ItemOK, RowOK, Wanted, Hash

LEMMA AssignRow ==
    ASSUME NEW row, RowOK(row), NEW set, SetOK(set)
    PROVE  RowOK(Assign(row, set))
<1> DEFINE new == Assign(row, set)
<1>1. DOMAIN new = {"type", "text", "hash", "is_active"} /\ \A c \in DOMAIN new :
          new[c] = IF c \in DOMAIN set THEN set[c] ELSE row[c]
  BY DEF Assign, RowOK
<1>2. new["type"] \in Texts /\ new["text"] \in Texts /\ new["hash"] \in Texts \X Texts
  BY <1>1 DEF RowOK, SetOK
<1>3. new["is_active"] \in BOOLEAN
  BY <1>1 DEF RowOK, SetOK
<1> QED
  BY <1>1, <1>2, <1>3 DEF RowOK

LEMMA UpdatesAre ==
    ASSUME NEW seen, NEW is, \A i \in is : ItemOK(i), \A i, j \in is : i.key = j.key => i = j
    PROVE  /\ DOMAIN Updates(seen, is) \subseteq {i.key : i \in is}
           /\ \A k \in DOMAIN Updates(seen, is) : SetOK(Updates(seen, is)[k])
           /\ \A i \in is : i.key \in DOMAIN Updates(seen, is) <=> ~Unchanged(seen[i.key], i)
           /\ \A i \in is : ~Unchanged(seen[i.key], i) =>
                 Updates(seen, is)[i.key] = [c \in Dirty(seen[i.key], Wanted(i)) |-> Wanted(i)[c]]
<1> DEFINE item(k) == CHOOSE i \in is : i.key = k
           dom == {i.key : i \in {j \in is : ~Unchanged(seen[j.key], j)}}
<1>1. Updates(seen, is) = [k \in dom |-> [c \in Dirty(seen[k], Wanted(item(k))) |-> Wanted(item(k))[c]]]
  BY DEF Updates
<1>2. \A i \in is : item(i.key) = i
  OBVIOUS
<1>3. dom \subseteq {i.key : i \in is} /\ \A k \in dom : \E i \in is : k = i.key /\ ~Unchanged(seen[i.key], i)
  OBVIOUS
<1>4. \A i \in is : i.key \in dom <=> ~Unchanged(seen[i.key], i)
  OBVIOUS
<1> HIDE DEF item, dom
<1>5. \A i \in is : SetOK([c \in Dirty(seen[i.key], Wanted(i)) |-> Wanted(i)[c]])
  <2> SUFFICES ASSUME NEW i \in is PROVE SetOK([c \in Dirty(seen[i.key], Wanted(i)) |-> Wanted(i)[c]])
    OBVIOUS
  <2> DEFINE set == [c \in Dirty(seen[i.key], Wanted(i)) |-> Wanted(i)[c]]
  <2>1. DOMAIN set \subseteq DOMAIN Wanted(i) /\ \A c \in DOMAIN set : set[c] = Wanted(i)[c]
    BY DEF Dirty
  <2> HIDE DEF set
  <2>2. /\ DOMAIN Wanted(i) = {"type", "text", "hash", "is_active"}
        /\ Wanted(i)["type"] \in Texts /\ Wanted(i)["text"] \in Texts /\ Wanted(i)["hash"] \in Texts \X Texts
        /\ Wanted(i)["is_active"] \in BOOLEAN
    BY WantedRow DEF RowOK
  <2> QED
    BY <2>1, <2>2 DEF SetOK, set
<1> QED
  BY <1>1, <1>2, <1>3, <1>4, <1>5

LEMMA OffIs ==
    ASSUME NEW r, NEW keys
    PROVE  /\ DOMAIN Off(r, keys) \subseteq keys
           /\ \A k \in keys : k \in DOMAIN Off(r, keys) <=> (k \notin DOMAIN req[r].seen \/ req[r].seen[k].is_active)
           /\ \A k \in DOMAIN Off(r, keys) :
                 SetOK(Off(r, keys)[k]) /\ DOMAIN Off(r, keys)[k] = {"is_active"} /\ Off(r, keys)[k].is_active = FALSE
<1> DEFINE dom == {j \in keys : j \notin DOMAIN req[r].seen \/ req[r].seen[j].is_active}
<1>1. Off(r, keys) = [k \in dom |-> [is_active |-> FALSE]]
  BY DEF Off
<1>2. \A k \in keys : k \in dom <=> (k \notin DOMAIN req[r].seen \/ req[r].seen[k].is_active)
  OBVIOUS
<1>3. dom \subseteq keys
  OBVIOUS
<1>4. SetOK([is_active |-> FALSE])
  <2> DEFINE set == [is_active |-> FALSE]
  <2>1. DOMAIN set = {"is_active"} /\ set["is_active"] \in BOOLEAN
    OBVIOUS
  <2> HIDE DEF set
  <2>2. \A c \in DOMAIN set : c # "hash" /\ c = "is_active"
    BY <2>1
  <2>3. \A c \in DOMAIN set : set[c] \in (IF c = "hash" THEN Texts \X Texts
                                           ELSE IF c = "is_active" THEN BOOLEAN ELSE Texts)
    BY <2>1, <2>2
  <2>4. SetOK(set)
    BY <2>1, <2>3 DEF SetOK
  <2> QED
    BY <2>4 DEF set
<1> HIDE DEF dom
<1> QED
  BY <1>1, <1>2, <1>3, <1>4

LEMMA WrittenIs ==
    ASSUME NEW view, NEW ups, DOMAIN ups \subseteq DOMAIN view,
           \A k \in DOMAIN view : RowOK(view[k]), \A k \in DOMAIN ups : SetOK(ups[k])
    PROVE  /\ DOMAIN Written(view, ups) = DOMAIN ups
           /\ \A k \in DOMAIN ups : RowOK(Written(view, ups)[k])
<1>1. DOMAIN Written(view, ups) = DOMAIN ups /\ \A k \in DOMAIN ups : Written(view, ups)[k] = Assign(view[k], ups[k])
  BY DEF Written
<1> QED
  BY <1>1, AssignRow

\* The first item that is new.
LEMMA NextNewIs ==
    ASSUME NEW r, Payload(req[r].op), req[r].at \in 0..Len(Items(req[r].op))
    PROVE  LET n == NextNew(r)  is == Items(req[r].op) IN
           /\ n \in Nat /\ req[r].at < n /\ n <= Len(is) + 1
           /\ \A k \in DOMAIN is : req[r].at < k /\ k < n => is[k].key \in DOMAIN req[r].seen
           /\ n <= Len(is) => n \in DOMAIN is /\ is[n].key \notin DOMAIN req[r].seen
<1> DEFINE is == Items(req[r].op)
           at == req[r].at
           new == {k \in DOMAIN is : k > at /\ is[k].key \notin DOMAIN req[r].seen}
<1>1. NextNew(r) = IF new = {} THEN Len(is) + 1 ELSE CHOOSE k \in new : \A l \in new : k <= l
  BY DEF NextNew
<1>2. Len(is) \in Nat /\ DOMAIN is = 1..Len(is) /\ at \in Nat /\ at <= Len(is)
  BY ItemsAre
<1> HIDE DEF is, at
<1>3. new \in SUBSET Nat
  BY <1>2
<1>4. \A k \in DOMAIN is : k \in new <=> k > at /\ is[k].key \notin DOMAIN req[r].seen
  OBVIOUS
<1>5. \A k \in new : k \in DOMAIN is
  OBVIOUS
<1> HIDE DEF new
<1>6. CASE new = {}
  BY <1>1, <1>2, <1>4, <1>6 DEF is, at
<1>7. CASE new # {}
  <2>1. PICK k \in new : \A l \in new : k <= l
    BY <1>3, <1>7, LeastExists
  <2>2. NextNew(r) \in new /\ \A l \in new : NextNew(r) <= l
    BY <1>1, <1>7, <2>1
  <2> HIDE DEF NextNew
  <2>3. NextNew(r) \in DOMAIN is /\ NextNew(r) > at /\ is[NextNew(r)].key \notin DOMAIN req[r].seen
    BY <1>4, <1>5, <2>2
  <2>4. \A l \in DOMAIN is : at < l /\ l < NextNew(r) => is[l].key \in DOMAIN req[r].seen
    BY <1>2, <1>4, <2>2, <2>3
  <2> QED
    BY <1>2, <2>3, <2>4 DEF is, at
<1> QED
  BY <1>6, <1>7
(***************************************************************************)
(* Types.                                                                  *)
(***************************************************************************)

Typed == TypeOK /\ EndedOnce /\ Fitting

LEMMA NothingIs == DOMAIN Nothing = {}
BY DEF Nothing

LEMMA DoneIsReq ==
    ASSUME NEW code \in {200, 500}
    PROVE  ReqOK(Done(code)) /\ Done(code).pc = "done" /\ ~Done(code).late
BY NothingIs DEF Done, Idle, ReqOK, Stages

\* A request stays what it is when others commit.
LEMMA ReqStays ==
    ASSUME NEW q, ReqOK(q), NEW late \in BOOLEAN,
           \A n \in DOMAIN runs : n \in DOMAIN runs' /\ runs'[n] = runs[n]
    PROVE  ReqOK([q EXCEPT !.late = late])' /\ ReqOK(q)'
<1> DEFINE p == [q EXCEPT !.late = late]
<1>1. /\ DOMAIN p = DOMAIN q /\ p.pc = q.pc /\ p.op = q.op /\ p.found = q.found /\ p.held = q.held
      /\ p.at = q.at /\ p.seen = q.seen /\ p.tx = q.tx /\ p.ups = q.ups /\ p.code = q.code
  BY DEF ReqOK, Idle
<1>2. p.late \in BOOLEAN
  BY DEF ReqOK, Idle
<1> HIDE DEF p
<1>3. q.held # NULL => LastOK(runs', q.op.source, q.held.last)
  BY DEF ReqOK, LastOK
<1>4. ReqOK(q)'
  BY <1>3 DEF ReqOK
<1>5. ReqOK(p)'
  BY <1>1, <1>2, <1>3 DEF ReqOK
<1> QED
  BY <1>4, <1>5 DEF p

LEMMA HandsStay ==
    ASSUME NEW q, NEW t, NEW ss, NEW u, NEW vs, ReqOK(q), HandsFit(q, t, ss),
           DOMAIN t \subseteq DOMAIN u, DOMAIN ss \subseteq DOMAIN vs
    PROVE  HandsFit([q EXCEPT !.late = TRUE], u, vs) /\ HandsFit(q, u, vs)
<1> DEFINE p == [q EXCEPT !.late = TRUE]
<1>1. /\ p.pc = q.pc /\ p.op = q.op /\ p.found = q.found /\ p.held = q.held
      /\ p.at = q.at /\ p.seen = q.seen /\ p.tx = q.tx /\ p.ups = q.ups
  BY DEF ReqOK, Idle
<1> HIDE DEF p
<1>2. DOMAIN Over(q.tx, t) \subseteq DOMAIN Over(q.tx, u)
  <2>1. DOMAIN Over(q.tx, t) = DOMAIN q.tx \cup DOMAIN t /\ DOMAIN Over(q.tx, u) = DOMAIN q.tx \cup DOMAIN u
    BY DEF Over
  <2> QED
    BY <2>1
<1>3. HandsFit(q, u, vs)
  BY <1>2 DEF HandsFit
<1>4. HandsFit(p, u, vs)
  BY <1>1, <1>3 DEF HandsFit
<1> QED
  BY <1>3, <1>4 DEF p

LEMMA GoesTyped ==
    ASSUME Typed, NEW r \in Requests, r \notin DOMAIN runs, NEW q, Goes(r, q), ReqOK(q),
           q.pc \notin {"idle", "done"} => HandsFit(q, rows, sources)
    PROVE  Typed'
<1>1. /\ sources' = sources /\ rows' = rows /\ runs' = runs /\ raced' = raced
      /\ DOMAIN req' = Requests /\ req'[r] = q /\ \A s \in Requests \ {r} : req'[s] = req[s]
  BY DEF Goes, Typed, TypeOK
<1>2. SourcesOK' /\ RowsOK' /\ RunsOK'
  BY <1>1 DEF Typed, TypeOK, SourcesOK, RowsOK, RunsOK
<1>3. \A s \in Requests : ReqOK(req'[s])
  BY <1>1 DEF Typed, TypeOK
<1>4. \A s \in Requests : ReqOK(req[s])'
  BY <1>1, <1>3 DEF ReqOK
<1>5. EndedOnce'
  BY <1>1 DEF Typed, EndedOnce
<1>6. Fitting'
  BY <1>1 DEF Typed, Fitting, Open
<1> QED
  BY <1>1, <1>2, <1>4, <1>5, <1>6 DEF Typed, TypeOK

\* What a commit stores fits: the run, its source, and the rows.
LEMMA CommitTyped ==
    ASSUME Typed, NEW r \in Requests, Open(r), NEW code \in {200, 500}, req' = Answer(r, code),
           NEW run, RunOK(run), runs' = Put(runs, r, run), run.source \in DOMAIN sources',
           SourcesOK', RowsOK', raced' \in BOOLEAN,
           DOMAIN sources \subseteq DOMAIN sources', DOMAIN rows \subseteq DOMAIN rows'
    PROVE  Typed'
<1>1. r \notin DOMAIN runs
  BY DEF Typed, EndedOnce, Open
<1>2. /\ DOMAIN runs' = DOMAIN runs \cup {r} /\ runs'[r] = run
      /\ \A n \in DOMAIN runs : n \in DOMAIN runs' /\ runs'[n] = runs[n]
  BY <1>1 DEF Put
<1>3. /\ DOMAIN req' = Requests /\ req'[r] = Done(code)
      /\ \A s \in Requests \ {r} : req'[s] = IF Open(s) THEN [req[s] EXCEPT !.late = TRUE] ELSE req[s]
  BY DEF Answer
<1>4. \A s \in Requests : ReqOK(req[s])
  BY DEF Typed, TypeOK
<1>5. ASSUME NEW s \in Requests PROVE ReqOK(req[s])'
  <2>1. CASE s = r
    <3>1. ReqOK(Done(code))' /\ req'[s] = Done(code)
      BY <1>3, <2>1, NothingIs DEF Done, Idle, ReqOK, Stages
    <3> QED
      BY <3>1 DEF ReqOK
  <2>2. CASE s # r
    <3> DEFINE q == req[s]
               p == [q EXCEPT !.late = TRUE]
    <3>1. ASSUME NEW x, x = q PROVE ReqOK(x)' /\ ReqOK([x EXCEPT !.late = TRUE])'
      BY <1>2, <1>4, <3>1, ReqStays, ZenonT(60)
    <3>2. PICK x : x = q
      OBVIOUS
    <3>3. ReqOK(x)' /\ ReqOK([x EXCEPT !.late = TRUE])'
      BY <3>1, <3>2
    <3>4. req'[s] = x \/ req'[s] = [x EXCEPT !.late = TRUE]
      BY <1>3, <2>2, <3>2
    <3>5. CASE req'[s] = x
      BY <3>3, <3>5 DEF ReqOK
    <3>6. CASE req'[s] = [x EXCEPT !.late = TRUE]
      <4> DEFINE y == [x EXCEPT !.late = TRUE]
      <4>1. ReqOK(y)' /\ req'[s] = y
        BY <3>3, <3>6
      <4> HIDE DEF y
      <4> QED
        BY <4>1 DEF ReqOK
    <3> QED
      BY <3>4, <3>5, <3>6
  <2> QED
    BY <2>1, <2>2
<1>6. RunsOK'
  BY <1>2 DEF Typed, TypeOK, RunsOK
<1>7. EndedOnce'
  <2>1. IsFiniteSet(DOMAIN runs')
    BY <1>2, FS_AddElement DEF Typed, EndedOnce
  <2>2. ASSUME NEW n \in DOMAIN runs' \cap Requests PROVE req'[n].pc = "done"
    <3>1. CASE n = r
      BY <1>3, <3>1, DoneIsReq
    <3>2. CASE n # r
      <4>1. req[n].pc = "done"
        BY <1>2, <3>2 DEF Typed, EndedOnce
      <4> QED
        BY <1>3, <3>2, <4>1 DEF Open
    <3> QED
      BY <3>1, <3>2
  <2> QED
    BY <2>1, <2>2 DEF EndedOnce
<1>8. Fitting'
  <2>1. ASSUME NEW s \in Requests, req'[s].pc \notin {"idle", "done"} PROVE HandsFit(req'[s], rows', sources')
    <3>1. s # r
      BY <1>3, <2>1, DoneIsReq
    <3>2. Open(s)
      BY <1>3, <2>1, <3>1 DEF Open
    <3>3. HandsFit(req[s], rows, sources) /\ ReqOK(req[s]) /\ req'[s] = [req[s] EXCEPT !.late = TRUE]
      BY <1>3, <1>4, <3>1, <3>2 DEF Typed, Fitting
    <3>4. ASSUME NEW q, NEW t, NEW ss, NEW u, NEW vs,
                 q = req[s], t = rows, ss = sources, u = rows', vs = sources'
          PROVE  HandsFit([q EXCEPT !.late = TRUE], u, vs)
      <4>1. /\ ReqOK(q) /\ HandsFit(q, t, ss) 
            /\ DOMAIN t \subseteq DOMAIN u /\ DOMAIN ss \subseteq DOMAIN vs
        BY <3>3, <3>4
      <4> QED
        BY <4>1, HandsStay
    <3> QED
      BY <3>3, <3>4
  <2> QED
    BY <2>1 DEF Fitting, Open
<1> QED
  BY <1>3, <1>5, <1>6, <1>7, <1>8 DEF Typed, TypeOK
LEMMA OpIs ==
    ASSUME Typed, NEW r \in Requests, Open(r)
    PROVE  /\ Payload(req[r].op) /\ req[r].op \in Posts /\ req[r].op.source \in SourceKeys
           /\ req[r].op.info \in Infos
           /\ req[r].at \in 0..Len(Items(req[r].op)) /\ r \notin DOMAIN runs
           /\ HandsFit(req[r], rows, sources) /\ ReqOK(req[r])
<1>1. req[r].pc \notin {"idle", "done"} /\ ReqOK(req[r]) /\ HandsFit(req[r], rows, sources)
  BY DEF Open, Typed, TypeOK, Fitting
<1>2. req[r].op \in Posts /\ req[r].at \in 0..Len(Items(req[r].op))
  BY <1>1 DEF ReqOK
<1>3. Payload(req[r].op)
  BY <1>2, OpsAssumption DEF Posts
<1>4. r \notin DOMAIN runs
  BY <1>1 DEF Typed, EndedOnce
<1> QED
  BY <1>1, <1>2, <1>3, <1>4 DEF Payload

LEMMA ViewIs ==
    ASSUME Typed, NEW r \in Requests, Open(r)
    PROVE  /\ DOMAIN View(r) = DOMAIN req[r].tx \cup DOMAIN rows
           /\ \A k \in DOMAIN View(r) : /\ k \in RowKeys /\ RowOK(View(r)[k])
                                        /\ Len(k) = 3 => <<k[1], k[2]>> \in DOMAIN View(r)
<1>1. ReqOK(req[r]) /\ HandsFit(req[r], rows, sources) /\ RowsOK
  BY OpIs DEF Typed, TypeOK
<1>2. DOMAIN View(r) = DOMAIN req[r].tx \cup DOMAIN rows /\ View(r) = Over(req[r].tx, rows)
  BY DEF View, Over
<1>3. \A k \in DOMAIN View(r) : View(r)[k] = IF k \in DOMAIN req[r].tx THEN req[r].tx[k] ELSE rows[k]
  BY DEF View, Over
<1>4. \A k \in DOMAIN req[r].tx : k \in RowKeys /\ RowOK(req[r].tx[k])
  BY <1>1 DEF ReqOK
<1>5. \A k \in DOMAIN req[r].tx : Len(k) = 3 => <<k[1], k[2]>> \in DOMAIN View(r)
  BY <1>1, <1>2 DEF HandsFit
<1>6. \A k \in DOMAIN rows : k \in RowKeys /\ RowOK(rows[k]) /\ (Len(k) = 3 => <<k[1], k[2]>> \in DOMAIN rows)
  BY <1>1 DEF RowsOK
<1> QED
  BY <1>2, <1>3, <1>4, <1>5, <1>6

\* The items that are handled next were read.
LEMMA BeforeIs ==
    ASSUME Typed, NEW r \in Requests, Open(r)
    PROVE  /\ \A i \in Before(r, NextNew(r)) : ItemOK(i) /\ i.key \in DOMAIN req[r].seen
           /\ \A i, j \in Before(r, NextNew(r)) : i.key = j.key => i = j
           /\ LET ups == Updates(req[r].seen, Before(r, NextNew(r))) IN
              /\ DOMAIN ups \subseteq DOMAIN req[r].seen /\ \A k \in DOMAIN ups : SetOK(ups[k])
<1> DEFINE n == NextNew(r)
           is == Items(req[r].op)
           at == req[r].at
<1>1. Payload(req[r].op) /\ at \in 0..Len(is)
  BY OpIs
<1>2. Len(is) \in Nat /\ DOMAIN is = 1..Len(is) /\ \A k \in DOMAIN is : ItemOK(is[k])
  BY <1>1, ItemsAre
<1>3. \A j, k \in DOMAIN is : is[j].key = is[k].key => j = k
  BY <1>1, ItemsAre
<1>4. n \in Nat /\ n <= Len(is) + 1 /\ \A k \in DOMAIN is : at < k /\ k < n => is[k].key \in DOMAIN req[r].seen
  BY <1>1, NextNewIs
<1>5. Before(r, n) = {is[k] : k \in at + 1 .. n - 1}
  BY DEF Before
<1> HIDE DEF n, is, at
<1>6. \A k \in at + 1 .. n - 1 : k \in DOMAIN is /\ at < k /\ k < n
  BY <1>1, <1>2, <1>4
<1>7. /\ \A i \in Before(r, n) : ItemOK(i) /\ i.key \in DOMAIN req[r].seen
      /\ \A i, j \in Before(r, n) : i.key = j.key => i = j
  BY <1>2, <1>3, <1>4, <1>5, <1>6
<1>8. /\ DOMAIN Updates(req[r].seen, Before(r, n)) \subseteq {i.key : i \in Before(r, n)}
      /\ \A k \in DOMAIN Updates(req[r].seen, Before(r, n)) : SetOK(Updates(req[r].seen, Before(r, n))[k])
  BY <1>7, UpdatesAre
<1> QED
  BY <1>7, <1>8 DEF n

LEMMA FindTyped ==
    ASSUME Typed, NEW r \in Requests, NEW o \in Ops[r], Find(r, o)
    PROVE  Typed'
<1> DEFINE found == IF o.source \in DOMAIN sources THEN sources[o.source] ELSE NULL
           q == [Idle EXCEPT !.pc = "entering", !.op = o, !.found = found]
<1>1. o \in Posts /\ Payload(o)
  BY OpsAssumption DEF Posts
<1>2. found # NULL => SourceOK(found) /\ o.source \in DOMAIN sources
  BY DEF Typed, TypeOK, SourcesOK
<1>3. Goes(r, q) /\ req[r].pc = "idle"
  BY DEF Find
<1> HIDE DEF found
<1>4. /\ DOMAIN q = DOMAIN Idle /\ q.pc = "entering" /\ q.op = o /\ q.found = found /\ q.held = NULL /\ q.at = 0
      /\ q.seen = Nothing /\ q.ups = Nothing /\ q.tx = Nothing /\ q.code = NULL /\ q.late = FALSE
  BY DEF Idle
<1> HIDE DEF q
<1>5. Len(Items(o)) \in Nat
  BY <1>1, ItemsAre
<1>6. ReqOK(q)
  <2>1. q.pc \in Stages /\ q.code \in {NULL, 200, 500} /\ q.late \in BOOLEAN
    BY <1>4 DEF Stages
  <2>2. q.at \in 0..(IF q.pc \in {"idle", "done"} THEN 0 ELSE Len(Items(q.op)))
    BY <1>4, <1>5
  <2>3. DOMAIN q.seen = {} /\ DOMAIN q.tx = {} /\ DOMAIN q.ups = {}
    BY <1>4, NothingIs
  <2> QED
    BY <1>1, <1>2, <1>4, <2>1, <2>2, <2>3 DEF ReqOK
<1>7. HandsFit(q, rows, sources)
  BY <1>2, <1>4, NothingIs DEF HandsFit
<1>8. r \notin DOMAIN runs
  BY <1>3 DEF Typed, EndedOnce
<1> QED
  BY <1>3, <1>6, <1>7, <1>8, GoesTyped

LEMMA InfosAre ==
    ASSUME NEW i, NEW j \in Infos, NEW k \in Infos
    PROVE  LET columns == Dirty(i, j)
               new     == Assign(k, [c \in columns |-> j[c]])
           IN  /\ new \in Infos /\ columns \subseteq DOMAIN j
               /\ new = Book!Mixed(j, k, columns)
               /\ k = i => new = j
<1> DEFINE columns == Dirty(i, j)
           new     == Assign(k, [c \in columns |-> j[c]])
<1>1. DOMAIN j = InfoColumns /\ DOMAIN k = InfoColumns /\ \A c \in InfoColumns : j[c] \in Words /\ k[c] \in Words
  BY DEF Infos
<1>2. columns = {c \in InfoColumns : j[c] # i[c]}
  BY <1>1 DEF Dirty
<1>3. new = [c \in InfoColumns |-> IF c \in columns THEN j[c] ELSE k[c]]
  BY <1>1 DEF Assign
<1>4. Book!Mixed(j, k, columns) = [c \in InfoColumns |-> IF c \in columns THEN j[c] ELSE k[c]]
  BY <1>1 DEF Book!Mixed
<1>5. j = [c \in InfoColumns |-> j[c]]
  BY DEF Infos
<1> HIDE DEF columns, new
<1>6. new \in Infos
  BY <1>1, <1>3 DEF Infos
<1>7. ASSUME k = i PROVE new = j
  BY <1>1, <1>2, <1>3, <1>5, <1>7
<1> QED
  BY <1>1, <1>2, <1>3, <1>4, <1>6, <1>7 DEF columns, new

LEMMA RenamedIs ==
    ASSUME NEW row, SourceOK(row), NEW found, NEW o, o.info \in Infos
    PROVE  LET new == Renamed(row, found, o) IN
           /\ SourceOK(new) /\ new.last = row.last /\ new # NULL
           /\ row = found => new.info = o.info
           /\ \E columns \in SUBSET DOMAIN o.info : new.info = Book!Mixed(o.info, row.info, columns)
<1> DEFINE columns == Dirty(found.info, o.info)
           info == Assign(row.info, [c \in columns |-> o.info[c]])
           new == [info |-> info, last |-> row.last]
<1>1. row.info \in Infos /\ row.last \in Nat \cup {NULL}
  BY DEF SourceOK
<1>2. /\ info \in Infos /\ columns \subseteq DOMAIN o.info
      /\ info = Book!Mixed(o.info, row.info, columns)
      /\ row.info = found.info => info = o.info
  BY <1>1, InfosAre
<1>3. Renamed(row, found, o) = new
  BY DEF Renamed
<1> HIDE DEF info, columns
<1>4. /\ DOMAIN new = {"info", "last"} /\ new.info = info /\ new.last = row.last
      /\ new \in [info : Infos, last : Nat \cup {NULL}]
  BY <1>1, <1>2
<1>5. SourceOK(new) /\ new # NULL
  BY <1>1, <1>2, <1>4, NullAssumption DEF SourceOK
<1> QED
  BY <1>2, <1>3, <1>4, <1>5

LEMMA CreatedIs ==
    ASSUME NEW o, o.info \in Infos
    PROVE  SourceOK(Created(o)) /\ Created(o).last = NULL /\ Created(o).info = o.info /\ Created(o) # NULL
BY NullAssumption DEF Created, SourceOK

\* What an open request goes on with.
LEMMA ProceedsTyped ==
    ASSUME Typed, NEW r \in Requests, Open(r), NEW q, Goes(r, q), DOMAIN q = DOMAIN req[r],
           q.pc \in Stages \ {"idle", "done", "entering"}, q.op = req[r].op, q.found = req[r].found,
           q.code = req[r].code, q.late = req[r].late,
           q.held # NULL => SourceOK(q.held) /\ LastOK(runs, q.op.source, q.held.last),
           q.at \in 0..Len(Items(q.op)),
           DOMAIN q.seen \cup DOMAIN q.tx \cup DOMAIN q.ups \subseteq RowKeys,
           \A k \in DOMAIN q.seen : RowOK(q.seen[k]), \A k \in DOMAIN q.tx : RowOK(q.tx[k]),
           \A k \in DOMAIN q.ups : SetOK(q.ups[k]), HandsFit(q, rows, sources)
    PROVE  Typed'
<1>1. ReqOK(req[r]) /\ r \notin DOMAIN runs /\ req[r].op \in Posts
  BY OpIs
<1>2. ReqOK(q)
  BY <1>1 DEF ReqOK
<1> QED
  BY <1>1, <1>2, GoesTyped

LEMMA DoneTyped ==
    ASSUME Typed, NEW r \in Requests, Open(r), NEW code \in {200, 500}, Goes(r, Done(code))
    PROVE  Typed'
<1>1. r \notin DOMAIN runs
  BY OpIs
<1> DEFINE q == Done(code)
<1>2. ReqOK(q) /\ q.pc = "done" /\ Goes(r, q)
  BY DoneIsReq
<1> HIDE DEF q
<1> QED
  BY <1>1, <1>2, GoesTyped

LEMMA EnterTyped ==
    ASSUME Typed, NEW r \in Requests, Enter(r)
    PROVE  Typed'
<1> DEFINE o == req[r].op
           in == [req[r] EXCEPT !.pc = "reading"]
<1>1. Open(r) /\ req[r].pc = "entering"
  BY DEF Enter, Open
<1>2. /\ Payload(o) /\ ReqOK(req[r]) /\ HandsFit(req[r], rows, sources) /\ o.info \in Infos
      /\ req[r].at \in 0..Len(Items(o))
  BY <1>1, OpIs
<1>3. /\ req[r].tx = Nothing /\ req[r].ups = Nothing /\ req[r].seen = Nothing /\ req[r].at = 0 /\ req[r].held = NULL
      /\ req[r].found # NULL => o.source \in DOMAIN sources
  BY <1>1, <1>2 DEF HandsFit
<1>4. ASSUME NEW held, Goes(r, [in EXCEPT !.held = held]), held # NULL \/ o.source \in DOMAIN sources,
             held # NULL => SourceOK(held) /\ LastOK(runs, o.source, held.last)
      PROVE  Typed'
  <2> DEFINE q == [in EXCEPT !.held = held]
  <2>1. /\ DOMAIN q = DOMAIN req[r] /\ q.pc = "reading" /\ q.op = o /\ q.found = req[r].found /\ q.held = held
        /\ q.at = 0 /\ q.seen = Nothing /\ q.ups = Nothing /\ q.tx = Nothing
        /\ q.code = req[r].code /\ q.late = req[r].late
    BY <1>2, <1>3 DEF ReqOK, Idle
  <2>2. Goes(r, q)
    BY <1>4
  <2> HIDE DEF q
  <2>3. HandsFit(q, rows, sources)
    BY <1>4, <2>1, NothingIs DEF HandsFit
  <2>4. q.pc \in Stages \ {"idle", "done", "entering"}
    BY <2>1 DEF Stages
  <2>5. q.at \in 0..Len(Items(q.op))
    BY <1>2, <1>3, <2>1
  <2>6. DOMAIN q.seen = {} /\ DOMAIN q.tx = {} /\ DOMAIN q.ups = {}
    BY <2>1, NothingIs
  <2> QED
    BY <1>1, <1>4, <2>1, <2>2, <2>3, <2>4, <2>5, <2>6, ProceedsTyped
<1>5. CASE Goes(r, Done(500))
  BY <1>1, <1>5, DoneTyped
<1>6. CASE Goes(r, [in EXCEPT !.held = Created(o)])
  BY <1>2, <1>4, <1>6, CreatedIs DEF LastOK
<1>7. CASE Goes(r, in) /\ req[r].found # NULL
  <2>1. in = [in EXCEPT !.held = NULL]
    BY <1>2, <1>3, ZenonT(60) DEF ReqOK, Idle
  <2> QED
    BY <1>3, <1>4, <1>7, <2>1
<1>8. CASE Goes(r, [in EXCEPT !.held = Renamed(sources[o.source], req[r].found, o)]) /\ req[r].found # NULL
  <2>1. SourceOK(sources[o.source]) /\ LastOK(runs, o.source, sources[o.source].last)
    BY <1>3, <1>8 DEF Typed, TypeOK, SourcesOK
  <2> DEFINE held == Renamed(sources[o.source], req[r].found, o)
  <2>2. SourceOK(held) /\ held.last = sources[o.source].last
    BY <1>2, <2>1, RenamedIs
  <2>3. Goes(r, [in EXCEPT !.held = held]) /\ o.source \in DOMAIN sources
    BY <1>3, <1>8
  <2> HIDE DEF held
  <2> QED
    BY <1>4, <2>1, <2>2, <2>3
<1> QED
  BY <1>5, <1>6, <1>7, <1>8 DEF Enter
LEMMA ReadEntitiesTyped ==
    ASSUME Typed, NEW r \in Requests, ReadEntities(r)
    PROVE  Typed'
<1> DEFINE o == req[r].op
           seen == Of(rows, {o.source} \X ModelLabels)
           q == [req[r] EXCEPT !.pc = "readingFields", !.seen = seen]
<1>1. Open(r) /\ req[r].pc = "reading" /\ Goes(r, q)
  BY DEF ReadEntities, Open
<1>2. ReqOK(req[r]) /\ HandsFit(req[r], rows, sources) /\ o.source \in SourceKeys
  BY <1>1, OpIs
<1>3. \A k \in DOMAIN seen : k \in DOMAIN rows /\ seen[k] = rows[k] /\ k[1] = o.source /\ Len(k) = 2
  BY DEF Of
<1>4. \A k \in DOMAIN rows : k \in RowKeys /\ RowOK(rows[k])
  BY DEF Typed, TypeOK, RowsOK
<1> HIDE DEF seen
<1>5. /\ DOMAIN q = DOMAIN req[r] /\ q.pc = "readingFields" /\ q.op = o /\ q.found = req[r].found
      /\ q.held = req[r].held /\ q.at = req[r].at /\ q.seen = seen /\ q.ups = req[r].ups /\ q.tx = req[r].tx
      /\ q.code = req[r].code /\ q.late = req[r].late
  BY <1>2 DEF ReqOK, Idle
<1> HIDE DEF q, o
<1>6. req[r].tx = Nothing /\ req[r].ups = Nothing /\ req[r].at = 0
  BY <1>1, <1>2 DEF HandsFit
<1>7. HandsFit(q, rows, sources)
  <2>1. DOMAIN Over(q.tx, rows) = DOMAIN rows
    BY <1>5, <1>6, NothingIs DEF Over
  <2>3. q.at = 0 /\ 1..q.at = {} /\ DOMAIN q.tx = {} /\ DOMAIN q.ups = {}
    BY <1>5, <1>6, NothingIs
  <2>2. req[r].held # NULL \/ o.source \in DOMAIN sources
    BY <1>1, <1>2 DEF HandsFit, o
  <2>4. \A k \in DOMAIN q.seen \cup DOMAIN q.tx \cup DOMAIN q.ups : k[1] = q.op.source /\ Len(k) # 3
    <3>1. \A k \in DOMAIN seen : k[1] = o.source /\ Len(k) # 3
      BY <1>3
    <3> QED
      BY <1>5, <2>3, <3>1
  <2>5. DOMAIN q.seen \cup DOMAIN q.ups \subseteq DOMAIN Over(q.tx, rows)
    BY <1>3, <1>5, <2>1, <2>3
  <2> QED
    BY <1>5, <1>6, <2>2, <2>3, <2>4, <2>5 DEF HandsFit
<1>8. q.pc \in Stages \ {"idle", "done", "entering"}
  BY <1>5 DEF Stages
<1>9. q.at \in 0..Len(Items(q.op)) /\ (q.held # NULL => SourceOK(q.held) /\ LastOK(runs, q.op.source, q.held.last))
  BY <1>1, <1>2, <1>5, OpIs DEF ReqOK, o
<1>10. DOMAIN q.tx = {} /\ DOMAIN q.ups = {}
  BY <1>5, <1>6, NothingIs
<1> QED
  BY <1>1, <1>3, <1>4, <1>5, <1>7, <1>8, <1>9, <1>10, ProceedsTyped DEF o

LEMMA ReadFieldsTyped ==
    ASSUME Typed, NEW r \in Requests, ReadFields(r)
    PROVE  Typed'
<1> DEFINE o == req[r].op
           of == Of(rows, {k \in RowKeys : Len(k) = 3 /\ <<k[1], k[2]>> \in DOMAIN req[r].seen})
           seen == Over(req[r].seen, of)
           q == [req[r] EXCEPT !.pc = "upserting", !.seen = seen]
<1>1. Open(r) /\ req[r].pc = "readingFields" /\ Goes(r, q)
  BY DEF ReadFields, Open
<1>2. ReqOK(req[r]) /\ HandsFit(req[r], rows, sources) /\ o.source \in SourceKeys
  BY <1>1, OpIs
<1>3. \A k \in DOMAIN of : /\ k \in DOMAIN rows /\ of[k] = rows[k] /\ k \in RowKeys
                           /\ <<k[1], k[2]>> \in DOMAIN req[r].seen
  BY DEF Of
<1>4. \A k \in DOMAIN rows : k \in RowKeys /\ RowOK(rows[k])
  BY DEF Typed, TypeOK, RowsOK
<1> HIDE DEF of
<1>5. /\ DOMAIN q = DOMAIN req[r] /\ q.pc = "upserting" /\ q.op = o /\ q.found = req[r].found
      /\ q.held = req[r].held /\ q.at = req[r].at /\ q.seen = seen /\ q.ups = req[r].ups /\ q.tx = req[r].tx
      /\ q.code = req[r].code /\ q.late = req[r].late
  BY <1>2 DEF ReqOK, Idle
<1> HIDE DEF q, o
<1>6. req[r].tx = Nothing /\ req[r].ups = Nothing /\ req[r].at = 0
  BY <1>1, <1>2 DEF HandsFit
<1>7. DOMAIN Over(req[r].tx, rows) = DOMAIN rows
  BY <1>6, NothingIs DEF Over
<1>8. \A k \in DOMAIN req[r].seen : k \in DOMAIN rows /\ k \in RowKeys /\ RowOK(req[r].seen[k]) /\ k[1] = o.source
                                     /\ (Len(k) = 3 => <<k[1], k[2]>> \in DOMAIN rows)
  BY <1>2, <1>7, ZenonT(60) DEF HandsFit, ReqOK, o
<1>9. DOMAIN seen = DOMAIN req[r].seen \cup DOMAIN of
      /\ \A k \in DOMAIN seen : seen[k] = IF k \in DOMAIN req[r].seen THEN req[r].seen[k] ELSE of[k]
  BY DEF Over
<1> HIDE DEF seen
<1>10. \A k \in DOMAIN of : k[1] = o.source /\ <<k[1], k[2]>> \in DOMAIN rows
  <2> SUFFICES ASSUME NEW k \in DOMAIN of PROVE k[1] = o.source /\ <<k[1], k[2]>> \in DOMAIN rows
    OBVIOUS
  <2>1. <<k[1], k[2]>>[1] = k[1]
    BY <1>3, KeyShape
  <2> QED
    BY <1>3, <1>8, <2>1
<1>11. \A k \in DOMAIN seen : /\ k \in DOMAIN rows /\ k \in RowKeys /\ RowOK(seen[k]) /\ k[1] = o.source
                              /\ Len(k) = 3 => <<k[1], k[2]>> \in DOMAIN rows
  BY <1>3, <1>4, <1>8, <1>9, <1>10
<1>12. HandsFit(q, rows, sources)
  <2>1. req[r].held # NULL \/ o.source \in DOMAIN sources
    BY <1>1, <1>2 DEF HandsFit, o
  <2>3. q.at = 0 /\ 1..q.at = {} /\ DOMAIN q.tx = {} /\ DOMAIN q.ups = {}
    BY <1>5, <1>6, NothingIs
  <2> QED
    BY <1>5, <1>6, <1>7, <1>11, <2>1, <2>3 DEF HandsFit
<1>13. q.pc \in Stages \ {"idle", "done", "entering"}
  BY <1>5 DEF Stages
<1>14. q.at \in 0..Len(Items(q.op)) /\ (q.held # NULL => SourceOK(q.held) /\ LastOK(runs, q.op.source, q.held.last))
  BY <1>1, <1>2, <1>5, OpIs DEF ReqOK, o
<1>15. DOMAIN q.tx = {} /\ DOMAIN q.ups = {}
  BY <1>5, <1>6, NothingIs
<1> QED
  BY <1>1, <1>5, <1>11, <1>12, <1>13, <1>14, <1>15, ProceedsTyped DEF o

LEMMA UpsertTyped ==
    ASSUME Typed, NEW r \in Requests, req[r].pc = "upserting", NextNew(r) <= Len(Items(req[r].op)),
           Goes(r, [req[r] EXCEPT !.at = NextNew(r),
                                  !.seen = Over([k \in {Items(req[r].op)[NextNew(r)].key} |->
                                                     Wanted(Items(req[r].op)[NextNew(r)])], @),
                                  !.tx = Over([k \in {Items(req[r].op)[NextNew(r)].key} |->
                                                   Wanted(Items(req[r].op)[NextNew(r)])],
                                              Over(Written(View(r), Updates(req[r].seen, Before(r, NextNew(r)))), @))])
    PROVE  Typed'
<1> DEFINE o == req[r].op
           is == Items(o)
           n == NextNew(r)
           item == is[n]
           view == View(r)
           ups == Updates(req[r].seen, Before(r, n))
           made == [k \in {item.key} |-> Wanted(item)]
           written == Written(view, ups)
           seen == Over(made, req[r].seen)
           tx == Over(made, Over(written, req[r].tx))
           q == [req[r] EXCEPT !.at = n, !.seen = seen, !.tx = tx]
<1>1. Open(r) /\ Goes(r, q)
  BY DEF Open
<1>2. ReqOK(req[r]) /\ HandsFit(req[r], rows, sources) /\ Payload(o) /\ req[r].at \in 0..Len(is)
  BY <1>1, OpIs
<1>3. /\ Len(is) \in Nat /\ DOMAIN is = 1..Len(is) /\ \A k \in DOMAIN is : ItemOK(is[k]) /\ is[k].key[1] = o.source
      /\ \A k \in DOMAIN is : Len(is[k].key) = 3 =>
            \E j \in DOMAIN is : j < k /\ is[j].key = <<is[k].key[1], is[k].key[2]>>
  BY <1>2, ItemsAre
<1>4. /\ n \in Nat /\ n \in DOMAIN is
      /\ \A k \in DOMAIN is : req[r].at < k /\ k < n => is[k].key \in DOMAIN req[r].seen
  BY <1>2, NextNewIs
<1>5. DOMAIN ups \subseteq DOMAIN req[r].seen /\ \A k \in DOMAIN ups : SetOK(ups[k])
  BY <1>1, BeforeIs
<1>6. /\ DOMAIN view = DOMAIN req[r].tx \cup DOMAIN rows
      /\ \A k \in DOMAIN view : k \in RowKeys /\ RowOK(view[k]) /\ (Len(k) = 3 => <<k[1], k[2]>> \in DOMAIN view)
  BY <1>1, ViewIs
<1>7. view = Over(req[r].tx, rows)
  BY DEF View
<1> HIDE DEF ups, view, n, is
<1>8. /\ DOMAIN req[r].seen \subseteq DOMAIN view
      /\ \A k \in DOMAIN req[r].seen \cup DOMAIN req[r].tx :
            k[1] = o.source /\ (Len(k) = 3 => <<k[1], k[2]>> \in DOMAIN view)
      /\ req[r].ups = Nothing /\ (req[r].held # NULL \/ o.source \in DOMAIN sources)
      /\ \A k \in 1..req[r].at : is[k].key \in DOMAIN req[r].seen
  <2>1. DOMAIN Over(req[r].tx, rows) = DOMAIN view
    BY <1>7
  <2> QED
    BY <1>2, <2>1 DEF HandsFit, is
<1>9. DOMAIN written = DOMAIN ups /\ \A k \in DOMAIN written : RowOK(written[k])
  BY <1>5, <1>6, <1>8, WrittenIs
<1> HIDE DEF written
<1>10. DOMAIN made = {item.key} /\ made[item.key] = Wanted(item) /\ RowOK(Wanted(item)) /\ item.key \in RowKeys
       /\ item.key[1] = o.source
  BY <1>3, <1>4, WantedRow DEF ItemOK
<1> HIDE DEF made, item
<1>11. /\ DOMAIN seen = {item.key} \cup DOMAIN req[r].seen
       /\ \A k \in DOMAIN seen : seen[k] = IF k = item.key THEN Wanted(item) ELSE req[r].seen[k]
  BY <1>10 DEF Over
<1>12. /\ DOMAIN tx = {item.key} \cup DOMAIN ups \cup DOMAIN req[r].tx
       /\ \A k \in DOMAIN tx : tx[k] = IF k = item.key THEN Wanted(item)
                                       ELSE IF k \in DOMAIN ups THEN written[k] ELSE req[r].tx[k]
  BY <1>9, <1>10 DEF Over
<1> HIDE DEF seen, tx
<1>13. DOMAIN Over(tx, rows) = {item.key} \cup DOMAIN view
  <2>1. DOMAIN Over(tx, rows) = DOMAIN tx \cup DOMAIN rows
    BY DEF Over
  <2> QED
    BY <1>5, <1>6, <1>8, <1>12, <2>1
<1>14. Len(item.key) = 3 => <<item.key[1], item.key[2]>> \in DOMAIN view
  <2> SUFFICES ASSUME Len(item.key) = 3 PROVE <<item.key[1], item.key[2]>> \in DOMAIN view
    OBVIOUS
  <2>1. PICK j \in DOMAIN is : j < n /\ is[j].key = <<item.key[1], item.key[2]>>
    BY <1>3, <1>4 DEF item
  <2>2. is[j].key \in DOMAIN req[r].seen
    <3>1. j \in Nat /\ req[r].at \in Nat /\ j >= 1
      BY <1>2, <1>3
    <3>2. CASE j <= req[r].at
      <4>1. j \in 1..req[r].at
        BY <3>1, <3>2
      <4> QED
        BY <1>8, <4>1
    <3>3. CASE req[r].at < j
      BY <1>4, <2>1, <3>3
    <3> QED
      BY <3>1, <3>2, <3>3
  <2> QED
    BY <1>8, <2>1, <2>2
<1>15. /\ DOMAIN q = DOMAIN req[r] /\ q.pc = "upserting" /\ q.op = o /\ q.found = req[r].found
       /\ q.held = req[r].held /\ q.at = n /\ q.seen = seen /\ q.ups = req[r].ups /\ q.tx = tx
       /\ q.code = req[r].code /\ q.late = req[r].late
  BY <1>2 DEF ReqOK, Idle
<1> HIDE DEF q
<1>16. HandsFit(q, rows, sources)
  <2>1. \A k \in 1..n : is[k].key \in DOMAIN seen
    BY <1>2, <1>3, <1>4, <1>8, <1>11 DEF item
  <2>2. DOMAIN seen \subseteq DOMAIN Over(tx, rows)
    BY <1>8, <1>11, <1>13
  <2>3. \A k \in DOMAIN seen \cup DOMAIN tx :
            k[1] = o.source /\ (Len(k) = 3 => <<k[1], k[2]>> \in DOMAIN Over(tx, rows))
    BY <1>5, <1>8, <1>10, <1>11, <1>12, <1>13, <1>14
  <2>4. is = Items(q.op)
    BY <1>15 DEF is
  <2> QED
    BY <1>8, <1>15, <2>1, <2>2, <2>3, <2>4, NothingIs DEF HandsFit
<1>17. q.pc \in Stages \ {"idle", "done", "entering"}
  BY <1>15 DEF Stages
<1>18. q.at \in 0..Len(Items(q.op)) /\ (q.held # NULL => SourceOK(q.held) /\ LastOK(runs, q.op.source, q.held.last))
  <2>1. q.at = n /\ n \in 1..Len(is) /\ Items(q.op) = is /\ Len(is) \in Nat
    BY <1>3, <1>4, <1>15 DEF is
  <2>2. q.held # NULL => SourceOK(q.held) /\ LastOK(runs, o.source, q.held.last)
    <3>1. req[r].held # NULL => SourceOK(req[r].held) /\ LastOK(runs, o.source, req[r].held.last)
      BY <1>2 DEF ReqOK
    <3> QED
      BY <1>15, <3>1
  <2>3. q.at \in 0..Len(Items(q.op)) /\ q.op = o
    BY <1>15, <2>1
  <2> QED
    BY <2>2, <2>3
<1>19. /\ \A k \in DOMAIN seen : k \in RowKeys /\ RowOK(seen[k])
       /\ \A k \in DOMAIN tx : k \in RowKeys /\ RowOK(tx[k])
  BY <1>2, <1>5, <1>9, <1>10, <1>11, <1>12 DEF ReqOK
<1>20. DOMAIN q.ups = {}
  BY <1>8, <1>15, NothingIs
<1> QED
  BY <1>1, <1>15, <1>16, <1>17, <1>18, <1>19, <1>20, ProceedsTyped
\* The rows that are to be made inactive, or assigned otherwise, are seen.
LEMMA MissTyped ==
    ASSUME Typed, NEW r \in Requests, Open(r), NEW ups, NEW pc \in {"sweeping", "closing"},
           req[r].pc \in {"upserting", "sweeping"}, Goes(r, [req[r] EXCEPT !.pc = pc, !.ups = ups]),
           DOMAIN ups \subseteq DOMAIN View(r), \A k \in DOMAIN ups : SetOK(ups[k]) /\ k[1] = req[r].op.source
    PROVE  Typed'
<1> DEFINE o == req[r].op
           view == View(r)
           q == [req[r] EXCEPT !.pc = pc, !.ups = ups]
<1>1. ReqOK(req[r]) /\ HandsFit(req[r], rows, sources) /\ req[r].at \in 0..Len(Items(o)) /\ Goes(r, q)
  BY OpIs
<1>2. \A k \in DOMAIN view : k \in RowKeys /\ (Len(k) = 3 => <<k[1], k[2]>> \in DOMAIN view)
  BY ViewIs
<1>3. view = Over(req[r].tx, rows)
  BY DEF View
<1>4. /\ DOMAIN q = DOMAIN req[r] /\ q.pc = pc /\ q.op = o /\ q.found = req[r].found
      /\ q.held = req[r].held /\ q.at = req[r].at /\ q.seen = req[r].seen /\ q.ups = ups /\ q.tx = req[r].tx
      /\ q.code = req[r].code /\ q.late = req[r].late
  BY <1>1 DEF ReqOK, Idle
<1> HIDE DEF q, view
<1>5. /\ req[r].held # NULL \/ o.source \in DOMAIN sources
      /\ DOMAIN req[r].seen \subseteq DOMAIN view
      /\ \A k \in DOMAIN req[r].seen \cup DOMAIN req[r].tx : k[1] = o.source
      /\ DOMAIN req[r].tx \subseteq DOMAIN view
      /\ \A k \in 1..req[r].at : Items(o)[k].key \in DOMAIN req[r].seen
  <2>1. DOMAIN Over(req[r].tx, rows) = DOMAIN view /\ DOMAIN req[r].tx \subseteq DOMAIN Over(req[r].tx, rows)
    BY <1>3 DEF Over
  <2> QED
    BY <1>1, <2>1 DEF HandsFit
<1>6. DOMAIN Over(q.tx, rows) = DOMAIN view
  BY <1>3, <1>4
<1>7. DOMAIN ups \subseteq DOMAIN view
  BY DEF view
<1>8. HandsFit(q, rows, sources)
  <2>1. \A k \in DOMAIN q.seen \cup DOMAIN q.tx \cup DOMAIN q.ups :
            k[1] = o.source /\ (Len(k) = 3 => <<k[1], k[2]>> \in DOMAIN view)
    BY <1>2, <1>4, <1>5, <1>7
  <2> QED
    BY <1>4, <1>5, <1>6, <1>7, <2>1 DEF HandsFit
<1>9. q.pc \in Stages \ {"idle", "done", "entering"}
  BY <1>4 DEF Stages
<1>10. q.at \in 0..Len(Items(q.op)) /\ (q.held # NULL => SourceOK(q.held) /\ LastOK(runs, q.op.source, q.held.last))
  BY <1>1, <1>4 DEF ReqOK
<1>11. /\ DOMAIN q.seen \cup DOMAIN q.tx \cup DOMAIN q.ups \subseteq RowKeys
       /\ \A k \in DOMAIN q.seen : RowOK(q.seen[k])
       /\ \A k \in DOMAIN q.tx : RowOK(q.tx[k])
       /\ \A k \in DOMAIN q.ups : SetOK(q.ups[k])
  <2>1. /\ DOMAIN req[r].seen \cup DOMAIN req[r].tx \subseteq RowKeys
        /\ \A k \in DOMAIN req[r].seen : RowOK(req[r].seen[k])
        /\ \A k \in DOMAIN req[r].tx : RowOK(req[r].tx[k])
    BY <1>1 DEF ReqOK
  <2>2. DOMAIN q.ups \subseteq RowKeys /\ \A k \in DOMAIN q.ups : SetOK(q.ups[k])
    BY <1>2, <1>4, <1>7
  <2>3. DOMAIN q.seen \cup DOMAIN q.tx \cup DOMAIN q.ups \subseteq RowKeys
    BY <1>4, <2>1, <2>2
  <2>4. (\A k \in DOMAIN q.seen : RowOK(q.seen[k])) /\ (\A k \in DOMAIN q.tx : RowOK(q.tx[k]))
    BY <1>4, <2>1
  <2> QED
    BY <2>2, <2>3, <2>4
<1> QED
  BY <1>1, <1>4, <1>8, <1>9, <1>10, <1>11, ProceedsTyped

LEMMA MissEntitiesTyped ==
    ASSUME Typed, NEW r \in Requests, MissEntities(r)
    PROVE  Typed'
<1> DEFINE o == req[r].op
           missing == {k \in Active(View(r), o.source, 2) : k \notin KeysIn(Items(o))}
           new == Updates(req[r].seen, Before(r, NextNew(r)))
           ups == Over(new, Off(r, missing))
<1>1. Open(r) /\ req[r].pc = "upserting" /\ Goes(r, [req[r] EXCEPT !.pc = "sweeping", !.ups = ups])
  BY DEF MissEntities, Open
<1>2. DOMAIN new \subseteq DOMAIN req[r].seen /\ \A k \in DOMAIN new : SetOK(new[k])
  BY <1>1, BeforeIs
<1>3. \A k \in missing : k \in DOMAIN View(r) /\ k[1] = o.source
  BY DEF Active
<1> HIDE DEF missing
<1>4. DOMAIN Off(r, missing) \subseteq missing /\ \A k \in DOMAIN Off(r, missing) : SetOK(Off(r, missing)[k])
  BY OffIs
<1>5. DOMAIN req[r].seen \subseteq DOMAIN View(r) /\ \A k \in DOMAIN req[r].seen : k[1] = o.source
  BY <1>1, OpIs DEF HandsFit, View
<1> HIDE DEF new
<1>6. DOMAIN ups = DOMAIN new \cup DOMAIN Off(r, missing)
      /\ \A k \in DOMAIN ups : ups[k] = IF k \in DOMAIN new THEN new[k] ELSE Off(r, missing)[k]
  BY DEF Over
<1> HIDE DEF ups
<1>7. DOMAIN ups \subseteq DOMAIN View(r) /\ \A k \in DOMAIN ups : SetOK(ups[k]) /\ k[1] = req[r].op.source
  BY <1>2, <1>3, <1>4, <1>5, <1>6
<1> QED
  BY <1>1, <1>7, MissTyped

LEMMA MissFieldsTyped ==
    ASSUME Typed, NEW r \in Requests, MissFields(r)
    PROVE  Typed'
<1> DEFINE o == req[r].op
           missing == {k \in Active(View(r), o.source, 3) :
                          <<k[1], k[2]>> \in KeysIn(Items(o)) /\ k \notin KeysIn(Items(o))}
           ups == Over(req[r].ups, Off(r, missing))
<1>1. Open(r) /\ req[r].pc = "sweeping" /\ Goes(r, [req[r] EXCEPT !.pc = "closing", !.ups = ups])
  BY DEF MissFields, Open
<1>7. ReqOK(req[r]) /\ HandsFit(req[r], rows, sources)
  BY <1>1, OpIs
<1>2. /\ DOMAIN req[r].ups \subseteq DOMAIN View(r)
      /\ \A k \in DOMAIN req[r].ups : SetOK(req[r].ups[k]) /\ k[1] = o.source
  <2>1. \A k \in DOMAIN req[r].ups : SetOK(req[r].ups[k])
    BY <1>7 DEF ReqOK
  <2>2. DOMAIN req[r].ups \subseteq DOMAIN View(r) /\ \A k \in DOMAIN req[r].ups : k[1] = o.source
    BY <1>7 DEF HandsFit, View
  <2> QED
    BY <2>1, <2>2
<1>3. \A k \in missing : k \in DOMAIN View(r) /\ k[1] = o.source
  BY DEF Active
<1> HIDE DEF missing
<1>4. DOMAIN Off(r, missing) \subseteq missing /\ \A k \in DOMAIN Off(r, missing) : SetOK(Off(r, missing)[k])
  BY OffIs
<1>5. DOMAIN ups = DOMAIN req[r].ups \cup DOMAIN Off(r, missing)
      /\ \A k \in DOMAIN ups : ups[k] = IF k \in DOMAIN req[r].ups THEN req[r].ups[k] ELSE Off(r, missing)[k]
  BY DEF Over
<1> HIDE DEF ups
<1>6. DOMAIN ups \subseteq DOMAIN View(r) /\ \A k \in DOMAIN ups : SetOK(ups[k]) /\ k[1] = req[r].op.source
  BY <1>2, <1>3, <1>4, <1>5
<1> QED
  BY <1>1, <1>6, MissTyped

\* The row of the source as a failed run leaves it.
LEMMA FailedTyped ==
    ASSUME Typed, NEW r \in Requests, Open(r), req[r].pc # "entering", Failed(r)
    PROVE  Typed'
<1> DEFINE o == req[r].op
           run == Run(r, "failed", <<>>)
<1>1. /\ ReqOK(req[r]) /\ HandsFit(req[r], rows, sources) /\ Payload(o) /\ o.source \in SourceKeys
      /\ r \notin DOMAIN runs
  BY OpIs
<1>2. runs' = Put(runs, r, run) /\ req' = Answer(r, 500) /\ rows' = rows /\ raced' = raced
  BY DEF Failed
<1>3. run.source = o.source /\ run.snapshot = o /\ run.status = "failed" /\ run.models = 0 /\ run.fields = 0
  BY <1>1, ItemCounts DEF Run
<1> HIDE DEF run
<1>4. RunOK(run)
  <2>1. run.models + run.fields = 0 /\ 0 = (IF run.status = "success" THEN Len(Items(run.snapshot)) ELSE 0)
    BY <1>3
  <2> QED
    BY <1>1, <1>3, <2>1 DEF RunOK
<1>5. \A n \in DOMAIN runs : n \in DOMAIN runs' /\ runs'[n] = runs[n]
  BY <1>1, <1>2 DEF Put
<1>6. sources' = IF req[r].held = NULL THEN sources ELSE Put(sources, o.source, req[r].held)
  BY DEF Failed
<1>7. /\ DOMAIN sources \subseteq DOMAIN sources' /\ o.source \in DOMAIN sources'
      /\ DOMAIN sources' \subseteq SourceKeys
      /\ \A s \in DOMAIN sources' : \/ s \in DOMAIN sources /\ sources'[s] = sources[s]
                                    \/ s = o.source /\ req[r].held # NULL /\ sources'[s] = req[r].held
  BY <1>1, <1>6 DEF Put, HandsFit, Open, Typed, TypeOK, SourcesOK
<1>8. SourcesOK'
  <2>1. \A s \in DOMAIN sources' : SourceOK(sources'[s]) /\ LastOK(runs, s, sources'[s].last)
    BY <1>1, <1>7 DEF ReqOK, Typed, TypeOK, SourcesOK
  <2>2. \A s \in DOMAIN sources' : SourceOK(sources'[s]) /\ LastOK(runs', s, sources'[s].last)
    BY <1>5, <2>1 DEF LastOK
  <2> QED
    BY <1>7, <2>2 DEF SourcesOK
<1>9. RowsOK'
  BY <1>2, <1>7 DEF Typed, TypeOK, RowsOK
<1>10. raced' \in BOOLEAN
  BY <1>2 DEF Typed, TypeOK
<1> QED
  BY <1>2, <1>3, <1>4, <1>7, <1>8, <1>9, <1>10, CommitTyped
LEMMA FinishTyped ==
    ASSUME Typed, NEW r \in Requests, Finish(r)
    PROVE  Typed'
<1> DEFINE o == req[r].op
           run == Run(r, "success", Items(o))
           row == IF req[r].held = NULL THEN sources[o.source] ELSE req[r].held
           new == Assign(row, [last |-> r])
           view == View(r)
           written == Written(view, req[r].ups)
<1>1. Open(r) /\ req[r].pc = "closing"
  BY DEF Finish, Open
<1>2. /\ ReqOK(req[r]) /\ HandsFit(req[r], rows, sources) /\ Payload(o) /\ o.source \in SourceKeys
      /\ r \notin DOMAIN runs
  BY <1>1, OpIs
<1>3. /\ runs' = Put(runs, r, run) /\ req' = Answer(r, 200)
      /\ sources' = Put(sources, o.source, new) /\ rows' = Over(written, view)
      /\ raced' = (raced \/ req[r].late)
  BY DEF Finish
<1>4. /\ run.source = o.source /\ run.snapshot = o /\ run.status = "success"
      /\ run.models = Sized(Items(o), 2) /\ run.fields = Sized(Items(o), 3)
  BY DEF Run
<1> HIDE DEF run
<1>5. RunOK(run)
  <2>1. /\ run.models \in Nat /\ run.fields \in Nat
        /\ run.models + run.fields = (IF run.status = "success" THEN Len(Items(run.snapshot)) ELSE 0)
    BY <1>2, <1>4, ItemCounts
  <2> QED
    BY <1>2, <1>4, <2>1 DEF RunOK
<1>6. runs'[r] = run /\ r \in DOMAIN runs' /\ \A n \in DOMAIN runs : n \in DOMAIN runs' /\ runs'[n] = runs[n]
  BY <1>2, <1>3 DEF Put
<1>7. SourceOK(row)
  <2>1. req[r].held = NULL => o.source \in DOMAIN sources
    BY <1>1, <1>2 DEF HandsFit
  <2> QED
    BY <1>2, <2>1 DEF ReqOK, Typed, TypeOK, SourcesOK
<1> HIDE DEF row
<1>8. SourceOK(new) /\ new.last = r
  BY <1>7, RequestsAssumption DEF Assign, SourceOK
<1> HIDE DEF new
<1>9. /\ DOMAIN sources \subseteq DOMAIN sources' /\ o.source \in DOMAIN sources'
      /\ DOMAIN sources' \subseteq SourceKeys
      /\ \A s \in DOMAIN sources' : \/ s \in DOMAIN sources /\ sources'[s] = sources[s]
                                    \/ s = o.source /\ sources'[s] = new
  BY <1>2, <1>3 DEF Put, Typed, TypeOK, SourcesOK
<1>10. SourcesOK'
  <2>1. LastOK(runs', o.source, new.last)
    BY <1>4, <1>6, <1>8 DEF LastOK
  <2>2. \A s \in DOMAIN sources : SourceOK(sources[s]) /\ LastOK(runs', s, sources[s].last)
    BY <1>6 DEF Typed, TypeOK, SourcesOK, LastOK
  <2> QED
    BY <1>8, <1>9, <2>1, <2>2 DEF SourcesOK
<1>11. /\ DOMAIN view = DOMAIN req[r].tx \cup DOMAIN rows
       /\ \A k \in DOMAIN view : k \in RowKeys /\ RowOK(view[k]) /\ (Len(k) = 3 => <<k[1], k[2]>> \in DOMAIN view)
  BY <1>1, ViewIs
<1>12. /\ DOMAIN req[r].ups \subseteq DOMAIN view /\ \A k \in DOMAIN req[r].ups : SetOK(req[r].ups[k])
       /\ \A k \in DOMAIN req[r].tx : k[1] = o.source
  <2>1. view = Over(req[r].tx, rows)
    BY DEF View
  <2> HIDE DEF view
  <2> QED
    BY <1>2, <2>1, ZenonT(60) DEF HandsFit, ReqOK
<1> HIDE DEF view
<1>13. DOMAIN written = DOMAIN req[r].ups /\ \A k \in DOMAIN written : RowOK(written[k])
  BY <1>11, <1>12, WrittenIs
<1> HIDE DEF written
<1>14. DOMAIN rows' = DOMAIN view /\ \A k \in DOMAIN rows' : RowOK(rows'[k])
  <2>1. /\ DOMAIN rows' = DOMAIN written \cup DOMAIN view
        /\ \A k \in DOMAIN rows' : rows'[k] = IF k \in DOMAIN written THEN written[k] ELSE view[k]
    BY <1>3 DEF Over
  <2> QED
    BY <1>11, <1>12, <1>13, <2>1
<1>15. RowsOK'
  <2>1. \A k \in DOMAIN view : k[1] \in DOMAIN sources'
    BY <1>9, <1>11, <1>12 DEF Typed, TypeOK, RowsOK
  <2> QED
    BY <1>11, <1>14, <2>1 DEF RowsOK
<1>16. raced' \in BOOLEAN
  BY <1>3
<1>17. DOMAIN rows \subseteq DOMAIN rows'
  BY <1>11, <1>14
<1> QED
  BY <1>1, <1>3, <1>4, <1>5, <1>9, <1>10, <1>15, <1>16, <1>17, CommitTyped

LEMMA StepTyped ==
    ASSUME Typed, [Next]_vars
    PROVE  Typed'
<1>1. ASSUME NEW r \in Requests, NEW o \in Ops[r], Find(r, o) PROVE Typed'
  BY <1>1, FindTyped
<1>2. ASSUME NEW r \in Requests, Enter(r) PROVE Typed'
  BY <1>2, EnterTyped
<1>3. ASSUME NEW r \in Requests, ReadEntities(r) PROVE Typed'
  BY <1>3, ReadEntitiesTyped
<1>4. ASSUME NEW r \in Requests, ReadFields(r) PROVE Typed'
  BY <1>4, ReadFieldsTyped
<1>5. ASSUME NEW r \in Requests, Upsert(r) PROVE Typed'
  <2>1. Open(r) /\ req[r].pc = "upserting" /\ NextNew(r) <= Len(Items(req[r].op))
    BY <1>5 DEF Upsert, Open
  <2>2. CASE Failed(r)
    BY <2>1, <2>2, FailedTyped
  <2>3. CASE ~Failed(r)
    BY <1>5, <2>1, <2>3, UpsertTyped DEF Upsert
  <2> QED
    BY <2>2, <2>3
<1>6. ASSUME NEW r \in Requests, MissEntities(r) PROVE Typed'
  BY <1>6, MissEntitiesTyped
<1>7. ASSUME NEW r \in Requests, MissFields(r) PROVE Typed'
  BY <1>7, MissFieldsTyped
<1>8. ASSUME NEW r \in Requests, Finish(r) PROVE Typed'
  BY <1>8, FinishTyped
<1>9. ASSUME NEW r \in Requests, Fail(r) PROVE Typed'
  BY <1>9, FailedTyped DEF Fail, Open
<1>10. ASSUME NEW r \in Requests, Abort(r) PROVE Typed'
  BY <1>10, DoneTyped DEF Abort
<1>11. CASE UNCHANGED vars
  BY <1>11 DEF vars, Typed, TypeOK, SourcesOK, RowsOK, RunsOK, ReqOK, EndedOnce, Fitting, Open
<1>12. CASE Terminated
  BY <1>11, <1>12 DEF Terminated
<1> QED
  BY <1>1, <1>2, <1>3, <1>4, <1>5, <1>6, <1>7, <1>8, <1>9, <1>10, <1>11, <1>12 DEF Next

LEMMA InitTyped == Init => Typed
<1> SUFFICES ASSUME Init PROVE Typed
  OBVIOUS
<1>1. SourcesOK /\ RowsOK /\ RunsOK
  BY InitAssumption DEF Init, SourcesOK, RowsOK, RunsOK
<1>2. \A r \in Requests : req[r] = Idle
  BY DEF Init
<1>3. ReqOK(Idle)
  BY NothingIs DEF Idle, ReqOK, Stages
<1>4. DOMAIN req = Requests /\ (\A r \in Requests : ReqOK(req[r])) /\ raced \in BOOLEAN
  BY <1>2, <1>3 DEF Init
<1>5. EndedOnce
  BY RequestsAssumption DEF Init, EndedOnce
<1>6. Fitting
  BY <1>2 DEF Fitting, Open, Idle
<1> QED
  BY <1>1, <1>4, <1>5, <1>6 DEF Typed, TypeOK

LEMMA TypedAlways == Spec => []Typed
<1>1. Typed /\ [Next]_vars => Typed'
  BY StepTyped
<1> QED
  BY <1>1, InitTyped, PTL DEF Spec

\* Rows hold values of their columns' types, each field has its model and each model its
\* source, and what is stored of a run is its end, with the counts of its payload or none.
THEOREM TypeCorrect == Spec => []TypeOK
<1>1. Typed => TypeOK
  BY DEF Typed
<1> QED
  BY <1>1, TypedAlways, PTL

(***************************************************************************)
(* Steps and commits.                                                      *)
(***************************************************************************)

LEMMA GoesIs ==
    ASSUME Typed, NEW r \in Requests, NEW q, Goes(r, q)
    PROVE  /\ sources' = sources /\ rows' = rows /\ runs' = runs /\ raced' = raced /\ calm' = calm
           /\ DOMAIN req' = Requests /\ req'[r] = q /\ \A s \in Requests \ {r} : req'[s] = req[s]
BY DEF Goes, Typed, TypeOK

LEMMA AnswerIs ==
    ASSUME NEW r \in Requests, NEW code \in {200, 500}, req' = Answer(r, code), Typed
    PROVE  /\ DOMAIN req' = Requests /\ req'[r].pc = "done"
           /\ \A s \in Requests \ {r} :
                 /\ req'[s].pc = req[s].pc /\ req'[s].op = req[s].op /\ req'[s].held = req[s].held
                 /\ req'[s].found = req[s].found
           /\ \A s \in Requests \ {r} : Open(s) => req'[s].late
<1>1. \A s \in Requests : ReqOK(req[s])
  BY DEF Typed, TypeOK
<1>2. DOMAIN req' = Requests /\ req'[r] = Done(code)
      /\ \A s \in Requests \ {r} : req'[s] = IF Open(s) THEN [req[s] EXCEPT !.late = TRUE] ELSE req[s]
  BY DEF Answer
<1>3. req'[r].pc = "done"
  BY <1>2, DoneIsReq
<1>4. ASSUME NEW s \in Requests \ {r}
      PROVE  /\ req'[s].pc = req[s].pc /\ req'[s].op = req[s].op /\ req'[s].held = req[s].held
             /\ req'[s].found = req[s].found /\ (Open(s) => req'[s].late)
  <2>1. CASE Open(s)
    <3>1. req'[s] = [req[s] EXCEPT !.late = TRUE] /\ ReqOK(req[s])
      BY <1>1, <1>2, <2>1
    <3> QED
      BY <3>1 DEF ReqOK, Idle
  <2>2. CASE ~Open(s)
    BY <1>2, <2>2
  <2> QED
    BY <2>1, <2>2
<1> QED
  BY <1>2, <1>3, <1>4

\* Where a step of a request that has begun leaves it.
LEMMA StageIs ==
    ASSUME Typed, NEW r \in Requests,
           \/ Enter(r) \/ ReadEntities(r) \/ ReadFields(r) \/ Upsert(r)
           \/ MissEntities(r) \/ MissFields(r) \/ Finish(r) \/ Fail(r) \/ Abort(r)
    PROVE  /\ Open(r)
           /\ DOMAIN req' = Requests /\ req'[r].pc # "idle"
           /\ \A s \in Requests \ {r} : req'[s].pc = req[s].pc
<1>1. Open(r) /\ ReqOK(req[r])
  BY DEF Enter, ReadEntities, ReadFields, Upsert, MissEntities, MissFields, Finish, Fail, Abort, Open, Typed, TypeOK
<1>2. ASSUME NEW code \in {200, 500}, req' = Answer(r, code)
      PROVE  DOMAIN req' = Requests /\ req'[r].pc # "idle" /\ \A s \in Requests \ {r} : req'[s].pc = req[s].pc
  <2>1. DOMAIN req' = Requests /\ req'[r].pc = "done" /\ \A s \in Requests \ {r} : req'[s].pc = req[s].pc
    BY <1>2, AnswerIs
  <2> QED
    BY <2>1
<1>3. ASSUME NEW q, q.pc # "idle", Goes(r, q)
      PROVE  DOMAIN req' = Requests /\ req'[r].pc # "idle" /\ \A s \in Requests \ {r} : req'[s].pc = req[s].pc
  BY <1>3, GoesIs
<1>4. \A pc : [req[r] EXCEPT !.pc = pc].pc = pc
  BY <1>1 DEF ReqOK, Idle
<1>5. \A code \in {200, 500} : Done(code).pc = "done"
  BY DoneIsReq
<1>6. ASSUME Failed(r) PROVE DOMAIN req' = Requests /\ req'[r].pc # "idle" /\ \A s \in Requests \ {r} : req'[s].pc = req[s].pc
  BY <1>2, <1>6 DEF Failed
<1>7. CASE Enter(r)
  <2> DEFINE in == [req[r] EXCEPT !.pc = "reading"]
  <2>1. in.pc = "reading" /\ \A held : [in EXCEPT !.held = held].pc = "reading"
    BY <1>1 DEF ReqOK, Idle
  <2>2. \/ Goes(r, Done(500)) \/ Goes(r, in) \/ \E held : Goes(r, [in EXCEPT !.held = held])
    BY <1>7 DEF Enter
  <2>3. CASE Goes(r, Done(500))
    BY <1>1, <1>3, <1>5, <2>3
  <2> HIDE DEF in
  <2> QED
    BY <1>1, <1>3, <2>1, <2>2, <2>3
<1>8. CASE ReadEntities(r)
  <2>1. \A seen : [req[r] EXCEPT !.pc = "readingFields", !.seen = seen].pc = "readingFields"
    BY <1>1 DEF ReqOK, Idle
  <2> QED
    BY <1>1, <1>3, <1>8, <2>1 DEF ReadEntities
<1>9. CASE ReadFields(r)
  <2>1. \A seen : [req[r] EXCEPT !.pc = "upserting", !.seen = seen].pc = "upserting"
    BY <1>1 DEF ReqOK, Idle
  <2> QED
    BY <1>1, <1>3, <1>9, <2>1 DEF ReadFields
<1>10. CASE Upsert(r)
  <2>1. \A n, seen, tx : [req[r] EXCEPT !.at = n, !.seen = seen, !.tx = tx].pc = req[r].pc
    BY <1>1 DEF ReqOK, Idle
  <2>2. req[r].pc = "upserting"
    BY <1>10 DEF Upsert
  <2>3. Failed(r) \/ \E n, seen, tx : Goes(r, [req[r] EXCEPT !.at = n, !.seen = seen, !.tx = tx])
    BY <1>10 DEF Upsert
  <2>4. CASE Failed(r)
    BY <1>1, <1>6, <2>4
  <2>5. ASSUME NEW n, NEW seen, NEW tx, Goes(r, [req[r] EXCEPT !.at = n, !.seen = seen, !.tx = tx])
        PROVE  DOMAIN req' = Requests /\ req'[r].pc # "idle" /\ \A s \in Requests \ {r} : req'[s].pc = req[s].pc
    <3> DEFINE q == [req[r] EXCEPT !.at = n, !.seen = seen, !.tx = tx]
    <3>1. q.pc # "idle" /\ Goes(r, q)
      BY <2>1, <2>2, <2>5
    <3> HIDE DEF q
    <3> QED
      BY <1>3, <3>1
  <2> QED
    BY <1>1, <2>3, <2>4, <2>5
<1>11. CASE MissEntities(r)
  <2>1. \A ups : [req[r] EXCEPT !.pc = "sweeping", !.ups = ups].pc = "sweeping"
    BY <1>1 DEF ReqOK, Idle
  <2> QED
    BY <1>1, <1>3, <1>11, <2>1 DEF MissEntities
<1>12. CASE MissFields(r)
  <2>1. \A ups : [req[r] EXCEPT !.pc = "closing", !.ups = ups].pc = "closing"
    BY <1>1 DEF ReqOK, Idle
  <2> QED
    BY <1>1, <1>3, <1>12, <2>1 DEF MissFields
<1>13. CASE Finish(r)
  BY <1>1, <1>2, <1>13 DEF Finish
<1>14. CASE Fail(r)
  BY <1>1, <1>6, <1>14 DEF Fail
<1>15. CASE Abort(r)
  BY <1>1, <1>3, <1>5, <1>15 DEF Abort
<1> QED
  BY <1>7, <1>8, <1>9, <1>10, <1>11, <1>12, <1>13, <1>14, <1>15

LEMMA StepInOrder ==
    ASSUME Typed, InOrder, [Next]_vars
    PROVE  InOrder'
<1>1. ASSUME NEW r \in Requests, NEW o \in Ops[r], Find(r, o) PROVE InOrder'
  <2>1. \A s \in Requests : s < r => req[s].pc # "idle"
    BY <1>1 DEF Find
  <2>2. DOMAIN req' = Requests /\ \A s \in Requests \ {r} : req'[s] = req[s]
    BY <1>1, GoesIs DEF Find
  <2>3. \A s \in Requests : ~(s < s)
    BY RequestsAssumption
  <2>4. req'[r].pc # "idle"
    <3> DEFINE q == [Idle EXCEPT !.pc = "entering", !.op = o,
                            !.found = IF o.source \in DOMAIN sources THEN sources[o.source] ELSE NULL]
    <3>1. q.pc = "entering" /\ Goes(r, q)
      BY <1>1 DEF Find, Idle
    <3> HIDE DEF q
    <3> QED
      BY <3>1, GoesIs
  <2> QED
    BY <2>1, <2>2, <2>3, <2>4 DEF InOrder
<1>2. ASSUME NEW r \in Requests,
             \/ Enter(r) \/ ReadEntities(r) \/ ReadFields(r) \/ Upsert(r)
             \/ MissEntities(r) \/ MissFields(r) \/ Finish(r) \/ Fail(r) \/ Abort(r)
      PROVE  InOrder'
  <2>1. Open(r) /\ req'[r].pc # "idle" /\ \A s \in Requests \ {r} : req'[s].pc = req[s].pc
    BY <1>2, StageIs
  <2> QED
    BY <2>1 DEF InOrder, Open
<1>3. CASE UNCHANGED vars
  BY <1>3 DEF vars, InOrder
<1> QED
  BY <1>1, <1>2, <1>3 DEF Next, Terminated

(***************************************************************************)
(* The row of the source.                                                  *)
(***************************************************************************)

\* What the request in hand has to do with it, for the request and whoever it meets.
HeldFits(r, q) == q.held # NULL =>
    /\ \A s \in Others(r) : req[s].op.source = q.op.source => req[s].held = NULL
    /\ q.held = IF q.op.source \in DOMAIN sources
                THEN Renamed(sources[q.op.source], q.found, q.op) ELSE Created(q.op)

LEMMA GoesHeld ==
    ASSUME Typed, HeldIsCurrent, NEW r \in Requests, NEW q, Goes(r, q),
           \/ q.held = NULL
           \/ Open(r) /\ q.held = req[r].held /\ q.op = req[r].op /\ q.found = req[r].found
           \/ Open(r) /\ q.op = req[r].op /\ ~SourceHeld(r) /\ HeldFits(r, q)
    PROVE  HeldIsCurrent'
<1>1. /\ sources' = sources /\ DOMAIN req' = Requests /\ req'[r] = q
      /\ \A s \in Requests \ {r} : req'[s] = req[s]
  BY GoesIs
<1>2. \A s \in Requests : \A u \in Others(s)' : u \in Requests \ {s} /\ (u # r => u \in Others(s)) 
  BY <1>1 DEF Others, Open
<1>3. ASSUME NEW s \in Requests, req'[s].pc \notin {"idle", "done"}, req'[s].held # NULL
      PROVE  /\ \A u \in Others(s)' : req'[u].op.source = req'[s].op.source => req'[u].held = NULL
             /\ req'[s].held = IF req'[s].op.source \in DOMAIN sources
                               THEN Renamed(sources[req'[s].op.source], req'[s].found, req'[s].op)
                               ELSE Created(req'[s].op)
  <2>1. CASE s = r
    <3>1. Open(r) /\ q.op = req[r].op /\ HeldFits(r, q)
      BY <1>1, <1>3, <2>1 DEF HeldIsCurrent, HeldFits
    <3>2. \A u \in Others(r)' : u \in Others(r) /\ req'[u] = req[u]
      BY <1>1, <1>2
    <3> QED
      BY <1>1, <1>3, <2>1, <3>1, <3>2 DEF HeldFits
  <2>2. CASE s # r
    <3>1. Open(s) /\ req'[s] = req[s] /\ req[s].held # NULL
      BY <1>1, <1>3, <2>2 DEF Open
    <3>2. ASSUME NEW u \in Others(s)', req'[u].op.source = req'[s].op.source PROVE req'[u].held = NULL
      <4>1. CASE u # r
        BY <1>1, <1>2, <3>1, <3>2, <4>1 DEF HeldIsCurrent
      <4>2. CASE u = r
        <5>1. CASE q.held = NULL
          BY <1>1, <4>2, <5>1
        <5>2. CASE Open(r) /\ q.op = req[r].op
          <6>1. r \in Others(s) /\ s \in Others(r) /\ req[r].op.source = req[s].op.source
            BY <1>1, <2>2, <3>1, <3>2, <4>2, <5>2 DEF Others
          <6>2. req[r].held = NULL
            BY <3>1, <6>1 DEF HeldIsCurrent
          <6>3. SourceHeld(r)
            BY <3>1, <6>1 DEF SourceHeld
          <6> QED
            BY <1>1, <4>2, <6>2, <6>3
        <5> QED
          BY <5>1, <5>2
      <4> QED
        BY <4>1, <4>2
    <3> QED
      BY <3>1, <3>2 DEF HeldIsCurrent
  <2> QED
    BY <2>1, <2>2
<1> QED
  BY <1>1, <1>3 DEF HeldIsCurrent, Open

LEMMA CommitHeld ==
    ASSUME Typed, HeldIsCurrent, NEW r \in Requests, Open(r), NEW code \in {200, 500}, req' = Answer(r, code),
           \A s \in SourceKeys : s = req[r].op.source \/ ((s \in DOMAIN sources' <=> s \in DOMAIN sources)
                                                          /\ (s \in DOMAIN sources => sources'[s] = sources[s])),
           sources' = sources \/ \A s \in Others(r) : req[s].op.source = req[r].op.source => req[s].held = NULL
    PROVE  HeldIsCurrent'
<1>1. /\ DOMAIN req' = Requests /\ req'[r].pc = "done"
      /\ \A s \in Requests \ {r} :
            /\ req'[s].pc = req[s].pc /\ req'[s].op = req[s].op /\ req'[s].held = req[s].held
            /\ req'[s].found = req[s].found
  BY AnswerIs
<1>2. ASSUME NEW s \in Requests, req'[s].pc \notin {"idle", "done"}, req'[s].held # NULL
      PROVE  /\ \A u \in Others(s)' : req'[u].op.source = req'[s].op.source => req'[u].held = NULL
             /\ req'[s].held = IF req'[s].op.source \in DOMAIN sources'
                               THEN Renamed(sources'[req'[s].op.source], req'[s].found, req'[s].op)
                               ELSE Created(req'[s].op)
  <2>1. s # r /\ Open(s) /\ s \in Others(r) /\ req'[s].op = req[s].op /\ req'[s].held = req[s].held
        /\ req'[s].found = req[s].found
    BY <1>1, <1>2 DEF Open, Others
  <2>2. ASSUME NEW u \in Others(s)' PROVE u \in Others(s) /\ req'[u].op = req[u].op /\ req'[u].held = req[u].held
    BY <1>1 DEF Others, Open
  <2>3. \A u \in Others(s)' : req'[u].op.source = req'[s].op.source => req'[u].held = NULL
    BY <1>2, <2>1, <2>2 DEF HeldIsCurrent
  <2>4. req[s].op.source \in SourceKeys
    BY <2>1, OpIs
  <2>5. /\ req[s].op.source \in DOMAIN sources' <=> req[s].op.source \in DOMAIN sources
        /\ req[s].op.source \in DOMAIN sources => sources'[req[s].op.source] = sources[req[s].op.source]
    BY <1>2, <2>1, <2>4
  <2>6. req[s].held = IF req[s].op.source \in DOMAIN sources
                      THEN Renamed(sources[req[s].op.source], req[s].found, req[s].op) ELSE Created(req[s].op)
    BY <1>2, <2>1 DEF HeldIsCurrent
  <2> QED
    BY <2>1, <2>3, <2>5, <2>6
<1> QED
  BY <1>2 DEF HeldIsCurrent, Open

\* What a failed run stores.
LEMMA FailedIs ==
    ASSUME Typed, HeldIsCurrent, NEW r \in Requests, Open(r), Failed(r)
    PROVE  /\ req' = Answer(r, 500) /\ rows' = rows /\ raced' = raced
           /\ \A s \in SourceKeys : s = req[r].op.source \/ ((s \in DOMAIN sources' <=> s \in DOMAIN sources)
                                                             /\ (s \in DOMAIN sources => sources'[s] = sources[s]))
           /\ sources' = sources \/ \A s \in Others(r) : req[s].op.source = req[r].op.source => req[s].held = NULL
<1>1. sources' = IF req[r].held = NULL THEN sources ELSE Put(sources, req[r].op.source, req[r].held)
  BY DEF Failed
<1>2. CASE req[r].held = NULL
  BY <1>1, <1>2 DEF Failed
<1>3. CASE req[r].held # NULL
  <2>1. \A s \in Others(r) : req[s].op.source = req[r].op.source => req[s].held = NULL
    BY <1>3 DEF HeldIsCurrent
  <2>2. \A s \in SourceKeys : s = req[r].op.source \/ ((s \in DOMAIN sources' <=> s \in DOMAIN sources)
                                                       /\ (s \in DOMAIN sources => sources'[s] = sources[s]))
    BY <1>1, <1>3 DEF Put
  <2> QED
    BY <2>1, <2>2 DEF Failed
<1> QED
  BY <1>2, <1>3

LEMMA FinishIs ==
    ASSUME Typed, NEW r \in Requests, Finish(r)
    PROVE  /\ Open(r) /\ req' = Answer(r, 200)
           /\ \A s \in SourceKeys : s = req[r].op.source \/ ((s \in DOMAIN sources' <=> s \in DOMAIN sources)
                                                             /\ (s \in DOMAIN sources => sources'[s] = sources[s]))
           /\ \A s \in Others(r) : req[s].op.source = req[r].op.source => req[s].held = NULL
<1> DEFINE row == Assign(IF req[r].held = NULL THEN sources[req[r].op.source] ELSE req[r].held, [last |-> r])
<1>1. sources' = Put(sources, req[r].op.source, row) /\ req' = Answer(r, 200) /\ ~SourceHeld(r) /\ Open(r)
  BY DEF Finish, Open
<1> HIDE DEF row
<1>2. \A s \in Others(r) : req[s].op.source = req[r].op.source => req[s].held = NULL
  BY <1>1 DEF SourceHeld
<1>3. \A s \in SourceKeys : s = req[r].op.source \/ ((s \in DOMAIN sources' <=> s \in DOMAIN sources)
                                                     /\ (s \in DOMAIN sources => sources'[s] = sources[s]))
  BY <1>1 DEF Put
<1> QED
  BY <1>1, <1>2, <1>3

LEMMA EnterHeld ==
    ASSUME Typed, HeldIsCurrent, NEW r \in Requests, Enter(r)
    PROVE  HeldIsCurrent'
<1> DEFINE o == req[r].op
           in == [req[r] EXCEPT !.pc = "reading"]
<1>1. Open(r) /\ req[r].pc = "entering" /\ ReqOK(req[r]) /\ HandsFit(req[r], rows, sources)
  BY OpIs DEF Enter, Open
<1>2. in.op = o /\ in.held = req[r].held /\ in.found = req[r].found
      /\ \A held : /\ [in EXCEPT !.held = held].op = o /\ [in EXCEPT !.held = held].held = held
                   /\ [in EXCEPT !.held = held].found = req[r].found
  BY <1>1 DEF ReqOK, Idle
<1>3. \/ Goes(r, Done(500))
      \/ Goes(r, in)
      \/ o.source \notin DOMAIN sources /\ ~SourceHeld(r) /\ Goes(r, [in EXCEPT !.held = Created(o)])
      \/ /\ o.source \in DOMAIN sources /\ ~SourceHeld(r)
         /\ Goes(r, [in EXCEPT !.held = Renamed(sources[o.source], req[r].found, o)])
  BY <1>1 DEF Enter, HandsFit
<1>4. CASE Goes(r, Done(500))
  <2>1. Done(500).held = NULL
    BY DEF Done, Idle
  <2> DEFINE q == Done(500)
  <2>2. q.held = NULL /\ Goes(r, q)
    BY <1>4, <2>1
  <2> HIDE DEF q
  <2> QED
    BY <2>2, GoesHeld
<1> HIDE DEF in, o
<1>5. CASE Goes(r, in)
  BY <1>1, <1>2, <1>5, GoesHeld DEF o
<1>6. ASSUME NEW held, ~SourceHeld(r), Goes(r, [in EXCEPT !.held = held]),
             held = IF o.source \in DOMAIN sources THEN Renamed(sources[o.source], req[r].found, o) ELSE Created(o)
      PROVE  HeldIsCurrent'
  <2> DEFINE q == [in EXCEPT !.held = held]
  <2>1. q.op = o /\ q.held = held /\ q.found = req[r].found /\ Goes(r, q)
    BY <1>2, <1>6
  <2> HIDE DEF q
  <2>2. HeldFits(r, q)
    BY <1>6, <2>1 DEF HeldFits, SourceHeld, o
  <2> QED
    BY <1>1, <1>6, <2>1, <2>2, GoesHeld DEF o
<1> QED
  BY <1>3, <1>4, <1>5, <1>6

LEMMA StepHeld ==
    ASSUME Typed, HeldIsCurrent, [Next]_vars
    PROVE  HeldIsCurrent'
<1>1. ASSUME NEW r \in Requests, NEW o \in Ops[r], Find(r, o) PROVE HeldIsCurrent'
  <2> DEFINE q == [Idle EXCEPT !.pc = "entering", !.op = o,
                          !.found = IF o.source \in DOMAIN sources THEN sources[o.source] ELSE NULL]
  <2>1. q.held = NULL /\ Goes(r, q)
    BY <1>1 DEF Find, Idle
  <2> HIDE DEF q
  <2> QED
    BY <2>1, GoesHeld
<1>2. ASSUME NEW r \in Requests, Open(r), NEW q, Goes(r, q), q.held = req[r].held, q.op = req[r].op,
             q.found = req[r].found
      PROVE  HeldIsCurrent'
  BY <1>2, GoesHeld
<1>3. \A r \in Requests : ReqOK(req[r])
  BY DEF Typed, TypeOK
<1>4. ASSUME NEW r \in Requests, ReadEntities(r) PROVE HeldIsCurrent'
  <2>1. PICK seen : Goes(r, [req[r] EXCEPT !.pc = "readingFields", !.seen = seen])
    BY <1>4 DEF ReadEntities
  <2> DEFINE q == [req[r] EXCEPT !.pc = "readingFields", !.seen = seen]
  <2>2. q.held = req[r].held /\ q.op = req[r].op /\ q.found = req[r].found /\ Goes(r, q) /\ Open(r)
    BY <1>3, <1>4, <2>1, StageIs DEF ReqOK, Idle
  <2> HIDE DEF q
  <2> QED
    BY <1>2, <2>2
<1>5. ASSUME NEW r \in Requests, ReadFields(r) PROVE HeldIsCurrent'
  <2>1. PICK seen : Goes(r, [req[r] EXCEPT !.pc = "upserting", !.seen = seen])
    BY <1>5 DEF ReadFields
  <2> DEFINE q == [req[r] EXCEPT !.pc = "upserting", !.seen = seen]
  <2>2. q.held = req[r].held /\ q.op = req[r].op /\ q.found = req[r].found /\ Goes(r, q) /\ Open(r)
    BY <1>3, <1>5, <2>1, StageIs DEF ReqOK, Idle
  <2> HIDE DEF q
  <2> QED
    BY <1>2, <2>2
<1>6. ASSUME NEW r \in Requests, Open(r), Failed(r) PROVE HeldIsCurrent'
  <2>1. /\ req' = Answer(r, 500)
        /\ \A s \in SourceKeys : s = req[r].op.source \/ ((s \in DOMAIN sources' <=> s \in DOMAIN sources)
                                                          /\ (s \in DOMAIN sources => sources'[s] = sources[s]))
        /\ sources' = sources \/ \A s \in Others(r) : req[s].op.source = req[r].op.source => req[s].held = NULL
    BY <1>6, FailedIs
  <2> QED
    BY <1>6, <2>1, CommitHeld
<1>7. ASSUME NEW r \in Requests, Upsert(r) PROVE HeldIsCurrent'
  <2>1. Open(r)
    BY <1>7, StageIs
  <2>2. Failed(r) \/ \E n, seen, tx : Goes(r, [req[r] EXCEPT !.at = n, !.seen = seen, !.tx = tx])
    BY <1>7 DEF Upsert
  <2>3. ASSUME NEW n, NEW seen, NEW tx, Goes(r, [req[r] EXCEPT !.at = n, !.seen = seen, !.tx = tx])
        PROVE  HeldIsCurrent'
    <3> DEFINE q == [req[r] EXCEPT !.at = n, !.seen = seen, !.tx = tx]
    <3>1. q.held = req[r].held /\ q.op = req[r].op /\ q.found = req[r].found /\ Goes(r, q)
      BY <1>3, <2>3 DEF ReqOK, Idle
    <3> HIDE DEF q
    <3> QED
      BY <1>2, <2>1, <3>1
  <2> QED
    BY <1>6, <2>1, <2>2, <2>3
<1>8. ASSUME NEW r \in Requests, MissEntities(r) PROVE HeldIsCurrent'
  <2>1. PICK ups : Goes(r, [req[r] EXCEPT !.pc = "sweeping", !.ups = ups])
    BY <1>8 DEF MissEntities
  <2> DEFINE q == [req[r] EXCEPT !.pc = "sweeping", !.ups = ups]
  <2>2. q.held = req[r].held /\ q.op = req[r].op /\ q.found = req[r].found /\ Goes(r, q) /\ Open(r)
    BY <1>3, <1>8, <2>1, StageIs DEF ReqOK, Idle
  <2> HIDE DEF q
  <2> QED
    BY <1>2, <2>2
<1>9. ASSUME NEW r \in Requests, MissFields(r) PROVE HeldIsCurrent'
  <2>1. PICK ups : Goes(r, [req[r] EXCEPT !.pc = "closing", !.ups = ups])
    BY <1>9 DEF MissFields
  <2> DEFINE q == [req[r] EXCEPT !.pc = "closing", !.ups = ups]
  <2>2. q.held = req[r].held /\ q.op = req[r].op /\ q.found = req[r].found /\ Goes(r, q) /\ Open(r)
    BY <1>3, <1>9, <2>1, StageIs DEF ReqOK, Idle
  <2> HIDE DEF q
  <2> QED
    BY <1>2, <2>2
<1>10. ASSUME NEW r \in Requests, Finish(r) PROVE HeldIsCurrent'
  <2>1. /\ Open(r) /\ req' = Answer(r, 200)
        /\ \A s \in SourceKeys : s = req[r].op.source \/ ((s \in DOMAIN sources' <=> s \in DOMAIN sources)
                                                          /\ (s \in DOMAIN sources => sources'[s] = sources[s]))
        /\ \A s \in Others(r) : req[s].op.source = req[r].op.source => req[s].held = NULL
    BY <1>10, FinishIs
  <2> QED
    BY <2>1, CommitHeld
<1>11. ASSUME NEW r \in Requests, Fail(r) PROVE HeldIsCurrent'
  BY <1>6, <1>11, StageIs DEF Fail
<1>12. ASSUME NEW r \in Requests, Abort(r) PROVE HeldIsCurrent'
  <2> DEFINE q == Done(500)
  <2>1. q.held = NULL /\ Goes(r, q)
    BY <1>12 DEF Abort, Done, Idle
  <2> HIDE DEF q
  <2> QED
    BY <2>1, GoesHeld
<1>13. CASE UNCHANGED vars
  BY <1>13 DEF vars, HeldIsCurrent, Open, Others
<1> QED
  BY <1>1, <1>4, <1>5, <1>7, <1>8, <1>9, <1>10, <1>11, <1>12, <1>13, EnterHeld DEF Next, Terminated

(***************************************************************************)
(* What a sync that nobody has overtaken has in hand.                      *)
(***************************************************************************)

LEMMA GoesFresh ==
    ASSUME Typed, NotOvertaken, NEW r \in Requests, NEW q, Goes(r, q),
           q.pc \notin {"idle", "done"} /\ ~q.late => UpToDate(r, q)
    PROVE  NotOvertaken'
<1>1. /\ sources' = sources /\ rows' = rows /\ runs' = runs /\ raced' = raced
      /\ DOMAIN req' = Requests /\ req'[r] = q /\ \A s \in Requests \ {r} : req'[s] = req[s]
  BY GoesIs
<1>2. ASSUME NEW s \in Requests, NEW p, UpToDate(s, p) PROVE UpToDate(s, p)'
  BY <1>1, <1>2 DEF UpToDate
<1>3. ASSUME NEW s \in Requests, req'[s].pc \notin {"idle", "done"}, ~req'[s].late
      PROVE  \E p : p = req'[s] /\ UpToDate(s, p)
  <2>1. CASE s = r
    BY <1>1, <1>3, <2>1
  <2>2. CASE s # r
    BY <1>1, <1>3, <2>2 DEF NotOvertaken, Open
  <2> QED
    BY <2>1, <2>2
<1>4. ASSUME NEW s \in Requests, Open(s)', ~req'[s].late PROVE UpToDate(s, req[s])'
  <2>1. PICK p : p = req'[s] /\ UpToDate(s, p)
    BY <1>3, <1>4 DEF Open
  <2>2. UpToDate(s, p)'
    BY <1>2, <2>1
  <2> QED
    BY <2>1, <2>2 DEF UpToDate
<1> QED
  BY <1>4 DEF NotOvertaken

LEMMA CommitFresh ==
    ASSUME Typed, NEW r \in Requests, Open(r), NEW code \in {200, 500}, req' = Answer(r, code)
    PROVE  NotOvertaken'
<1>1. \A s \in Requests : Open(s)' => s # r /\ Open(s)
  BY AnswerIs DEF Open
<1>2. \A s \in Requests : Open(s)' => req'[s].late
  BY <1>1, AnswerIs
<1> QED
  BY <1>2 DEF NotOvertaken

LEMMA FindFresh ==
    ASSUME Typed, InOrder, NotOvertaken, NEW r \in Requests, NEW o \in Ops[r], Find(r, o)
    PROVE  NotOvertaken'
<1> DEFINE q == [Idle EXCEPT !.pc = "entering", !.op = o,
                        !.found = IF o.source \in DOMAIN sources THEN sources[o.source] ELSE NULL]
<1>1. /\ q.pc = "entering" /\ q.op = o /\ Goes(r, q)
      /\ q.found = IF o.source \in DOMAIN sources THEN sources[o.source] ELSE NULL
  BY DEF Find, Idle
<1> HIDE DEF q
<1>2. ASSUME NEW n \in DOMAIN runs PROVE n < r
  <2>1. CASE n \in Requests
    <3>1. req[n].pc = "done" /\ req[r].pc = "idle"
      BY <2>1 DEF Find, Typed, EndedOnce
    <3>2. ~(r < n) /\ n # r
      BY <2>1, <3>1 DEF InOrder
    <3> QED
      BY <2>1, <3>2, RequestsAssumption
  <2>2. CASE n \notin Requests
    BY <1>2, <2>2, RequestsAssumption DEF Typed, TypeOK, RunsOK
  <2> QED
    BY <2>1, <2>2
<1>3. UpToDate(r, q)
  BY <1>1, <1>2 DEF UpToDate, Progress
<1> QED
  BY <1>1, <1>3, GoesFresh

LEMMA EnterFresh ==
    ASSUME Typed, NotOvertaken, NEW r \in Requests, Enter(r)
    PROVE  NotOvertaken'
<1> DEFINE o == req[r].op
           in == [req[r] EXCEPT !.pc = "reading"]
<1>1. Open(r) /\ req[r].pc = "entering" /\ ReqOK(req[r]) /\ HandsFit(req[r], rows, sources) /\ o.info \in Infos
  BY OpIs DEF Enter, Open
<1>2. /\ in.op = o /\ in.held = NULL /\ in.late = req[r].late /\ in.pc = "reading"
      /\ \A held : /\ [in EXCEPT !.held = held].op = o /\ [in EXCEPT !.held = held].held = held
                   /\ [in EXCEPT !.held = held].late = req[r].late /\ [in EXCEPT !.held = held].pc = "reading"
  BY <1>1 DEF ReqOK, Idle, HandsFit
<1>3. CASE Goes(r, Done(500))
  <2> DEFINE q == Done(500)
  <2>1. q.pc = "done" /\ Goes(r, q)
    BY <1>3, DoneIsReq
  <2> HIDE DEF q
  <2> QED
    BY <2>1, GoesFresh
<1>4. req[r].found # NULL => SourceOK(sources[o.source])
  BY <1>1 DEF HandsFit, Typed, TypeOK, SourcesOK
<1>5. \/ Goes(r, Done(500))
      \/ Goes(r, in) /\ req[r].found # NULL /\ req[r].found.info = o.info
      \/ Goes(r, [in EXCEPT !.held = Created(o)])
      \/ Goes(r, [in EXCEPT !.held = Renamed(sources[o.source], req[r].found, o)]) /\ req[r].found # NULL
  BY DEF Enter
<1> HIDE DEF in, o
<1>6. ~req[r].late => /\ \A n \in DOMAIN runs : n < r
                      /\ req[r].found = IF o.source \in DOMAIN sources THEN sources[o.source] ELSE NULL
  BY <1>1 DEF NotOvertaken, UpToDate, o
<1>7. CASE Goes(r, in) /\ req[r].found # NULL /\ req[r].found.info = o.info
  <2>1. ~in.late => UpToDate(r, in)
    BY <1>2, <1>6, <1>7 DEF UpToDate, Progress
  <2> QED
    BY <1>7, <2>1, GoesFresh
<1>8. ASSUME NEW held, held # NULL, ~req[r].late => held.info = o.info, Goes(r, [in EXCEPT !.held = held])
      PROVE  NotOvertaken'
  <2> DEFINE q == [in EXCEPT !.held = held]
  <2>1. q.op = o /\ q.held = held /\ q.late = req[r].late /\ q.pc = "reading" /\ Goes(r, q)
    BY <1>2, <1>8
  <2> HIDE DEF q
  <2>2. ~q.late => UpToDate(r, q)
    BY <1>6, <1>8, <2>1 DEF UpToDate, Progress
  <2> QED
    BY <2>1, <2>2, GoesFresh
<1>9. CASE Goes(r, [in EXCEPT !.held = Created(o)])
  <2> DEFINE held == Created(o)
  <2>1. held # NULL /\ held.info = o.info /\ Goes(r, [in EXCEPT !.held = held])
    BY <1>1, <1>9, CreatedIs DEF o
  <2> HIDE DEF held
  <2> QED
    BY <1>8, <2>1
<1>10. CASE Goes(r, [in EXCEPT !.held = Renamed(sources[o.source], req[r].found, o)]) /\ req[r].found # NULL
  <2> DEFINE held == Renamed(sources[o.source], req[r].found, o)
  <2>1. held # NULL /\ (sources[o.source] = req[r].found => held.info = o.info)
    BY <1>1, <1>4, <1>10, RenamedIs DEF o
  <2>2. ~req[r].late => sources[o.source] = req[r].found
    BY <1>6, <1>10
  <2>3. Goes(r, [in EXCEPT !.held = held])
    BY <1>10
  <2> HIDE DEF held
  <2> QED
    BY <1>8, <2>1, <2>2, <2>3
<1> QED
  BY <1>3, <1>5, <1>7, <1>9, <1>10

LEMMA ProceedsFresh ==
    ASSUME Typed, NotOvertaken, NEW r \in Requests, Open(r), NEW q, Goes(r, q), q.op = req[r].op,
           q.held = req[r].held, q.late = req[r].late, q.pc # "entering", req[r].pc # "entering",
           ~req[r].late /\ ~raced => Progress(q, rows)
    PROVE  NotOvertaken'
<1>1. ~req[r].late => UpToDate(r, req[r])
  BY DEF NotOvertaken
<1>2. ~q.late => UpToDate(r, q)
  BY <1>1 DEF UpToDate
<1> QED
  BY <1>2, GoesFresh

\* What a request of a stage knows, unless it is late.
LEMMA KnownIs ==
    ASSUME Typed, NotOvertaken, NEW r \in Requests, Open(r), ~req[r].late, ~raced
    PROVE  Progress(req[r], rows) /\ HandsFit(req[r], rows, sources) /\ ReqOK(req[r])
BY OpIs DEF NotOvertaken, UpToDate

LEMMA ReadEntitiesFresh ==
    ASSUME Typed, NotOvertaken, NEW r \in Requests, ReadEntities(r)
    PROVE  NotOvertaken'
<1> DEFINE o == req[r].op
           seen == Of(rows, {o.source} \X ModelLabels)
           q == [req[r] EXCEPT !.pc = "readingFields", !.seen = seen]
<1>1. Open(r) /\ req[r].pc = "reading" /\ Goes(r, q) /\ ReqOK(req[r])
  BY DEF ReadEntities, Open, Typed, TypeOK
<1>2. q.op = o /\ q.held = req[r].held /\ q.late = req[r].late /\ q.pc = "readingFields" /\ q.seen = seen
  BY <1>1 DEF ReqOK, Idle
<1> HIDE DEF q
<1>3. Progress(q, rows)
  BY <1>2 DEF Progress
<1> QED
  BY <1>1, <1>2, <1>3, ProceedsFresh

LEMMA ReadFieldsFresh ==
    ASSUME Typed, NotOvertaken, NEW r \in Requests, ReadFields(r)
    PROVE  NotOvertaken'
<1> DEFINE o == req[r].op
           of == Of(rows, {k \in RowKeys : Len(k) = 3 /\ <<k[1], k[2]>> \in DOMAIN req[r].seen})
           seen == Over(req[r].seen, of)
           q == [req[r] EXCEPT !.pc = "upserting", !.seen = seen]
<1>1. Open(r) /\ req[r].pc = "readingFields" /\ Goes(r, q) /\ ReqOK(req[r]) /\ HandsFit(req[r], rows, sources)
      /\ o.source \in SourceKeys
  BY OpIs DEF ReadFields, Open
<1>2. /\ q.op = o /\ q.held = req[r].held /\ q.late = req[r].late /\ q.pc = "upserting" /\ q.seen = seen
      /\ q.at = req[r].at /\ q.tx = req[r].tx /\ q.ups = req[r].ups
  BY <1>1 DEF ReqOK, Idle
<1>3. q.at = 0 /\ DOMAIN q.tx = {} /\ DOMAIN q.ups = {}
  BY <1>1, <1>2, NothingIs DEF HandsFit
<1>4. /\ DOMAIN of = {k \in DOMAIN rows : k \in RowKeys /\ Len(k) = 3 /\ <<k[1], k[2]>> \in DOMAIN req[r].seen}
      /\ \A k \in DOMAIN of : of[k] = rows[k]
  BY DEF Of
<1>5. DOMAIN seen = DOMAIN req[r].seen \cup DOMAIN of
      /\ \A k \in DOMAIN seen : seen[k] = IF k \in DOMAIN req[r].seen THEN req[r].seen[k] ELSE of[k]
  BY DEF Over
<1> HIDE DEF q, seen, of
<1>6. ASSUME ~req[r].late, ~raced PROVE Progress(q, rows)
  <2>1. req[r].seen = Of(rows, {o.source} \X ModelLabels)
    BY <1>1, <1>6, KnownIs DEF Progress
  <2>2. /\ DOMAIN req[r].seen = {k \in DOMAIN rows : k \in {o.source} \X ModelLabels}
        /\ \A k \in DOMAIN req[r].seen : req[r].seen[k] = rows[k]
    BY <2>1 DEF Of
  <2>3. ASSUME NEW k \in DOMAIN rows PROVE k \in DOMAIN seen <=> k[1] = o.source
    <3>1. k \in RowKeys /\ (Len(k) = 3 => <<k[1], k[2]>> \in DOMAIN rows)
      BY DEF Typed, TypeOK, RowsOK
    <3>2. CASE Len(k) = 2
      <4>3. Len(k) # 3
        BY <3>2
      <4>1. k = <<k[1], k[2]>> /\ k[2] \in ModelLabels
        BY <3>1, <4>3, KeyShape, Zenon
      <4>2. k \in {o.source} \X ModelLabels <=> k[1] = o.source
        BY <4>1
      <4> QED
        BY <1>4, <1>5, <2>2, <3>2, <4>2
    <3>3. CASE Len(k) = 3
      <4>1. k \notin {o.source} \X ModelLabels
        BY <3>3
      <4>2. <<k[1], k[2]>> \in {o.source} \X ModelLabels <=> k[1] = o.source
        BY <3>1, KeyShape
      <4> QED
        BY <1>4, <1>5, <2>2, <3>1, <3>3, <4>1, <4>2
    <3> QED
      BY <3>1, <3>2, <3>3, KeyShape
  <2>4. \A k \in DOMAIN seen : k \in DOMAIN rows /\ seen[k] = rows[k]
    BY <1>4, <1>5, <2>2
  <2>5. DOMAIN Over(q.tx, rows) = DOMAIN rows
    BY <1>3 DEF Over
  <2>6. DOMAIN seen = {k \in DOMAIN Over(q.tx, rows) : k[1] = o.source}
    BY <2>3, <2>4, <2>5
  <2>7. \A k \in 1..q.at : FALSE
    BY <1>3
  <2> QED
    BY <1>2, <1>3, <2>3, <2>4, <2>6, <2>7 DEF Progress
<1> QED
  BY <1>1, <1>2, <1>6, ProceedsFresh

\* A row that is left alone, or assigned what differs, is as the item asks.
LEMMA UnchangedIsAsked ==
    ASSUME NEW row, row.hash = Hash(row), NEW i, Unchanged(row, i)
    PROVE  row.type = i.type /\ row.text = i.text /\ row.hash = Hash(i) /\ row.is_active
BY DEF Hash, Unchanged

LEMMA AssignIsAsked ==
    ASSUME NEW row, RowOK(row), NEW i, ItemOK(i)
    PROVE  AsAsked(Assign(row, [c \in Dirty(row, Wanted(i)) |-> Wanted(i)[c]]), i)
<1> DEFINE w == Wanted(i)
           set == [c \in Dirty(row, w) |-> w[c]]
           new == Assign(row, set)
<1>1. DOMAIN w = {"type", "text", "hash", "is_active"} /\ DOMAIN row = DOMAIN w
  BY WantedRow DEF RowOK
<1>2. DOMAIN set = {c \in DOMAIN w : w[c] # row[c]} /\ \A c \in DOMAIN set : set[c] = w[c]
  BY DEF Dirty
<1>3. \A c \in DOMAIN row : new[c] = IF c \in DOMAIN set THEN set[c] ELSE row[c]
  BY DEF Assign
<1>4. w.type = i.type /\ w.text = i.text /\ w.hash = Hash(i) /\ w.is_active = TRUE
  BY WantedRow
<1> HIDE DEF w, set, new
<1>5. \A c \in DOMAIN w : new[c] = w[c]
  BY <1>1, <1>2, <1>3
<1>6. new.type = w.type /\ new.text = w.text /\ new.hash = w.hash /\ new.is_active = w.is_active
  BY <1>1, <1>5
<1>7. AsAsked(new, i)
  BY <1>4, <1>6 DEF AsAsked
<1> QED
  BY <1>7 DEF new, set, w

\* The items up to the next that is new are as they ask, once the assignments are flushed.
LEMMA HandledIs ==
    ASSUME Typed, NotOvertaken, CalmIsCurrent, NEW r \in Requests, req[r].pc = "upserting",
           ~req[r].late, ~raced
    PROVE  LET n    == NextNew(r)
               is   == Items(req[r].op)
               ups  == Updates(req[r].seen, Before(r, n))
               view == View(r)
           IN  /\ DOMAIN ups \subseteq {is[k].key : k \in req[r].at + 1 .. n - 1}
               /\ \A k \in 1 .. n - 1 :
                     /\ k \in DOMAIN is /\ is[k].key \in DOMAIN view
                     /\ AsAsked(IF is[k].key \in DOMAIN ups THEN Written(view, ups)[is[k].key]
                                ELSE view[is[k].key], is[k])
<1> DEFINE n == NextNew(r)
           is == Items(req[r].op)
           at == req[r].at
           seen == req[r].seen
           before == Before(r, n)
           ups == Updates(seen, before)
           view == View(r)
           key(k) == is[k].key
<1>1. Open(r)
  BY DEF Open
<1>2. /\ Payload(req[r].op) /\ at \in 0..Len(is) /\ HandsFit(req[r], rows, sources) /\ ReqOK(req[r])
      /\ Progress(req[r], rows)
  BY <1>1, OpIs, KnownIs
<1>3. /\ Len(is) \in Nat /\ DOMAIN is = 1..Len(is)
      /\ \A k \in DOMAIN is : ItemOK(is[k]) /\ key(k)[1] = req[r].op.source
      /\ \A j, k \in DOMAIN is : key(j) = key(k) => j = k
  BY <1>2, ItemsAre
<1>4. n \in Nat /\ at < n /\ n <= Len(is) + 1 /\ \A k \in DOMAIN is : at < k /\ k < n => key(k) \in DOMAIN seen
  BY <1>2, NextNewIs
<1>5. before = {is[k] : k \in at + 1 .. n - 1}
  BY DEF Before
<1>6. /\ view = Over(req[r].tx, rows) /\ DOMAIN view = DOMAIN req[r].tx \cup DOMAIN rows
      /\ \A k \in DOMAIN view : view[k] = IF k \in DOMAIN req[r].tx THEN req[r].tx[k] ELSE rows[k]
      /\ \A k \in DOMAIN view : RowOK(view[k])
  BY <1>1, ViewIs DEF View, Over
<1> HIDE DEF n, at, before, ups, view, seen
<1>7. /\ DOMAIN seen = {k \in DOMAIN view : k[1] = req[r].op.source}
      /\ \A k \in 1..at : AsAsked(view[key(k)], is[k])
      /\ DOMAIN req[r].tx \subseteq {key(k) : k \in 1..at}
      /\ \A k \in {j \in DOMAIN rows \ {key(l) : l \in 1..at} : j[1] = req[r].op.source} :
            k \in DOMAIN seen /\ seen[k] = rows[k]
  BY <1>2, <1>6 DEF Progress, at, seen
<1>8. \A k \in 1..at : key(k) \in DOMAIN view
  BY <1>2, <1>6 DEF HandsFit, at, seen
<1> HIDE DEF is
<1>9. /\ \A i \in before : ItemOK(i)
      /\ \A i, j \in before : i.key = j.key => i = j
      /\ \A k \in at + 1 .. n - 1 : k \in DOMAIN is /\ is[k] \in before
      /\ \A i \in before : \E k \in at + 1 .. n - 1 : i = is[k]
  BY <1>2, <1>3, <1>4, <1>5
<1>10. /\ DOMAIN ups \subseteq {i.key : i \in before}
       /\ \A i \in before : i.key \in DOMAIN ups <=> ~Unchanged(seen[i.key], i)
       /\ \A i \in before : ~Unchanged(seen[i.key], i) =>
             ups[i.key] = [c \in Dirty(seen[i.key], Wanted(i)) |-> Wanted(i)[c]]
  BY <1>9, UpdatesAre DEF ups
<1>11. DOMAIN ups \subseteq {key(k) : k \in at + 1 .. n - 1}
  BY <1>9, <1>10
<1>12. \A k \in DOMAIN ups : Written(view, ups)[k] = Assign(view[k], ups[k])
  BY DEF Written
<1>13. ASSUME NEW k \in 1 .. n - 1
       PROVE  /\ k \in DOMAIN is /\ key(k) \in DOMAIN view
              /\ AsAsked(IF key(k) \in DOMAIN ups THEN Written(view, ups)[key(k)] ELSE view[key(k)], is[k])
  <2>1. k \in DOMAIN is /\ k \in Nat /\ at \in Nat
    BY <1>2, <1>3, <1>4
  <2>2. CASE k <= at
    <3>1. k \in 1..at
      BY <2>1, <2>2
    <3>2. key(k) \notin DOMAIN ups
      <4> SUFFICES ASSUME key(k) \in DOMAIN ups PROVE FALSE
        OBVIOUS
      <4>1. PICK j \in at + 1 .. n - 1 : key(k) = key(j)
        BY <1>11
      <4>2. j = k
        BY <1>3, <1>9, <2>1, <4>1
      <4> QED
        BY <1>4, <2>1, <2>2, <4>2
    <3> QED
      BY <1>7, <1>8, <2>1, <3>1, <3>2
  <2>3. CASE at < k
    <3>1. k \in at + 1 .. n - 1 /\ k < n
      BY <1>4, <2>1, <2>3
    <3>2. key(k) \in DOMAIN seen /\ is[k] \in before /\ ItemOK(is[k])
      BY <1>3, <1>4, <1>9, <2>1, <2>3, <3>1
    <3>3. key(k) \in DOMAIN view /\ key(k)[1] = req[r].op.source
      BY <1>7, <3>2
    <3>4. \A j \in 1..at : key(j) # key(k)
      BY <1>2, <1>3, <2>1, <2>3
    <3>5. key(k) \notin DOMAIN req[r].tx /\ key(k) \in DOMAIN rows
      BY <1>6, <1>7, <3>3, <3>4
    <3>6. view[key(k)] = seen[key(k)] /\ view[key(k)] = rows[key(k)]
      BY <1>6, <1>7, <3>3, <3>4, <3>5
    <3>7. CASE Unchanged(seen[key(k)], is[k])
      <4>1. key(k) \notin DOMAIN ups
        BY <1>10, <3>2, <3>7
      <4>2. rows[key(k)].hash = Hash(rows[key(k)]) /\ Unchanged(rows[key(k)], is[k])
        BY <3>5, <3>6, <3>7 DEF CalmIsCurrent
      <4>3. rows[key(k)].type = is[k].type /\ rows[key(k)].text = is[k].text /\ rows[key(k)].hash = Hash(is[k])
            /\ rows[key(k)].is_active
        BY <4>2, UnchangedIsAsked
      <4>4. rows[key(k)].is_active = TRUE
        BY <1>6, <3>3, <3>6, <4>3 DEF RowOK
      <4> QED
        BY <2>1, <3>3, <3>6, <4>1, <4>3, <4>4 DEF AsAsked
    <3>8. CASE ~Unchanged(seen[key(k)], is[k])
      <4>1. /\ key(k) \in DOMAIN ups
            /\ ups[key(k)] = [c \in Dirty(seen[key(k)], Wanted(is[k])) |-> Wanted(is[k])[c]]
        BY <1>10, <3>2, <3>8
      <4>2. AsAsked(Assign(view[key(k)], ups[key(k)]), is[k])
        BY <1>6, <3>2, <3>3, <3>6, <4>1, AssignIsAsked
      <4> QED
        BY <1>12, <2>1, <3>3, <4>1, <4>2
    <3> QED
      BY <3>7, <3>8
  <2> QED
    BY <2>1, <2>2, <2>3
<1> QED
  BY <1>11, <1>13 DEF n, is, at, seen, before, ups, view

LEMMA UpsertFresh ==
    ASSUME Typed, NotOvertaken, CalmIsCurrent, NEW r \in Requests, Upsert(r), ~Failed(r)
    PROVE  NotOvertaken'
<1> DEFINE o == req[r].op
           is == Items(o)
           n == NextNew(r)
           item == is[n]
           view == View(r)
           ups == Updates(req[r].seen, Before(r, n))
           made == [k \in {item.key} |-> Wanted(item)]
           written == Written(view, ups)
           seen == Over(made, req[r].seen)
           tx == Over(made, Over(written, req[r].tx))
           q == [req[r] EXCEPT !.at = n, !.seen = seen, !.tx = tx]
<1>1. Open(r) /\ req[r].pc = "upserting" /\ n <= Len(is) /\ Goes(r, q)
  BY DEF Upsert, Open
<1>2. ReqOK(req[r]) /\ HandsFit(req[r], rows, sources) /\ Payload(o) /\ req[r].at \in 0..Len(is)
  BY <1>1, OpIs
<1>3. /\ q.op = o /\ q.held = req[r].held /\ q.late = req[r].late /\ q.pc = "upserting" /\ q.seen = seen
      /\ q.at = n /\ q.tx = tx /\ q.ups = req[r].ups
  BY <1>1, <1>2 DEF ReqOK, Idle
<1> HIDE DEF q
<1>4. ASSUME ~req[r].late, ~raced PROVE Progress(q, rows)
  <2>1. Progress(req[r], rows)
    BY <1>1, <1>4, KnownIs
  <2>2. /\ DOMAIN ups \subseteq {is[k].key : k \in req[r].at + 1 .. n - 1}
        /\ \A k \in 1 .. n - 1 :
              /\ k \in DOMAIN is /\ is[k].key \in DOMAIN view
              /\ AsAsked(IF is[k].key \in DOMAIN ups THEN written[is[k].key] ELSE view[is[k].key], is[k])
    BY <1>1, <1>4, HandledIs
  <2>3. /\ Len(is) \in Nat /\ DOMAIN is = 1..Len(is)
        /\ \A k \in DOMAIN is : ItemOK(is[k]) /\ is[k].key[1] = o.source
        /\ \A j, k \in DOMAIN is : is[j].key = is[k].key => j = k
    BY <1>2, ItemsAre
  <2>4. n \in Nat /\ n \in DOMAIN is /\ req[r].at < n /\ item.key \notin DOMAIN req[r].seen
    BY <1>1, <1>2, NextNewIs
  <2>5. DOMAIN written = DOMAIN ups
    BY DEF Written
  <2>6. /\ view = Over(req[r].tx, rows) /\ DOMAIN view = DOMAIN req[r].tx \cup DOMAIN rows
        /\ \A k \in DOMAIN view : view[k] = IF k \in DOMAIN req[r].tx THEN req[r].tx[k] ELSE rows[k]
    BY DEF View, Over
  <2> HIDE DEF n, is, ups, view, written
  <2>7. /\ DOMAIN req[r].seen = {k \in DOMAIN view : k[1] = o.source}
        /\ DOMAIN req[r].tx \subseteq {is[k].key : k \in 1..req[r].at}
        /\ \A k \in {j \in DOMAIN rows \ {is[l].key : l \in 1..req[r].at} : j[1] = o.source} :
              k \in DOMAIN req[r].seen /\ req[r].seen[k] = rows[k]
        /\ req[r].ups = Nothing
    BY <1>1, <1>2, <2>1, <2>6 DEF Progress, HandsFit, is
  <2>8. DOMAIN made = {item.key} /\ made[item.key] = Wanted(item)
    OBVIOUS
  <2>9. item.key[1] = o.source /\ ItemOK(item)
    BY <2>3, <2>4
  <2> HIDE DEF made, item
  <2>10. /\ DOMAIN seen = {item.key} \cup DOMAIN req[r].seen
         /\ \A k \in DOMAIN seen : k # item.key => seen[k] = req[r].seen[k]
    BY <2>8 DEF Over
  <2>11. /\ DOMAIN tx = {item.key} \cup DOMAIN ups \cup DOMAIN req[r].tx
         /\ \A k \in DOMAIN tx : tx[k] = IF k = item.key THEN Wanted(item)
                                         ELSE IF k \in DOMAIN ups THEN written[k] ELSE req[r].tx[k]
    BY <2>5, <2>8 DEF Over
  <2> HIDE DEF seen, tx
  <2> DEFINE new == Over(tx, rows)
  <2>12. DOMAIN new = DOMAIN tx \cup DOMAIN rows
         /\ \A k \in DOMAIN new : new[k] = IF k \in DOMAIN tx THEN tx[k] ELSE rows[k]
    BY DEF Over
  <2> HIDE DEF new
  <2>13. \A k \in 1..req[r].at : k \in 1 .. n - 1
    BY <1>2, <2>3, <2>4
  <2>14. \A k \in req[r].at + 1 .. n - 1 : k \in 1 .. n - 1
    BY <1>2, <2>3, <2>4
  <2>15. DOMAIN ups \subseteq DOMAIN view
    BY <2>2, <2>14
  <2>16. DOMAIN new = DOMAIN view \cup {item.key}
    BY <2>6, <2>11, <2>12, <2>15
  <2>17. DOMAIN seen = {k \in DOMAIN new : k[1] = o.source}
    BY <2>7, <2>9, <2>10, <2>16
  <2>18. ASSUME NEW k \in 1..n PROVE AsAsked(new[is[k].key], is[k])
    <3>1. CASE k = n
      <4>1. is[k] = item /\ new[item.key] = Wanted(item)
        BY <2>11, <2>12, <3>1 DEF item
      <4> QED
        BY <2>9, <4>1, WantedRow DEF AsAsked
    <3>2. CASE k # n
      <4>1. k \in 1 .. n - 1 /\ k \in DOMAIN is
        BY <2>2, <2>4, <3>2
      <4>2. is[k].key # item.key /\ is[k].key \in DOMAIN view
        BY <2>2, <2>3, <2>4, <3>2, <4>1 DEF item
      <4>3. new[is[k].key] = IF is[k].key \in DOMAIN ups THEN written[is[k].key] ELSE view[is[k].key]
        BY <2>6, <2>11, <2>12, <2>15, <4>2
      <4> QED
        BY <2>2, <4>1, <4>3
    <3> QED
      BY <3>1, <3>2
  <2>19. \A k \in 1 .. n - 1 : k \in 1..n
    BY <2>4
  <2>23. n \in 1..n
    BY <2>3, <2>4
  <2>20. DOMAIN tx \subseteq {is[k].key : k \in 1..n}
    BY <2>2, <2>7, <2>11, <2>13, <2>14, <2>19, <2>23 DEF item
  <2>21. ASSUME NEW k \in DOMAIN rows, k \notin {is[l].key : l \in 1..n}, k[1] = o.source
         PROVE  k \in DOMAIN seen /\ seen[k] = rows[k]
    <3>1. k \notin {is[l].key : l \in 1..req[r].at}
      BY <2>13, <2>19, <2>21
    <3>2. k \in DOMAIN req[r].seen /\ req[r].seen[k] = rows[k]
      BY <2>7, <2>21, <3>1
    <3>3. k # item.key
      BY <2>21, <2>23 DEF item
    <3> QED
      BY <2>10, <3>2, <3>3
  <2>22. DOMAIN q.ups = {}
    BY <1>3, <2>7, NothingIs
  <2>24. q.op.source = o.source /\ Items(q.op) = is /\ new = Over(q.tx, rows)
    BY <1>3 DEF is, new
  <2> HIDE DEF o
  <2> QED
    BY <1>3, <2>17, <2>18, <2>20, <2>21, <2>22, <2>24 DEF Progress
<1> QED
  BY <1>1, <1>3, <1>4, ProceedsFresh

LEMMA FlushedIs ==
    ASSUME NEW view, NEW ups, DOMAIN ups \subseteq DOMAIN view
    PROVE  /\ DOMAIN Over(Written(view, ups), view) = DOMAIN view
           /\ \A k \in DOMAIN view :
                 Over(Written(view, ups), view)[k] = IF k \in DOMAIN ups THEN Assign(view[k], ups[k]) ELSE view[k]
<1> DEFINE written == Written(view, ups)
<1>1. DOMAIN written = DOMAIN ups /\ \A k \in DOMAIN ups : written[k] = Assign(view[k], ups[k])
  BY DEF Written
<1> HIDE DEF written
<1>2. DOMAIN Over(written, view) = DOMAIN view
      /\ \A k \in DOMAIN view : Over(written, view)[k] = IF k \in DOMAIN ups THEN Assign(view[k], ups[k]) ELSE view[k]
  BY <1>1 DEF Over
<1> QED
  BY <1>2 DEF written

\* A row of which only is_active is assigned.
LEMMA AssignFlag ==
    ASSUME NEW row, RowOK(row), NEW set, DOMAIN set = {"is_active"}
    PROVE  /\ Assign(row, set).type = row.type /\ Assign(row, set).text = row.text
           /\ Assign(row, set).hash = row.hash /\ Assign(row, set).is_active = set.is_active
BY DEF RowOK, Assign

LEMMA MissEntitiesFresh ==
    ASSUME Typed, NotOvertaken, CalmIsCurrent, NEW r \in Requests, MissEntities(r)
    PROVE  NotOvertaken'
<1> DEFINE o == req[r].op
           is == Items(o)
           n == NextNew(r)
           view == View(r)
           new == Updates(req[r].seen, Before(r, n))
           missing == {k \in Active(view, o.source, 2) : k \notin KeysIn(is)}
           off == Off(r, missing)
           ups == Over(new, off)
           q == [req[r] EXCEPT !.pc = "sweeping", !.ups = ups]
           flushed == Over(Written(view, ups), view)
<1>1. Open(r) /\ req[r].pc = "upserting" /\ n > Len(is) /\ Goes(r, q)
  BY DEF MissEntities, Open
<1>2. ReqOK(req[r]) /\ HandsFit(req[r], rows, sources) /\ Payload(o) /\ req[r].at \in 0..Len(is)
  BY <1>1, OpIs
<1>3. /\ q.op = o /\ q.held = req[r].held /\ q.late = req[r].late /\ q.pc = "sweeping" /\ q.ups = ups
      /\ q.seen = req[r].seen /\ q.tx = req[r].tx
  BY <1>1, <1>2 DEF ReqOK, Idle
<1> HIDE DEF q
<1>4. ASSUME ~req[r].late, ~raced PROVE Progress(q, rows)
  <2>1. Progress(req[r], rows)
    BY <1>1, <1>4, KnownIs
  <2>2. /\ DOMAIN new \subseteq {is[k].key : k \in req[r].at + 1 .. n - 1}
        /\ \A k \in 1 .. n - 1 :
              /\ k \in DOMAIN is /\ is[k].key \in DOMAIN view
              /\ AsAsked(IF is[k].key \in DOMAIN new THEN Written(view, new)[is[k].key] ELSE view[is[k].key], is[k])
    BY <1>1, <1>4, HandledIs
  <2>3. Len(is) \in Nat /\ DOMAIN is = 1..Len(is) /\ n \in Nat /\ n <= Len(is) + 1
    BY <1>2, ItemsAre, NextNewIs
  <2>4. n - 1 = Len(is)
    BY <1>1, <2>3
  <2>5. /\ view = Over(req[r].tx, rows) /\ DOMAIN view = DOMAIN req[r].tx \cup DOMAIN rows
        /\ \A k \in DOMAIN view : view[k] = IF k \in DOMAIN req[r].tx THEN req[r].tx[k] ELSE rows[k]
        /\ \A k \in DOMAIN view : k \in RowKeys /\ RowOK(view[k])
    BY <1>1, ViewIs DEF View, Over
  <2>6. \A k \in DOMAIN is : is[k].key \in KeysIn(is)
    BY DEF KeysIn
  <2>16. \A k \in KeysIn(is) : \E j \in DOMAIN is : k = is[j].key
    BY DEF KeysIn
  <2>7. /\ missing = {k \in DOMAIN view : k[1] = o.source /\ Len(k) = 2 /\ view[k].is_active /\ k \notin KeysIn(is)}
    BY DEF Active
  <2> HIDE DEF n, is, view, new, missing
  <2>8. /\ DOMAIN off \subseteq missing
        /\ \A k \in missing : k \in DOMAIN off <=> (k \notin DOMAIN req[r].seen \/ req[r].seen[k].is_active)
        /\ \A k \in DOMAIN off : DOMAIN off[k] = {"is_active"} /\ off[k].is_active = FALSE
    BY OffIs
  <2>9. /\ DOMAIN req[r].tx \subseteq {is[k].key : k \in 1..req[r].at}
        /\ \A k \in {j \in DOMAIN rows \ {is[l].key : l \in 1..req[r].at} : j[1] = o.source} :
              k \in DOMAIN req[r].seen /\ req[r].seen[k] = rows[k]
    BY <1>1, <2>1 DEF Progress, is
  <2>10. \A k \in 1..req[r].at : k \in DOMAIN is
    BY <1>2, <2>3 DEF is
  <2>11. DOMAIN req[r].tx \subseteq KeysIn(is)
    BY <2>6, <2>9, <2>10
  <2> HIDE DEF off
  <2>12. /\ DOMAIN ups = DOMAIN new \cup DOMAIN off
         /\ \A k \in DOMAIN ups : ups[k] = IF k \in DOMAIN new THEN new[k] ELSE off[k]
    BY DEF Over
  <2>13. DOMAIN new \subseteq KeysIn(is) /\ DOMAIN new \subseteq DOMAIN view
    <3>1. \A k \in req[r].at + 1 .. n - 1 : k \in 1 .. n - 1
      BY <1>2, <2>3 DEF is
    <3> QED
      BY <2>2, <2>6, <3>1
  <2>14. \A k \in DOMAIN off : k \notin KeysIn(is) /\ k \in DOMAIN view /\ Len(k) = 2
    BY <2>7, <2>8
  <2> HIDE DEF ups
  <2>15. /\ DOMAIN flushed = DOMAIN view
         /\ \A k \in DOMAIN view : flushed[k] = IF k \in DOMAIN ups THEN Assign(view[k], ups[k]) ELSE view[k]
    BY <2>12, <2>13, <2>14, FlushedIs
  <2> HIDE DEF flushed
  <2>17. ASSUME NEW k \in DOMAIN is PROVE is[k].key \in DOMAIN view /\ AsAsked(flushed[is[k].key], is[k])
    <3>1. /\ is[k].key \in DOMAIN view
          /\ AsAsked(IF is[k].key \in DOMAIN new THEN Written(view, new)[is[k].key] ELSE view[is[k].key], is[k])
      BY <2>2, <2>3, <2>4
    <3>2. is[k].key \in DOMAIN ups <=> is[k].key \in DOMAIN new
      BY <2>6, <2>12, <2>14
    <3>3. is[k].key \in DOMAIN new => ups[is[k].key] = new[is[k].key]
                                      /\ Written(view, new)[is[k].key] = Assign(view[is[k].key], new[is[k].key])
      BY <2>12 DEF Written
    <3> QED
      BY <2>15, <3>1, <3>2, <3>3
  <2>18. ASSUME NEW k \in DOMAIN rows, k \notin KeysIn(is), k[1] = o.source
         PROVE  k \in DOMAIN req[r].seen /\ req[r].seen[k] = rows[k] /\ (Len(k) = 3 => k \notin DOMAIN ups)
    <3>1. k \notin {is[l].key : l \in 1..req[r].at}
      BY <2>6, <2>10, <2>18
    <3> QED
      BY <2>9, <2>12, <2>13, <2>14, <2>18, <3>1
  <2>19. ASSUME NEW k \in DOMAIN flushed, k[1] = o.source, Len(k) = 2, flushed[k].is_active, k \notin KeysIn(is)
         PROVE  FALSE
    <3>1. k \in DOMAIN view /\ k \in DOMAIN rows /\ view[k] = rows[k] /\ RowOK(view[k])
      BY <2>5, <2>11, <2>15, <2>19
    <3>2. k \in DOMAIN req[r].seen /\ req[r].seen[k] = view[k]
      BY <2>18, <2>19, <3>1
    <3>3. CASE k \in DOMAIN ups
      <4>1. k \in DOMAIN off /\ ups[k] = off[k]
        BY <2>12, <2>13, <2>19, <3>3
      <4>2. Assign(view[k], ups[k]).is_active = FALSE
        BY <2>8, <3>1, <4>1, AssignFlag
      <4> QED
        BY <2>15, <2>19, <3>1, <3>3, <4>2
    <3>4. CASE k \notin DOMAIN ups
      <4>1. view[k].is_active
        BY <2>15, <2>19, <3>1, <3>4
      <4>2. k \in missing
        BY <2>7, <2>19, <3>1, <4>1
      <4> QED
        BY <2>8, <2>12, <3>2, <3>4, <4>1, <4>2
    <3> QED
      BY <3>3, <3>4
  <2>20. Active(flushed, o.source, 2) \subseteq KeysIn(is)
    BY <2>19 DEF Active
  <2>21. \A k \in DOMAIN ups \ KeysIn(is) : DOMAIN ups[k] = {"is_active"}
    BY <2>8, <2>12, <2>13
  <2>22. q.op.source = o.source /\ Items(q.op) = is /\ view = Over(q.tx, rows) /\ flushed = Over(Written(view, q.ups), view)
    BY <1>3, <2>5 DEF is, flushed
  <2> HIDE DEF o
  <2> QED
    BY <1>3, <2>11, <2>17, <2>18, <2>20, <2>21, <2>22 DEF Progress
<1> QED
  BY <1>1, <1>3, <1>4, ProceedsFresh

LEMMA MissFieldsFresh ==
    ASSUME Typed, NotOvertaken, NEW r \in Requests, MissFields(r)
    PROVE  NotOvertaken'
<1> DEFINE o == req[r].op
           is == Items(o)
           view == View(r)
           old == req[r].ups
           missing == {k \in Active(view, o.source, 3) : <<k[1], k[2]>> \in KeysIn(is) /\ k \notin KeysIn(is)}
           off == Off(r, missing)
           ups == Over(old, off)
           q == [req[r] EXCEPT !.pc = "closing", !.ups = ups]
           before == Over(Written(view, old), view)
           flushed == Over(Written(view, ups), view)
<1>1. Open(r) /\ req[r].pc = "sweeping" /\ Goes(r, q)
  BY DEF MissFields, Open
<1>2. ReqOK(req[r]) /\ HandsFit(req[r], rows, sources) /\ Payload(o)
  BY <1>1, OpIs
<1>3. /\ q.op = o /\ q.held = req[r].held /\ q.late = req[r].late /\ q.pc = "closing" /\ q.ups = ups
      /\ q.tx = req[r].tx
  BY <1>1, <1>2 DEF ReqOK, Idle
<1> HIDE DEF q
<1>4. ASSUME ~req[r].late, ~raced PROVE Progress(q, rows)
  <2>1. Progress(req[r], rows)
    BY <1>1, <1>4, KnownIs
  <2>5. /\ view = Over(req[r].tx, rows) /\ DOMAIN view = DOMAIN req[r].tx \cup DOMAIN rows
        /\ \A k \in DOMAIN view : view[k] = IF k \in DOMAIN req[r].tx THEN req[r].tx[k] ELSE rows[k]
        /\ \A k \in DOMAIN view : k \in RowKeys /\ RowOK(view[k])
    BY <1>1, ViewIs DEF View, Over
  <2>6. \A k \in DOMAIN is : is[k].key \in KeysIn(is)
    BY DEF KeysIn
  <2>7. missing = {k \in DOMAIN view : /\ k[1] = o.source /\ Len(k) = 3 /\ view[k].is_active
                                       /\ <<k[1], k[2]>> \in KeysIn(is) /\ k \notin KeysIn(is)}
    BY DEF Active
  <2> HIDE DEF is, view, missing
  <2>8. /\ DOMAIN off \subseteq missing
        /\ \A k \in missing : k \in DOMAIN off <=> (k \notin DOMAIN req[r].seen \/ req[r].seen[k].is_active)
        /\ \A k \in DOMAIN off : DOMAIN off[k] = {"is_active"} /\ off[k].is_active = FALSE
    BY OffIs
  <2>9. /\ DOMAIN req[r].tx \subseteq KeysIn(is)
        /\ \A k \in DOMAIN old \ KeysIn(is) : DOMAIN old[k] = {"is_active"}
        /\ \A k \in {j \in DOMAIN rows \ KeysIn(is) : j[1] = o.source} :
              /\ k \in DOMAIN req[r].seen /\ req[r].seen[k] = rows[k]
              /\ Len(k) = 3 => k \notin DOMAIN old
        /\ \A k \in DOMAIN is : is[k].key \in DOMAIN view /\ AsAsked(before[is[k].key], is[k])
        /\ Active(before, o.source, 2) \subseteq KeysIn(is)
    <3>1. Items(req[r].op) = is /\ Over(req[r].tx, rows) = view
      BY <2>5 DEF is
    <3> QED
      BY <1>1, <2>1, <3>1 DEF Progress
  <2>10. DOMAIN old \subseteq DOMAIN view
    BY <1>2, <2>5 DEF HandsFit
  <2> HIDE DEF off, old
  <2>12. /\ DOMAIN ups = DOMAIN old \cup DOMAIN off
         /\ \A k \in DOMAIN ups : ups[k] = IF k \in DOMAIN old THEN old[k] ELSE off[k]
    BY DEF Over
  <2>14. \A k \in DOMAIN off : k \notin KeysIn(is) /\ k \in DOMAIN view /\ Len(k) = 3
    BY <2>7, <2>8
  <2> HIDE DEF ups
  <2>15. /\ DOMAIN flushed = DOMAIN view
         /\ \A k \in DOMAIN view : flushed[k] = IF k \in DOMAIN ups THEN Assign(view[k], ups[k]) ELSE view[k]
    BY <2>10, <2>12, <2>14, FlushedIs
  <2>16. /\ DOMAIN before = DOMAIN view
         /\ \A k \in DOMAIN view : before[k] = IF k \in DOMAIN old THEN Assign(view[k], old[k]) ELSE view[k]
    BY <2>10, FlushedIs
  <2> HIDE DEF flushed, before
  <2>17. \A k \in DOMAIN view : k \notin DOMAIN off => flushed[k] = before[k]
    BY <2>12, <2>15, <2>16
  <2>18. ASSUME NEW k \in DOMAIN is PROVE is[k].key \in DOMAIN view /\ AsAsked(flushed[is[k].key], is[k])
    BY <2>6, <2>9, <2>14, <2>17
  <2>19. Active(flushed, o.source, 2) \subseteq KeysIn(is)
    <3>1. \A k \in Active(flushed, o.source, 2) : k \in DOMAIN view /\ Len(k) = 2 /\ k[1] = o.source /\ flushed[k].is_active
      BY <2>15 DEF Active
    <3>2. \A k \in Active(flushed, o.source, 2) : k \notin DOMAIN off
      BY <2>14, <3>1
    <3>3. \A k \in Active(flushed, o.source, 2) : k \in Active(before, o.source, 2)
      BY <2>16, <2>17, <3>1, <3>2 DEF Active
    <3> QED
      BY <2>9, <3>3
  <2>20. ASSUME NEW k \in DOMAIN flushed, k[1] = o.source, Len(k) = 3, flushed[k].is_active,
                <<k[1], k[2]>> \in KeysIn(is), k \notin KeysIn(is)
         PROVE  FALSE
    <3>1. k \in DOMAIN view /\ k \in DOMAIN rows /\ view[k] = rows[k] /\ RowOK(view[k])
      BY <2>5, <2>9, <2>15, <2>20
    <3>2. k \in DOMAIN req[r].seen /\ req[r].seen[k] = view[k] /\ k \notin DOMAIN old
      BY <2>9, <2>20, <3>1
    <3>3. CASE k \in DOMAIN off
      <4>1. k \in DOMAIN ups /\ ups[k] = off[k]
        BY <2>12, <3>2, <3>3
      <4>2. Assign(view[k], ups[k]).is_active = FALSE
        BY <2>8, <3>1, <3>3, <4>1, AssignFlag
      <4> QED
        BY <2>15, <2>20, <3>1, <4>1, <4>2
    <3>4. CASE k \notin DOMAIN off
      <4>1. view[k].is_active
        BY <2>16, <2>17, <2>20, <3>1, <3>2, <3>4
      <4>2. k \in missing
        BY <2>7, <2>20, <3>1, <4>1
      <4> QED
        BY <2>8, <3>2, <3>4, <4>1, <4>2
    <3> QED
      BY <3>3, <3>4
  <2>21. \A k \in Active(flushed, o.source, 3) : <<k[1], k[2]>> \in KeysIn(is) => k \in KeysIn(is)
    BY <2>20 DEF Active
  <2>22. \A k \in DOMAIN ups \ KeysIn(is) : DOMAIN ups[k] = {"is_active"}
    BY <2>8, <2>9, <2>12
  <2>23. q.op.source = o.source /\ Items(q.op) = is /\ view = Over(q.tx, rows) /\ flushed = Over(Written(view, q.ups), view)
    BY <1>3, <2>5 DEF is, flushed
  <2> HIDE DEF o
  <2> QED
    BY <1>3, <2>9, <2>18, <2>19, <2>21, <2>22, <2>23 DEF Progress
<1> QED
  BY <1>1, <1>3, <1>4, ProceedsFresh

LEMMA StepFresh ==
    ASSUME Typed, InOrder, NotOvertaken, CalmIsCurrent, [Next]_vars
    PROVE  NotOvertaken'
<1>1. ASSUME NEW r \in Requests, Open(r), Failed(r) PROVE NotOvertaken'
  BY <1>1, CommitFresh DEF Failed
<1>2. ASSUME NEW r \in Requests, Upsert(r) PROVE NotOvertaken'
  BY <1>1, <1>2, StageIs, UpsertFresh
<1>3. ASSUME NEW r \in Requests, Fail(r) PROVE NotOvertaken'
  BY <1>1, <1>3, StageIs DEF Fail
<1>4. ASSUME NEW r \in Requests, Finish(r) PROVE NotOvertaken'
  BY <1>4, FinishIs, CommitFresh
<1>5. ASSUME NEW r \in Requests, Abort(r) PROVE NotOvertaken'
  <2> DEFINE q == Done(500)
  <2>1. q.pc = "done" /\ Goes(r, q)
    BY <1>5, DoneIsReq DEF Abort
  <2> HIDE DEF q
  <2> QED
    BY <2>1, GoesFresh
<1>6. CASE UNCHANGED vars
  BY <1>6 DEF vars, NotOvertaken, UpToDate, Open
<1> QED
  BY <1>2, <1>3, <1>4, <1>5, <1>6, FindFresh, EnterFresh, ReadEntitiesFresh, ReadFieldsFresh,
     MissEntitiesFresh, MissFieldsFresh DEF Next, Terminated

(***************************************************************************)
(* What is committed.                                                      *)
(***************************************************************************)

\* The rows that a sync leaves that nobody has overtaken.
LEMMA FinishRows ==
    ASSUME Typed, NotOvertaken, CalmIsCurrent, NEW r \in Requests, Finish(r), ~raced, ~req[r].late
    PROVE  LET o == req[r].op  is == Items(o) IN
           /\ \A k \in DOMAIN rows' : k[1] # o.source => k \in DOMAIN rows /\ rows'[k] = rows[k]
           /\ DOMAIN rows \subseteq DOMAIN rows'
           /\ \A k \in DOMAIN is : is[k].key \in DOMAIN rows' /\ AsAsked(rows'[is[k].key], is[k])
           /\ Active(rows', o.source, 2) \subseteq KeysIn(is)
           /\ \A k \in Active(rows', o.source, 3) : <<k[1], k[2]>> \in KeysIn(is) => k \in KeysIn(is)
           /\ IsFiniteSet(DOMAIN rows') /\ \A k \in DOMAIN rows' : rows'[k].hash = Hash(rows'[k])
<1> DEFINE o == req[r].op
           is == Items(o)
           view == View(r)
           ups == req[r].ups
           flushed == Over(Written(view, ups), view)
<1>1. Open(r) /\ req[r].pc = "closing" /\ rows' = flushed
  BY DEF Finish, Open
<1>2. HandsFit(req[r], rows, sources) /\ Payload(o) /\ Progress(req[r], rows)
  BY <1>1, OpIs, KnownIs
<1>3. /\ view = Over(req[r].tx, rows) /\ DOMAIN view = DOMAIN req[r].tx \cup DOMAIN rows
      /\ \A k \in DOMAIN view : view[k] = IF k \in DOMAIN req[r].tx THEN req[r].tx[k] ELSE rows[k]
      /\ \A k \in DOMAIN view : k \in RowKeys /\ RowOK(view[k])
  BY <1>1, ViewIs DEF View, Over
<1> HIDE DEF view
<1>4. /\ DOMAIN req[r].tx \subseteq KeysIn(is)
      /\ \A k \in DOMAIN ups \ KeysIn(is) : DOMAIN ups[k] = {"is_active"}
      /\ \A k \in DOMAIN is : is[k].key \in DOMAIN view /\ AsAsked(flushed[is[k].key], is[k])
      /\ Active(flushed, o.source, 2) \subseteq KeysIn(is)
      /\ \A k \in Active(flushed, o.source, 3) : <<k[1], k[2]>> \in KeysIn(is) => k \in KeysIn(is)
  BY <1>1, <1>2, <1>3 DEF Progress
<1>5. /\ DOMAIN ups \subseteq DOMAIN view
      /\ \A k \in DOMAIN req[r].tx \cup DOMAIN ups : k[1] = o.source
  BY <1>2, <1>3 DEF HandsFit
<1>6. /\ DOMAIN flushed = DOMAIN view
      /\ \A k \in DOMAIN view : flushed[k] = IF k \in DOMAIN ups THEN Assign(view[k], ups[k]) ELSE view[k]
  BY <1>5, FlushedIs
<1> HIDE DEF flushed, ups, is
<1>7. IsFiniteSet(DOMAIN flushed)
  <2>1. IsFiniteSet(KeysIn(is)) /\ IsFiniteSet(DOMAIN rows)
    BY <1>2, ItemCounts DEF is, CalmIsCurrent
  <2>2. IsFiniteSet(DOMAIN req[r].tx)
    BY <1>4, <2>1, FS_Subset
  <2>3. IsFiniteSet(DOMAIN req[r].tx \cup DOMAIN rows)
    BY <2>1, <2>2, FS_Union
  <2> QED
    BY <1>3, <1>6, <2>3
<1>8. ASSUME NEW k \in DOMAIN flushed PROVE flushed[k].hash = Hash(flushed[k])
  <2>1. CASE k \in KeysIn(is)
    <3>1. PICK j \in DOMAIN is : k = is[j].key
      BY <2>1 DEF KeysIn
    <3> QED
      BY <1>4, <3>1 DEF AsAsked, Hash
  <2>2. CASE k \notin KeysIn(is)
    <3>1. view[k] = rows[k] /\ k \in DOMAIN rows /\ RowOK(view[k])
      BY <1>3, <1>4, <1>6, <2>2
    <3>2. view[k].hash = Hash(view[k])
      BY <3>1 DEF CalmIsCurrent
    <3>3. CASE k \in DOMAIN ups
      <4>1. /\ flushed[k] = Assign(view[k], ups[k]) /\ DOMAIN ups[k] = {"is_active"}
        BY <1>4, <1>6, <2>2, <3>3
      <4>2. flushed[k].type = view[k].type /\ flushed[k].text = view[k].text /\ flushed[k].hash = view[k].hash
        BY <3>1, <4>1, AssignFlag
      <4> QED
        BY <3>2, <4>2 DEF Hash
    <3>4. CASE k \notin DOMAIN ups
      BY <1>6, <3>2, <3>4
    <3> QED
      BY <3>3, <3>4
  <2> QED
    BY <2>1, <2>2
<1>9. \A k \in DOMAIN flushed : k[1] # o.source => k \in DOMAIN rows /\ flushed[k] = rows[k]
  BY <1>3, <1>5, <1>6
<1> QED
  BY <1>1, <1>3, <1>4, <1>6, <1>7, <1>8, <1>9 DEF is

LEMMA StepCalm ==
    ASSUME Typed, NotOvertaken, CalmIsCurrent, [Next]_vars
    PROVE  CalmIsCurrent'
<1>1. CASE UNCHANGED <<sources, rows, runs, raced, calm>>
  BY <1>1 DEF CalmIsCurrent
<1>2. ASSUME NEW r \in Requests, Failed(r) PROVE CalmIsCurrent'
  <2>1. rows' = rows /\ raced' = raced /\ (~raced => calm' = Answers(sources', rows, runs'))
    BY <1>2 DEF Failed
  <2> QED
    BY <2>1 DEF CalmIsCurrent
<1>3. ASSUME NEW r \in Requests, Finish(r) PROVE CalmIsCurrent'
  <2> SUFFICES ASSUME ~raced' PROVE CalmIsCurrent'
    BY DEF CalmIsCurrent
  <2>1. raced' = (raced \/ req[r].late) /\ calm' = Answers(sources', rows', runs')
    BY <1>3 DEF Finish
  <2>2. ~raced /\ ~req[r].late
    BY <2>1
  <2>3. IsFiniteSet(DOMAIN rows') /\ \A k \in DOMAIN rows' : rows'[k].hash = Hash(rows'[k])
    BY <1>3, <2>2, FinishRows
  <2> QED
    BY <2>1, <2>3 DEF CalmIsCurrent
<1>4. ASSUME NEW r \in Requests,
             \/ \E o \in Ops[r] : Find(r, o)
             \/ Enter(r) \/ ReadEntities(r) \/ ReadFields(r) \/ MissEntities(r) \/ MissFields(r) \/ Abort(r)
      PROVE  UNCHANGED <<sources, rows, runs, raced, calm>>
  BY <1>4, ZenonT(60) DEF Find, Enter, ReadEntities, ReadFields, MissEntities, MissFields, Abort, Goes
<1>5. ASSUME NEW r \in Requests, Upsert(r)
      PROVE  Failed(r) \/ UNCHANGED <<sources, rows, runs, raced, calm>>
  BY <1>5 DEF Upsert, Goes
<1>6. UNCHANGED vars => UNCHANGED <<sources, rows, runs, raced, calm>>
  BY DEF vars
<1> QED
  BY <1>1, <1>2, <1>3, <1>4, <1>5, <1>6 DEF Next, Terminated, Fail

(***************************************************************************)
(* The invariant.                                                          *)
(***************************************************************************)

IInv == Typed /\ InOrder /\ HeldIsCurrent /\ NotOvertaken /\ CalmIsCurrent

LEMMA InvariantAlways == Spec => []IInv
<1>1. Init => IInv
  <2> SUFFICES ASSUME Init PROVE IInv
    OBVIOUS
  <2>1. \A r \in Requests : req[r].pc = "idle"
    BY DEF Init, Idle
  <2>2. InOrder /\ HeldIsCurrent /\ NotOvertaken
    BY <2>1 DEF InOrder, HeldIsCurrent, NotOvertaken, Open
  <2>3. CalmIsCurrent
    BY InitAssumption DEF Init, CalmIsCurrent
  <2> QED
    BY <2>2, <2>3, InitTyped DEF IInv
<1>2. IInv /\ [Next]_vars => IInv'
  BY StepTyped, StepInOrder, StepHeld, StepFresh, StepCalm DEF IInv
<1> QED
  BY <1>1, <1>2, PTL DEF Spec

\* The row of a source that a sync has written and not committed is the stored one but for
\* its assignments, however many syncs overlap and fail.
THEOREM HeldStaysCurrent == Spec => []HeldIsCurrent
<1>1. IInv => HeldIsCurrent
  BY DEF IInv
<1> QED
  BY <1>1, InvariantAlways, PTL

\* What a sync has read, handled and swept is true of the stored rows as long as nobody
\* has committed since it began.
THEOREM ReadsStayCurrent == Spec => []NotOvertaken
<1>1. IInv => NotOvertaken
  BY DEF IInv
<1> QED
  BY <1>1, InvariantAlways, PTL

(***************************************************************************)
(* What the queries answer.                                                *)
(***************************************************************************)

\* A table of rows, each field with its model.
Table(t) == \A k \in DOMAIN t : k \in RowKeys /\ (Len(k) = 3 => <<k[1], k[2]>> \in DOMAIN t)

\* What is counted is what is listed.
LEMMA CountsAre ==
    ASSUME NEW t, Table(t), IsFiniteSet(DOMAIN t), NEW s
    PROVE  /\ Cardinality(Active(t, s, 2)) = Cardinality(Listed(t, s))
           /\ Cardinality(Shown(t, s)) = Cardinality(Book!FieldsIn(Listed(t, s)))
<1> DEFINE models == Active(t, s, 2)
           fields == Shown(t, s)
           entry(e) == <<e[2], Detail(t, e)>>
           cell(k) == <<k[2], <<k[3], Columns(t[k])>>>>
<1>1. models \subseteq DOMAIN t /\ \A e \in models : e[1] = s /\ e \in RowKeys /\ Len(e) = 2 /\ t[e].is_active
  BY DEF Active, Table
<1>2. \A k \in DOMAIN t : k \in fields <=> k[1] = s /\ Len(k) = 3 /\ t[k].is_active /\ t[<<s, k[2]>>].is_active
  BY DEF Shown, Active
<1>3. fields \subseteq DOMAIN t
  BY DEF Shown, Active
<1>4. \A e \in models : e = <<s, e[2]>>
  <2> SUFFICES ASSUME NEW e \in models PROVE e = <<s, e[2]>>
    OBVIOUS
  <2>1. e \in RowKeys /\ e[1] = s /\ Len(e) # 3
    BY <1>1
  <2>2. e = <<e[1], e[2]>>
    BY <2>1, KeyShape, Zenon
  <2> QED
    BY <2>1, <2>2
<1>5. \A k \in fields : k = <<s, k[2], k[3]>> /\ <<s, k[2]>> \in models
  <2> SUFFICES ASSUME NEW k \in fields PROVE k = <<s, k[2], k[3]>> /\ <<s, k[2]>> \in models
    OBVIOUS
  <2>1. k \in RowKeys /\ k[1] = s /\ Len(k) # 2 /\ <<k[1], k[2]>> \in DOMAIN t /\ t[<<s, k[2]>>].is_active
    BY <1>2, <1>3 DEF Table
  <2>2. k = <<k[1], k[2], k[3]>> /\ Len(<<k[1], k[2]>>) = 2 /\ <<k[1], k[2]>>[1] = k[1]
    BY <2>1, KeyShape, Zenon
  <2>3. <<s, k[2]>> \in Active(t, s, 2)
    BY <2>1, <2>2 DEF Active
  <2> QED
    BY <2>1, <2>2, <2>3
<1>6. Listed(t, s) = {entry(e) : e \in models}
  BY DEF Listed
<1>7. \A e \in models : Detail(t, e).fields = {<<k[3], Columns(t[k])>> : k \in {j \in Active(t, s, 3) : j[2] = e[2]}}
  BY <1>1 DEF Detail
<1> HIDE DEF models, fields
<1>8. Cardinality(models) = Cardinality(Listed(t, s))
  <2> DEFINE f == [e \in models |-> entry(e)]
  <2>1. f \in [models -> Listed(t, s)] /\ \A x \in Listed(t, s) : \E e \in models : f[e] = x
    BY <1>6
  <2>2. \A d, e \in models : f[d] = f[e] => d = e
    <3>1. \A d, e \in models : f[d] = f[e] => d[2] = e[2]
      OBVIOUS
    <3> QED
      BY <1>4, <3>1
  <2>3. IsFiniteSet(models)
    BY <1>1, FS_Subset
  <2> HIDE DEF f
  <2> QED
    BY <2>1, <2>2, <2>3, SameSize
<1>9. Book!FieldsIn(Listed(t, s)) = {cell(k) : k \in fields}
  <2>1. Book!FieldsIn(Listed(t, s)) = UNION {{<<m[1], f>> : f \in m[2].fields} : m \in Listed(t, s)}
    BY DEF Book!FieldsIn
  <2>2. ASSUME NEW x \in Book!FieldsIn(Listed(t, s)) PROVE x \in {cell(k) : k \in fields}
    <3>1. PICK m \in Listed(t, s) : x \in {<<m[1], f>> : f \in m[2].fields}
      BY <2>1
    <3>2. PICK e \in models : m = <<e[2], Detail(t, e)>>
      BY <1>6
    <3>3. PICK f \in Detail(t, e).fields : x = <<e[2], f>>
      BY <3>1, <3>2
    <3>4. PICK k \in Active(t, s, 3) : k[2] = e[2] /\ f = <<k[3], Columns(t[k])>>
      BY <1>7, <3>3
    <3>5. k \in fields
      BY <1>1, <1>2, <1>4, <3>4 DEF Active
    <3> QED
      BY <3>3, <3>4, <3>5
  <2>3. ASSUME NEW k \in fields PROVE cell(k) \in Book!FieldsIn(Listed(t, s))
    <3> DEFINE e == <<s, k[2]>>
    <3>1. e \in models /\ e[2] = k[2] /\ k \in Active(t, s, 3)
      BY <1>2, <1>3, <1>5 DEF Active
    <3> HIDE DEF e
    <3>2. <<k[3], Columns(t[k])>> \in Detail(t, e).fields
      BY <1>7, <3>1
    <3>3. <<e[2], Detail(t, e)>> \in Listed(t, s)
      BY <1>6, <3>1
    <3>4. \E m \in Listed(t, s) : cell(k) \in {<<m[1], f>> : f \in m[2].fields}
      BY <3>1, <3>2, <3>3
    <3> QED
      BY <2>1, <3>4
  <2> QED
    BY <2>2, <2>3
<1>10. Cardinality(fields) = Cardinality(Book!FieldsIn(Listed(t, s)))
  <2> DEFINE f == [k \in fields |-> cell(k)]
             all == {cell(k) : k \in fields}
  <2>1. f \in [fields -> all] /\ \A x \in all : \E k \in fields : f[k] = x
    OBVIOUS
  <2>2. \A j, k \in fields : f[j] = f[k] => j = k
    <3>1. \A j, k \in fields : f[j] = f[k] => j[2] = k[2] /\ j[3] = k[3]
      OBVIOUS
    <3> QED
      BY <1>5, <3>1
  <2>3. IsFiniteSet(fields)
    BY <1>3, FS_Subset
  <2> HIDE DEF f, all
  <2>4. Cardinality(all) = Cardinality(fields)
    BY <2>1, <2>2, <2>3, SameSize
  <2> QED
    BY <1>9, <2>4 DEF all
<1> QED
  BY <1>8, <1>10 DEF models, fields

\* The rows of a source decide what is listed and counted of it.
LEMMA SameRowsSameList ==
    ASSUME NEW t, NEW u, Table(t), Table(u), NEW s,
           \A k \in DOMAIN t \cup DOMAIN u : k[1] = s => k \in DOMAIN t /\ k \in DOMAIN u /\ t[k] = u[k]
    PROVE  Listed(t, s) = Listed(u, s) /\ Active(t, s, 2) = Active(u, s, 2) /\ Shown(t, s) = Shown(u, s)
<1>1. \A size : Active(t, s, size) = Active(u, s, size)
  BY DEF Active
<1>2. ASSUME NEW e \in Active(t, s, 2) PROVE Detail(t, e) = Detail(u, e)
  <2>1. e[1] = s /\ t[e] = u[e]
    BY DEF Active
  <2>2. \A k \in Active(t, s, 3) : t[k] = u[k]
    BY DEF Active
  <2>3. {<<k[3], Columns(t[k])>> : k \in {j \in Active(t, s, 3) : j[2] = e[2]}}
          = {<<k[3], Columns(u[k])>> : k \in {j \in Active(u, s, 3) : j[2] = e[2]}}
    BY <1>1, <2>2
  <2> QED
    BY <2>1, <2>3 DEF Detail
<1>3. ASSUME NEW k \in Active(t, s, 3) PROVE t[<<s, k[2]>>] = u[<<s, k[2]>>]
  <2>1. k \in RowKeys /\ k[1] = s /\ <<k[1], k[2]>> \in DOMAIN t
    BY DEF Active, Table
  <2>2. <<k[1], k[2]>>[1] = k[1]
    BY <2>1, KeyShape
  <2> QED
    BY <2>1, <2>2
<1>4. Listed(t, s) = Listed(u, s)
  BY <1>1, <1>2 DEF Listed
<1>5. Shown(t, s) = Shown(u, s)
  BY <1>1, <1>3 DEF Shown
<1> QED
  BY <1>1, <1>4, <1>5

\* The latest run of a source after one more has ended.
LEMMA LatestIs ==
    ASSUME NEW rs, DOMAIN rs \subseteq Nat, IsFiniteSet(DOMAIN rs), NEW r \in Nat, r \notin DOMAIN rs, NEW run
    PROVE  LET new  == Put(rs, r, run)
               this == [status |-> run.status, snapshot |-> run.snapshot]
           IN  /\ \A s : s # run.source => Latest(new, s) = Latest(rs, s)
               /\ Latest(new, run.source) \in {this, Latest(rs, run.source)}
               /\ (\A n \in DOMAIN rs : n < r) => Latest(new, run.source) = this
               /\ (\A n \in DOMAIN rs : rs[n].source # run.source) => Latest(new, run.source) = this
<1> DEFINE new == Put(rs, r, run)
           this == [status |-> run.status, snapshot |-> run.snapshot]
           mine(t, s) == {n \in DOMAIN t : t[n].source = s}
           greatest(S) == CHOOSE m \in S : \A l \in S : l <= m
           shown(t, n) == [status |-> t[n].status, snapshot |-> t[n].snapshot]
<1>1. DOMAIN new = DOMAIN rs \cup {r} /\ new[r] = run /\ \A n \in DOMAIN rs : new[n] = rs[n]
  BY DEF Put
<1>2. \A t, s : Latest(t, s) = IF mine(t, s) = {} THEN NULL ELSE shown(t, greatest(mine(t, s)))
  BY DEF Latest
<1>3. \A s : mine(rs, s) \subseteq DOMAIN rs /\ mine(new, s) \subseteq DOMAIN new
  OBVIOUS
<1>4. \A s : s # run.source => mine(new, s) = mine(rs, s)
  BY <1>1
<1>5. mine(new, run.source) = mine(rs, run.source) \cup {r}
  BY <1>1
<1>6. shown(new, r) = this /\ \A n \in DOMAIN rs : shown(new, n) = shown(rs, n)
  BY <1>1
<1>7. (\A n \in DOMAIN rs : rs[n].source # run.source) => mine(rs, run.source) = {}
  OBVIOUS
<1> HIDE DEF new, mine, shown, this
<1>8. ASSUME NEW S \in SUBSET Nat, S # {}, IsFiniteSet(S)
      PROVE  greatest(S) \in S /\ \A l \in S : l <= greatest(S)
  <2>1. \E n \in S : \A m \in S : m <= n
    BY <1>8, GreatestExists
  <2> QED
    BY <2>1
<1>9. ASSUME NEW S \in SUBSET Nat, IsFiniteSet(S), S # {}, NEW m \in S, \A l \in S : l <= m PROVE greatest(S) = m
  <2> DEFINE n == greatest(S)
  <2>1. n \in S /\ \A l \in S : l <= n
    BY <1>8, <1>9
  <2> HIDE DEF n
  <2>2. n \in Nat /\ m \in Nat /\ n <= m /\ m <= n
    BY <1>9, <2>1
  <2>3. n = m
    BY <2>2
  <2> QED
    BY <2>3 DEF n
<1> HIDE DEF greatest
<1>10. ASSUME NEW s, s # run.source PROVE Latest(new, s) = Latest(rs, s)
  <2>1. CASE mine(rs, s) = {}
    BY <1>2, <1>4, <1>10, <2>1
  <2>2. CASE mine(rs, s) # {}
    <3>1. mine(rs, s) \in SUBSET Nat /\ IsFiniteSet(mine(rs, s))
      BY <1>3, FS_Subset
    <3>2. greatest(mine(rs, s)) \in DOMAIN rs
      BY <1>3, <1>8, <2>2, <3>1
    <3> QED
      BY <1>2, <1>4, <1>6, <1>10, <2>2, <3>2
  <2> QED
    BY <2>1, <2>2
<1> DEFINE old == mine(rs, run.source)
           now == mine(new, run.source)
           g == greatest(now)
<1>11. old \in SUBSET Nat /\ IsFiniteSet(old) /\ now = old \cup {r}
  BY <1>3, <1>5, FS_Subset
<1>12. now \in SUBSET Nat /\ IsFiniteSet(now) /\ now # {}
  BY <1>11, FS_AddElement
<1>13. g \in now /\ \A l \in now : l <= g
  BY <1>8, <1>12
<1>14. Latest(new, run.source) = shown(new, g)
  BY <1>2, <1>12
<1>18. old \subseteq DOMAIN rs
  BY <1>3
<1> HIDE DEF old, now, g
<1>15. CASE g = r
  BY <1>6, <1>10, <1>14, <1>15 DEF new, this
<1>16. CASE g # r
  <2>1. g \in old /\ \A l \in old : l <= g
    BY <1>11, <1>13, <1>16
  <2>2. greatest(old) = g
    BY <1>9, <1>11, <2>1
  <2>3. Latest(rs, run.source) = shown(rs, g) /\ g \in DOMAIN rs
    BY <1>2, <1>18, <2>1, <2>2 DEF old
  <2>4. Latest(new, run.source) = Latest(rs, run.source)
    BY <1>6, <1>14, <2>3
  <2>5. ~(g < r)
    BY <1>11, <1>12, <1>13, <1>16
  <2>6. old # {}
    BY <2>1
  <2> QED
    BY <1>7, <1>10, <2>3, <2>4, <2>5, <2>6 DEF new, this, old
<1> QED
  BY <1>15, <1>16

\* The answers with that of one source replaced.
Revised(book, vs, u, qs, src) ==
    [s \in DOMAIN book \cup {src} |->
        IF s = src THEN [summary |-> Summary(vs, u, qs, src), listed |-> Listed(u, src)] ELSE book[s]]

\* What the queries answer changes of one source.
LEMMA AnswersAre ==
    ASSUME NEW ss, NEW t, NEW rs, NEW vs, NEW u, NEW qs, NEW src,
           DOMAIN vs = DOMAIN ss \cup {src},
           \A s \in DOMAIN ss : s # src => /\ vs[s] = ss[s] /\ Latest(qs, s) = Latest(rs, s)
                                           /\ Listed(u, s) = Listed(t, s) /\ Shown(u, s) = Shown(t, s)
                                           /\ Active(u, s, 2) = Active(t, s, 2)
    PROVE  Answers(vs, u, qs) = Revised(Answers(ss, t, rs), vs, u, qs, src)
<1>1. DOMAIN Answers(ss, t, rs) = DOMAIN ss
      /\ \A s \in DOMAIN ss : Answers(ss, t, rs)[s] = [summary |-> Summary(ss, t, rs, s), listed |-> Listed(t, s)]
  BY DEF Answers
<1>2. Answers(vs, u, qs) = [s \in DOMAIN vs |-> [summary |-> Summary(vs, u, qs, s), listed |-> Listed(u, s)]]
  BY DEF Answers
<1>3. ASSUME NEW s \in DOMAIN ss, s # src PROVE Summary(vs, u, qs, s) = Summary(ss, t, rs, s)
  BY <1>3 DEF Summary
<1>4. \A s \in DOMAIN vs : [summary |-> Summary(vs, u, qs, s), listed |-> Listed(u, s)]
                             = IF s = src THEN [summary |-> Summary(vs, u, qs, src), listed |-> Listed(u, src)]
                               ELSE Answers(ss, t, rs)[s]
  BY <1>1, <1>3
<1>5. Answers(vs, u, qs) =
         [s \in DOMAIN Answers(ss, t, rs) \cup {src} |->
             IF s = src THEN [summary |-> Summary(vs, u, qs, src), listed |-> Listed(u, src)]
             ELSE Answers(ss, t, rs)[s]]
  BY <1>1, <1>2, <1>4
<1> QED
  BY <1>5 DEF Revised

\* An entry of the book with another name and another latest run.
Renewed(was, j, y) == [was EXCEPT !.summary.info = j, !.summary.latest = y]

LEMMA EntryIs ==
    ASSUME NEW i, NEW l, NEW e, NEW f, NEW x, NEW list, NEW j, NEW y, NEW was,
           was = [summary |-> [info |-> i, last |-> l, entities |-> e, fields |-> f, latest |-> x], listed |-> list]
    PROVE  Renewed(was, j, y)
             = [summary |-> [info |-> j, last |-> l, entities |-> e, fields |-> f, latest |-> y], listed |-> list]
<1> DEFINE new == [was EXCEPT !.summary.info = j, !.summary.latest = y]
           inner == new.summary
<1>1. DOMAIN inner = {"info", "last", "entities", "fields", "latest"}
  OBVIOUS
<1>2. inner.info = j /\ inner.last = l /\ inner.entities = e /\ inner.fields = f /\ inner.latest = y
  OBVIOUS
<1>3. inner = [k \in DOMAIN inner |-> inner[k]]
  OBVIOUS
<1>4. DOMAIN new = {"summary", "listed"} /\ new = [k \in DOMAIN new |-> new[k]] /\ new.listed = list
  OBVIOUS
<1> DEFINE sum == [info |-> j, last |-> l, entities |-> e, fields |-> f, latest |-> y]
<1> HIDE DEF new
<1>5. inner = sum
  <2> HIDE DEF inner
  <2> QED
    BY <1>1, <1>2, <1>3
<1> HIDE DEF sum
<1>6. new = [summary |-> sum, listed |-> list]
  BY <1>4, <1>5
<1> QED
  BY <1>6 DEF Renewed, new, sum

LEMMA MixedNone ==
    ASSUME NEW i \in Infos, NEW j
    PROVE  \E columns \in SUBSET DOMAIN j : i = Book!Mixed(j, i, columns)
<1>1. {} \in SUBSET DOMAIN j
  OBVIOUS
<1>2. i = Book!Mixed(j, i, {})
  BY DEF Infos, Book!Mixed
<1> QED
  BY <1>1, <1>2

LEMMA RefusesIs ==
    ASSUME NEW p, NEW i, NEW y, NEW entry,
           \E columns \in SUBSET DOMAIN p.info : i = Book!Mixed(p.info, Book!Was(p).summary.info, columns),
           y \in {[status |-> "failed", snapshot |-> p.snapshot], Book!Was(p).summary.latest},
           entry = Renewed(Book!Was(p), i, y), Book!Becomes(p, entry)
    PROVE  Book!Refuse(p)
BY DEF Book!Refuse, Renewed

LEMMA CommonIs ==
    ASSUME IInv, NEW r \in Requests, Open(r)
    PROVE  /\ DOMAIN runs \subseteq Nat /\ IsFiniteSet(DOMAIN runs) /\ r \in Nat /\ r \notin DOMAIN runs
           /\ Table(rows) /\ req[r].op.source \in SourceKeys /\ Payload(req[r].op) /\ req[r].op.info \in Infos
           /\ [source |-> req[r].op.source, info |-> req[r].op.info, snapshot |-> req[r].op,
               listed |-> Asked(req[r].op)] \in Payloads
           /\ req[r].pc # "entering" => req[r].held # NULL \/ req[r].op.source \in DOMAIN sources
           /\ DOMAIN sources \subseteq SourceKeys
<1>1. Typed /\ TypeOK /\ EndedOnce
  BY DEF IInv, Typed
<1>2. DOMAIN runs \subseteq Nat /\ IsFiniteSet(DOMAIN runs) /\ r \in Nat
  BY <1>1, RequestsAssumption DEF TypeOK, RunsOK, EndedOnce
<1>3. Table(rows) /\ DOMAIN sources \subseteq SourceKeys
  BY <1>1 DEF TypeOK, RowsOK, Table, SourcesOK
<1>4. /\ r \notin DOMAIN runs /\ req[r].op.source \in SourceKeys /\ Payload(req[r].op) /\ req[r].op \in Posts
      /\ req[r].op.info \in Infos /\ HandsFit(req[r], rows, sources)
  BY <1>1, OpIs
<1>5. [source |-> req[r].op.source, info |-> req[r].op.info, snapshot |-> req[r].op,
       listed |-> Asked(req[r].op)] \in Payloads
  BY <1>4 DEF Payloads
<1> QED
  BY <1>2, <1>3, <1>4, <1>5 DEF HandsFit

\* A failed run becomes the latest of its source, and renames it.
LEMMA FailedRefuses ==
    ASSUME IInv, NEW r \in Requests, Open(r), req[r].pc # "entering", Failed(r)
    PROVE  Book!Next \/ calm' = calm
<1> DEFINE o == req[r].op
           src == o.source
           p == [source |-> o.source, info |-> o.info, snapshot |-> o, listed |-> Asked(o)]
           run == Run(r, "failed", <<>>)
<1> SUFFICES ASSUME ~raced PROVE Book!Refuse(p)
  <2>1. p \in Payloads
    BY CommonIs
  <2>2. raced => calm' = calm
    BY DEF Failed
  <2> HIDE DEF p
  <2> QED
    BY <2>1, <2>2 DEF Book!Next
<1>1. /\ calm = Answers(sources, rows, runs) /\ calm' = Answers(sources', rows, runs')
      /\ runs' = Put(runs, r, run)
      /\ sources' = IF req[r].held = NULL THEN sources ELSE Put(sources, src, req[r].held)
  BY DEF Failed, IInv, CalmIsCurrent
<1>2. run.source = src /\ run.snapshot = o /\ run.status = "failed"
  BY DEF Run
<1> HIDE DEF run
<1>3. /\ DOMAIN runs \subseteq Nat /\ IsFiniteSet(DOMAIN runs) /\ r \in Nat /\ r \notin DOMAIN runs
      /\ Table(rows) /\ (req[r].held # NULL \/ src \in DOMAIN sources) /\ o.info \in Infos
  BY CommonIs
<1> DEFINE failed == [status |-> "failed", snapshot |-> o]
<1>4. /\ \A s : s # src => Latest(runs', s) = Latest(runs, s)
      /\ Latest(runs', src) \in {failed, Latest(runs, src)}
      /\ (\A n \in DOMAIN runs : runs[n].source # src) => Latest(runs', src) = failed
  BY <1>1, <1>2, <1>3, LatestIs
<1>5. DOMAIN sources' = DOMAIN sources \cup {src} /\ \A s \in DOMAIN sources : s # src => sources'[s] = sources[s]
  BY <1>1, <1>3 DEF Put
<1> DEFINE entry == [summary |-> Summary(sources', rows, runs', src), listed |-> Listed(rows, src)]
<1>6. calm' = [s \in DOMAIN calm \cup {src} |-> IF s = src THEN entry ELSE calm[s]]
  <2>1. ASSUME NEW ss, NEW t, NEW rs, NEW vs, NEW qs, ss = sources, t = rows, rs = runs, vs = sources', qs = runs'
        PROVE  Answers(vs, t, qs) = Revised(Answers(ss, t, rs), vs, t, qs, src)
    <3>1. DOMAIN vs = DOMAIN ss \cup {src}
          /\ \A s \in DOMAIN ss : s # src => vs[s] = ss[s] /\ Latest(qs, s) = Latest(rs, s)
      BY <1>4, <1>5, <2>1
    <3> HIDE DEF src
    <3>2. \A s \in DOMAIN ss : s # src => /\ vs[s] = ss[s] /\ Latest(qs, s) = Latest(rs, s)
                                          /\ Listed(t, s) = Listed(t, s) /\ Shown(t, s) = Shown(t, s)
                                          /\ Active(t, s, 2) = Active(t, s, 2)
      BY <3>1
    <3> QED
      BY <3>1, <3>2, AnswersAre
  <2> QED
    BY <1>1, <2>1 DEF Revised
<1>7. entry = [summary |-> [info |-> sources'[src].info, last |-> sources'[src].last,
                            entities |-> Cardinality(Active(rows, src, 2)), fields |-> Cardinality(Shown(rows, src)),
                            latest |-> Latest(runs', src)],
               listed |-> Listed(rows, src)]
  BY DEF Summary
<1> HIDE DEF entry
<1>8. CASE src \in DOMAIN sources
  <2>1. Book!Was(p) = [summary |-> [info |-> sources[src].info, last |-> sources[src].last,
                                    entities |-> Cardinality(Active(rows, src, 2)),
                                    fields |-> Cardinality(Shown(rows, src)), latest |-> Latest(runs, src)],
                       listed |-> Listed(rows, src)]
    <3>1. DOMAIN calm = DOMAIN sources /\ calm[src] = [summary |-> Summary(sources, rows, runs, src), listed |-> Listed(rows, src)]
      BY <1>1, <1>8 DEF Answers
    <3> QED
      BY <1>8, <3>1 DEF Book!Was, Summary
  <2>2. SourceOK(sources[src])
    BY <1>8 DEF IInv, Typed, TypeOK, SourcesOK
  <2>3. /\ sources'[src].last = sources[src].last
        /\ \E columns \in SUBSET DOMAIN o.info :
              sources'[src].info = Book!Mixed(o.info, sources[src].info, columns)
    <3>1. CASE req[r].held = NULL
      <4>1. sources[src].info \in Infos
        BY <2>2 DEF SourceOK
      <4>2. \E columns \in SUBSET DOMAIN o.info :
               sources[src].info = Book!Mixed(o.info, sources[src].info, columns)
        BY <4>1, MixedNone
      <4> QED
        BY <1>1, <3>1, <4>2
    <3>2. CASE req[r].held # NULL
      <4>1. req[r].held = Renamed(sources[src], req[r].found, o)
        BY <1>8, <3>2 DEF IInv, HeldIsCurrent
      <4>2. sources'[src] = req[r].held
        BY <1>1, <3>2 DEF Put
      <4> QED
        BY <1>3, <2>2, <4>1, <4>2, RenamedIs
    <3> QED
      BY <3>1, <3>2
  <2> DEFINE was == Book!Was(p)
             info == sources'[src].info
             latest == Latest(runs', src)
  <2>4. /\ \E columns \in SUBSET DOMAIN p.info : info = Book!Mixed(p.info, was.summary.info, columns)
        /\ latest \in {[status |-> "failed", snapshot |-> p.snapshot], was.summary.latest}
    <3>1. was.summary.info = sources[src].info /\ was.summary.latest = Latest(runs, src)
      BY <2>1
    <3> HIDE DEF was
    <3>2. \E columns \in SUBSET DOMAIN p.info : info = Book!Mixed(p.info, was.summary.info, columns)
      BY <2>3, <3>1
    <3>3. latest \in {[status |-> "failed", snapshot |-> p.snapshot], was.summary.latest}
      BY <1>4, <3>1
    <3> QED
      BY <3>2, <3>3
  <2>6. Book!Becomes(p, entry)
    BY <1>6 DEF Book!Becomes
  <2> HIDE DEF was
  <2>7. was = [summary |-> [info |-> sources[src].info, last |-> sources[src].last,
                            entities |-> Cardinality(Active(rows, src, 2)),
                            fields |-> Cardinality(Shown(rows, src)), latest |-> Latest(runs, src)],
               listed |-> Listed(rows, src)]
    BY <2>1 DEF was
  <2>5. entry = Renewed(was, info, latest)
    <3>1. entry = [summary |-> [info |-> info, last |-> sources[src].last,
                                entities |-> Cardinality(Active(rows, src, 2)),
                                fields |-> Cardinality(Shown(rows, src)), latest |-> latest],
                   listed |-> Listed(rows, src)]
      BY <1>7, <2>3
    <3> HIDE DEF info, latest
    <3> QED
      BY <2>7, <3>1, EntryIs
  <2> HIDE DEF info, latest
  <2> QED
    BY <2>4, <2>5, <2>6, RefusesIs DEF was
<1>9. CASE src \notin DOMAIN sources
  <2>1. Book!Was(p) = Book!New(p)
    BY <1>1, <1>9 DEF Book!Was, Answers
  <2>2. Book!Was(p) = [summary |-> [info |-> o.info, last |-> NULL, entities |-> 0, fields |-> 0, latest |-> NULL],
                       listed |-> {}]
    BY <2>1 DEF Book!New
  <2>3. sources'[src].info = o.info /\ sources'[src].last = NULL
    <3>1. req[r].held = Created(o) /\ req[r].held # NULL
      BY <1>3, <1>9 DEF IInv, HeldIsCurrent
    <3> QED
      BY <1>1, <3>1 DEF Put, Created
  <2>4. Active(rows, src, 2) = {} /\ Shown(rows, src) = {} /\ Listed(rows, src) = {}
    <3>1. \A k \in DOMAIN rows : k[1] # src
      BY <1>9 DEF IInv, Typed, TypeOK, RowsOK
    <3>2. \A size : Active(rows, src, size) = {}
      BY <3>1 DEF Active
    <3> QED
      BY <3>2 DEF Shown, Listed
  <2>5. Latest(runs', src) = failed
    BY <1>4, <1>9 DEF IInv, Typed, TypeOK, RunsOK
  <2> DEFINE was == Book!Was(p)
             info == o.info
  <2>7. Book!Becomes(p, entry)
    BY <1>6 DEF Book!Becomes
  <2>8. /\ \E columns \in SUBSET DOMAIN p.info : info = Book!Mixed(p.info, was.summary.info, columns)
        /\ failed \in {[status |-> "failed", snapshot |-> p.snapshot], was.summary.latest}
    <3>1. was.summary.info = o.info
      BY <2>2
    <3> HIDE DEF was
    <3> QED
      BY <1>3, <3>1, MixedNone
  <2> HIDE DEF was
  <2>9. was = [summary |-> [info |-> o.info, last |-> NULL, entities |-> 0, fields |-> 0, latest |-> NULL],
               listed |-> {}]
    BY <2>2 DEF was
  <2>10. Cardinality({}) = 0
    BY FS_EmptySet
  <2>11. entry = [summary |-> [info |-> info, last |-> NULL, entities |-> 0, fields |-> 0, latest |-> failed],
                  listed |-> {}]
    BY <1>7, <2>3, <2>4, <2>5, <2>10
  <2>6. entry = Renewed(was, info, failed)
    BY <2>9, <2>11, EntryIs
  <2> HIDE DEF was, info, failed
  <2> QED
    BY <2>6, <2>7, <2>8, RefusesIs DEF was
<1> QED
  BY <1>8, <1>9

\* Rows that are as the items ask, with no other model and no other field of theirs
\* active, are listed as asked.
LEMMA ListedIsAsked ==
    ASSUME NEW t, Table(t), NEW o, Payload(o),
           \A k \in DOMAIN Items(o) : Items(o)[k].key \in DOMAIN t /\ AsAsked(t[Items(o)[k].key], Items(o)[k]),
           Active(t, o.source, 2) \subseteq KeysIn(Items(o)),
           \A k \in Active(t, o.source, 3) : <<k[1], k[2]>> \in KeysIn(Items(o)) => k \in KeysIn(Items(o))
    PROVE  Listed(t, o.source) = Asked(o)
<1> DEFINE is == Items(o)
           all == ToSet(is)
           src == o.source
           models == {g \in all : Len(g.key) = 2}
           fields(e) == {g \in all : Len(g.key) = 3 /\ g.key[2] = e.key[2]}
           asked(e) == <<e.key[2], [columns |-> Cells(e), fields |-> {<<f.key[3], Cells(f)>> : f \in fields(e)}]>>
<1>1. /\ all = {is[k] : k \in DOMAIN is}
      /\ \A i \in all : i.key[1] = src /\ i.key \in DOMAIN t /\ i.key \in KeysIn(is) /\ AsAsked(t[i.key], i)
      /\ \A k \in KeysIn(is) : \E i \in all : i.key = k
  <2>1. all = {is[k] : k \in DOMAIN is}
    BY DEF ToSet
  <2>2. \A k \in DOMAIN is : is[k].key[1] = src
    BY ItemsAre
  <2> HIDE DEF all, is
  <2> QED
    BY <2>1, <2>2 DEF KeysIn, is
<1>2. Asked(o) = {asked(e) : e \in models}
  BY DEF Asked
<1>3. Active(t, src, 2) \subseteq KeysIn(is)
      /\ \A k \in Active(t, src, 3) : <<k[1], k[2]>> \in KeysIn(is) => k \in KeysIn(is)
  OBVIOUS
<1> HIDE DEF all, is, src
<1>4. \A i \in all : Columns(t[i.key]) = Cells(i) /\ i.key \in Active(t, src, Len(i.key)) /\ i.key \in RowKeys
  BY <1>1 DEF AsAsked, Columns, Cells, Active, Table
<1>5. ASSUME NEW e \in models PROVE asked(e) = <<e.key[2], Detail(t, e.key)>>
  <2>1. e \in all /\ Len(e.key) = 2 /\ e.key[1] = src
    BY <1>1
  <2>2. e.key = <<src, e.key[2]>>
    <3>1. \A k \in RowKeys : Len(k) # 3 => k = <<k[1], k[2]>>
      BY KeyShape, Zenon
    <3>2. e.key \in RowKeys /\ Len(e.key) # 3
      BY <1>4, <2>1
    <3> HIDE DEF models
    <3> QED
      BY <2>1, <3>1, <3>2
  <2> DEFINE mine == {j \in Active(t, src, 3) : j[2] = e.key[2]}
  <2>3. ASSUME NEW f \in fields(e) PROVE f.key \in mine /\ <<f.key[3], Cells(f)>> = <<f.key[3], Columns(t[f.key])>>
    <3>1. f \in all /\ Len(f.key) = 3 /\ f.key[2] = e.key[2]
      OBVIOUS
    <3>2. f.key \in Active(t, src, 3) /\ Columns(t[f.key]) = Cells(f)
      BY <1>4, <3>1
    <3> QED
      BY <3>1, <3>2
  <2>4. ASSUME NEW k \in mine PROVE \E f \in fields(e) : f.key = k
    <3>1. k \in Active(t, src, 3) /\ k[2] = e.key[2] /\ k[1] = src /\ Len(k) = 3
      BY DEF Active
    <3>2. <<k[1], k[2]>> \in KeysIn(is)
      BY <1>1, <2>1, <2>2, <3>1
    <3>3. PICK f \in all : f.key = k
      BY <1>1, <1>3, <3>1, <3>2
    <3> QED
      BY <3>1, <3>3
  <2> HIDE DEF mine, fields
  <2>5. {<<f.key[3], Cells(f)>> : f \in fields(e)} = {<<k[3], Columns(t[k])>> : k \in mine}
    BY <2>3, <2>4
  <2>6. Cells(e) = Columns(t[e.key])
    BY <1>4, <2>1
  <2> QED
    BY <2>1, <2>5, <2>6 DEF Detail, mine
<1>6. Active(t, src, 2) = {e.key : e \in models}
  <2>1. ASSUME NEW k \in Active(t, src, 2) PROVE \E e \in models : e.key = k
    <3>1. Len(k) = 2
      BY DEF Active
    <3>2. PICK e \in all : e.key = k
      BY <1>1, <1>3
    <3> QED
      BY <3>1, <3>2
  <2>2. \A e \in models : e.key \in Active(t, src, 2)
    BY <1>4
  <2> HIDE DEF models
  <2> QED
    BY <2>1, <2>2
<1> HIDE DEF models, asked
<1>7. Listed(t, src) = {<<k[2], Detail(t, k)>> : k \in Active(t, src, 2)}
  BY DEF Listed
<1>8. Listed(t, src) = Asked(o)
  BY <1>2, <1>5, <1>6, <1>7
<1> QED
  BY <1>8 DEF src

LEMMA CountedIs ==
    \A list : Book!Counted(list) = [entities |-> Cardinality(list), fields |-> Cardinality(Book!FieldsIn(list))]
BY DEF Book!Counted, Cardinality, Book!Cardinality

\* A sync that succeeds on reads that nobody has overtaken takes its payload over whole.
LEMMA FinishTakes ==
    ASSUME IInv, NEW r \in Requests, Finish(r)
    PROVE  Book!Next \/ calm' = calm
<1> DEFINE o == req[r].op
           src == o.source
           p == [source |-> o.source, info |-> o.info, snapshot |-> o, listed |-> Asked(o)]
           run == Run(r, "success", Items(o))
           row == IF req[r].held = NULL THEN sources[src] ELSE req[r].held
           new == Assign(row, [last |-> r])
<1>1. /\ runs' = Put(runs, r, run) /\ sources' = Put(sources, src, new) /\ req[r].pc = "closing"
      /\ raced' = (raced \/ req[r].late)
      /\ calm' = IF raced' THEN calm ELSE Answers(sources', rows', runs')
  BY DEF Finish
<1>2. Open(r) /\ Typed /\ Typed' /\ NotOvertaken /\ CalmIsCurrent /\ HeldIsCurrent
  BY FinishIs, FinishTyped DEF IInv
<1> SUFFICES ASSUME ~raced, ~req[r].late PROVE Book!Take(p)
  <2>1. p \in Payloads
    BY <1>2, CommonIs
  <2> HIDE DEF p, run, new
  <2> QED
    BY <1>1, <2>1 DEF Book!Next
<1>3. calm = Answers(sources, rows, runs) /\ calm' = Answers(sources', rows', runs')
  BY <1>1, <1>2 DEF CalmIsCurrent
<1>4. run.source = src /\ run.snapshot = o /\ run.status = "success"
  BY DEF Run
<1> HIDE DEF run
<1>5. /\ DOMAIN runs \subseteq Nat /\ IsFiniteSet(DOMAIN runs) /\ r \in Nat /\ r \notin DOMAIN runs
      /\ Table(rows) /\ (req[r].held # NULL \/ src \in DOMAIN sources) /\ o.info \in Infos /\ Payload(o)
  BY <1>1, <1>2, CommonIs
<1>6. /\ \A n \in DOMAIN runs : n < r
      /\ row.info = o.info
  BY <1>1, <1>2 DEF NotOvertaken, UpToDate
<1> DEFINE taken == [status |-> "success", snapshot |-> o]
<1>7. (\A s : s # src => Latest(runs', s) = Latest(runs, s)) /\ Latest(runs', src) = taken
  BY <1>1, <1>4, <1>5, <1>6, LatestIs
<1>8. DOMAIN sources' = DOMAIN sources \cup {src} /\ sources'[src] = new
      /\ \A s \in DOMAIN sources : s # src => sources'[s] = sources[s]
  <2> HIDE DEF new
  <2> QED
    BY <1>1, <1>5 DEF Put
<1>9. new.last = r /\ new.info = o.info
  <2>1. SourceOK(row) /\ row.info = o.info
    <3>1. CASE req[r].held = NULL
      BY <1>2, <1>5, <1>6, <3>1 DEF Typed, TypeOK, SourcesOK
    <3>2. CASE req[r].held # NULL
      BY <1>2, <1>6, <3>2, OpIs DEF ReqOK
    <3> QED
      BY <3>1, <3>2
  <2> HIDE DEF row
  <2> QED
    BY <2>1 DEF SourceOK, Assign
<1> HIDE DEF new, row
<1> DEFINE is == Items(o)
<1>10. /\ \A k \in DOMAIN rows' : k[1] # src => k \in DOMAIN rows /\ rows'[k] = rows[k]
       /\ DOMAIN rows \subseteq DOMAIN rows'
       /\ \A k \in DOMAIN is : is[k].key \in DOMAIN rows' /\ AsAsked(rows'[is[k].key], is[k])
       /\ Active(rows', src, 2) \subseteq KeysIn(is)
       /\ \A k \in Active(rows', src, 3) : <<k[1], k[2]>> \in KeysIn(is) => k \in KeysIn(is)
       /\ IsFiniteSet(DOMAIN rows')
  BY <1>2, FinishRows
<1>11. Table(rows')
  BY <1>2 DEF Typed, TypeOK, RowsOK, Table
<1>12. calm' = Revised(calm, sources', rows', runs', src)
  <2>1. ASSUME NEW ss, NEW t, NEW rs, NEW vs, NEW u, NEW qs,
               ss = sources, t = rows, rs = runs, vs = sources', u = rows', qs = runs'
        PROVE  Answers(vs, u, qs) = Revised(Answers(ss, t, rs), vs, u, qs, src)
    <3>1. DOMAIN vs = DOMAIN ss \cup {src} /\ Table(t) /\ Table(u)
          /\ \A s \in DOMAIN ss : s # src => vs[s] = ss[s] /\ Latest(qs, s) = Latest(rs, s)
      BY <1>5, <1>7, <1>8, <1>11, <2>1
    <3>2. \A s : s # src => \A k \in DOMAIN t \cup DOMAIN u :
             k[1] = s => k \in DOMAIN t /\ k \in DOMAIN u /\ t[k] = u[k]
      BY <1>10, <2>1
    <3> HIDE DEF src
    <3>3. \A s : s # src => Listed(t, s) = Listed(u, s) /\ Active(t, s, 2) = Active(u, s, 2) /\ Shown(t, s) = Shown(u, s)
      BY <3>1, <3>2, SameRowsSameList
    <3> QED
      BY <3>1, <3>3, AnswersAre
  <2> QED
    BY <1>3, <2>1
<1>13. Listed(rows', src) = Asked(o)
  BY <1>5, <1>10, <1>11, ListedIsAsked
<1>14. Cardinality(Active(rows', src, 2)) = Cardinality(Asked(o))
       /\ Cardinality(Shown(rows', src)) = Cardinality(Book!FieldsIn(Asked(o)))
  BY <1>10, <1>11, <1>13, CountsAre
<1> DEFINE entry == [listed  |-> Asked(o),
                     summary |-> [info |-> o.info, last |-> r,
                                  entities |-> Book!Counted(Asked(o)).entities,
                                  fields   |-> Book!Counted(Asked(o)).fields, latest |-> taken]]
<1>15. [summary |-> Summary(sources', rows', runs', src), listed |-> Listed(rows', src)] = entry
  <2>1. Book!Counted(Asked(o)).entities = Cardinality(Asked(o))
        /\ Book!Counted(Asked(o)).fields = Cardinality(Book!FieldsIn(Asked(o)))
    BY CountedIs
  <2> QED
    BY <1>7, <1>8, <1>9, <1>13, <1>14, <2>1 DEF Summary
<1> HIDE DEF entry
<1>16. Book!Becomes(p, entry)
  BY <1>12, <1>15 DEF Revised, Book!Becomes
<1>17. p.source \in DOMAIN calm' /\ calm'[p.source] = entry
  BY <1>16 DEF Book!Becomes
<1>18. entry.summary.last = r
  BY DEF entry
<1>19. r # Book!Was(p).summary.last
  <2>1. CASE src \in DOMAIN sources
    <3>1. Book!Was(p).summary.last = sources[src].last
      BY <1>3, <2>1 DEF Book!Was, Answers, Summary
    <3>2. LastOK(runs, src, sources[src].last)
      BY <1>2, <2>1 DEF Typed, TypeOK, SourcesOK
    <3> QED
      BY <1>5, <3>1, <3>2, NullAssumption DEF LastOK
  <2>2. CASE src \notin DOMAIN sources
    <3>1. Book!Was(p) = Book!New(p)
      BY <1>3, <2>2 DEF Book!Was, Answers
    <3> QED
      BY <1>5, <3>1, NullAssumption DEF Book!New
  <2> QED
    BY <2>1, <2>2
<1> QED
  BY <1>16, <1>17, <1>18, <1>19 DEF Book!Take, entry

\* What the queries answer, until a sync succeeds on reads that another has overtaken,
\* follows the book.
THEOREM BookImplemented == Spec => FollowsBook
<1>1. Init => Book!Init
  <2> SUFFICES ASSUME Init PROVE Book!Init
    OBVIOUS
  <2>1. ASSUME NEW s \in DOMAIN calm
        PROVE  calm[s].summary.entities = Cardinality(calm[s].listed)
               /\ calm[s].summary.fields = Cardinality(Book!FieldsIn(calm[s].listed))
    <3>1. calm[s] = [summary |-> Summary(sources, rows, runs, s), listed |-> Listed(rows, s)]
      BY DEF Init, Answers
    <3>2. Table(rows) /\ IsFiniteSet(DOMAIN rows)
      BY InitAssumption DEF Init, Table
    <3> QED
      BY <3>1, <3>2, CountsAre DEF Summary
  <2>2. \A s \in DOMAIN calm : [entities |-> calm[s].summary.entities, fields |-> calm[s].summary.fields]
                               = Book!Counted(calm[s].listed)
    BY <2>1, CountedIs
  <2> QED
    BY <2>2 DEF Book!Init
<1>2. ASSUME IInv, [Next]_vars PROVE [Book!Next]_calm
  <2>1. ASSUME NEW r \in Requests, Failed(r), Open(r), req[r].pc # "entering" PROVE Book!Next \/ calm' = calm
    BY <1>2, <2>1, FailedRefuses
  <2>2. ASSUME NEW r \in Requests, Finish(r) PROVE Book!Next \/ calm' = calm
    BY <1>2, <2>2, FinishTakes
  <2>3. ASSUME NEW r \in Requests,
               \/ \E o \in Ops[r] : Find(r, o)
               \/ Enter(r) \/ ReadEntities(r) \/ ReadFields(r) \/ MissEntities(r) \/ MissFields(r) \/ Abort(r)
        PROVE  calm' = calm
    BY <2>3 DEF Find, Enter, ReadEntities, ReadFields, MissEntities, MissFields, Abort, Goes
  <2>4. ASSUME NEW r \in Requests, Upsert(r) PROVE (Failed(r) /\ Open(r) /\ req[r].pc # "entering") \/ calm' = calm
    BY <2>4 DEF Upsert, Goes, Open
  <2>5. ASSUME NEW r \in Requests, Fail(r) PROVE Failed(r) /\ Open(r) /\ req[r].pc # "entering"
    BY <2>5 DEF Fail, Open
  <2>6. UNCHANGED vars => calm' = calm
    BY DEF vars
  <2> QED
    BY <1>2, <2>1, <2>2, <2>3, <2>4, <2>5, <2>6 DEF Next, Terminated
<1> QED
  BY <1>1, <1>2, InvariantAlways, PTL DEF Spec, FollowsBook, Book!Spec
=============================================================================
