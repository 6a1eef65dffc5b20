---------------------------- MODULE AccountProofs ----------------------------
(***************************************************************************)
(* Theorems of Accounts, for any customers, requests, bodies and tables to *)
(* start with: types, the tests of connections, and what a user's row      *)
(* keeps.                                                                  *)
(***************************************************************************)
EXTENDS AccountProps, FiniteSetTheorems, WellFoundedInduction, TLAPS

(***************************************************************************)
(* Least and greatest numbers.                                             *)
(***************************************************************************)

\* A set of naturals has a least element.
LEMMA LeastExists ==
    ASSUME NEW S \in SUBSET Nat, S # {}
    PROVE  \E n \in S : \A m \in S : n <= m
<1> PICK k \in S : TRUE
  OBVIOUS
<1> DEFINE T == {0..n : n \in {m \in S : m <= k}}
           R == StrictSubsetOrdering(0..k)
<1>1. T \subseteq FiniteSubsetsOf(0..k) /\ T # {}
  <2>1. ASSUME NEW n \in S, n <= k PROVE 0..n \in FiniteSubsetsOf(0..k)
    <3>1. IsFiniteSet(0..n)
      BY <2>1, FS_Interval
    <3> QED
      BY <2>1, <3>1 DEF FiniteSubsetsOf
  <2>2. 0..k \in T
    OBVIOUS
  <2> QED
    BY <2>1, <2>2
<1>2. IsWellFoundedOn(R, FiniteSubsetsOf(0..k))
  BY FS_StrictSubsetOrderingWellFounded
<1> HIDE DEF R
<1>3. PICK x \in T : \A y \in T : ~(<<y, x>> \in R)
  BY <1>1, <1>2, WFMin
<1>4. PICK n \in S : n <= k /\ x = 0..n
  BY <1>3
<1>5. ASSUME NEW m \in S, m < n PROVE FALSE
  <2>1. 0..m \in T
    BY <1>4, <1>5
  <2>2. 0..m \subseteq 0..n /\ 0..n \subseteq 0..k /\ n \in 0..n /\ n \notin 0..m
    BY <1>4, <1>5
  <2>3. <<0..m, x>> \in R
    BY <1>4, <2>2 DEF R, StrictSubsetOrdering
  <2> QED
    BY <1>3, <2>1, <2>3
<1> QED
  BY <1>5

\* A finite set of naturals has a greatest element.
LEMMA GreatestExists ==
    ASSUME NEW S \in SUBSET Nat, S # {}, IsFiniteSet(S)
    PROVE  \E n \in S : \A m \in S : m <= n
<1> DEFINE T == {U \in SUBSET S : U # {} /\ ~\E n \in U : \A m \in U : m <= n}
           R == StrictSubsetOrdering(S)
<1> SUFFICES ASSUME T # {} PROVE FALSE
  OBVIOUS
<1>1. T \subseteq FiniteSubsetsOf(S)
  BY FS_Subset DEF FiniteSubsetsOf
<1>2. IsWellFoundedOn(R, FiniteSubsetsOf(S))
  BY FS_StrictSubsetOrderingWellFounded
<1>3. \E x \in T : \A y \in T : ~(<<y, x>> \in R)
  <2> HIDE DEF T, R
  <2> QED
    BY <1>1, <1>2, WFMin
<1>4. PICK U \in T : \A V \in T : ~(<<V, U>> \in R)
  BY <1>3
<1>5. PICK x \in U : TRUE
  OBVIOUS
<1>6. CASE U = {x}
  BY <1>6
<1>7. CASE U # {x}
  <2>1. U \ {x} \in SUBSET S /\ U \ {x} # {} /\ <<U \ {x}, U>> \in R
    BY <1>5, <1>7 DEF StrictSubsetOrdering
  <2>2. PICK n \in U \ {x} : \A m \in U \ {x} : m <= n
    BY <1>4, <2>1
  <2>3. x \in Nat /\ n \in Nat
    BY <1>5
  <2>4. CASE x <= n
    BY <2>2, <2>3, <2>4
  <2>5. CASE n <= x
    BY <1>5, <2>2, <2>3, <2>5
  <2> QED
    BY <2>3, <2>4, <2>5
<1> QED
  BY <1>6, <1>7

\* So have the sets that the code takes the first, the oldest and the next of.
LEMMA FirstIsIn ==
    ASSUME NEW S \in SUBSET Names, S # {}
    PROVE  First(S) \in S
<1> DEFINE T == {Order[n] : n \in S}
<1>1. T \in SUBSET Nat /\ T # {}
  BY OrderAssumption
<1>2. PICK k \in T : \A m \in T : k <= m
  BY <1>1, LeastExists
<1>3. PICK n \in S : k = Order[n]
  BY <1>2
<1>4. \A m \in S : Order[n] <= Order[m]
  BY <1>2, <1>3
<1> QED
  BY <1>4 DEF First

LEMMA MinIsIn ==
    ASSUME NEW S \in SUBSET Nat, S # {}
    PROVE  Min(S) \in S
BY LeastExists DEF Min

LEMMA NextIdIsNat ==
    ASSUME TypeOK, IdsBounded
    PROVE  NextId \in Nat
<1> DEFINE S == {0} \cup DOMAIN customers \cup Drawn
<1>1. Drawn \in SUBSET Nat
  <2> SUFFICES ASSUME NEW r \in Requests, NEW i \in 1..Len(req[r].plan)
               PROVE  req[r].plan[i].customer \in Nat
    BY DEF Drawn
  <2>1. /\ req[r].plan \in Seq(Range(req[r].plan))
        /\ \A e \in Range(req[r].plan) : e.customer \in Nat
    BY DEF TypeOK, ReqOK, IncomeReqOK, EntryOK
  <2> QED
    BY <2>1
<1>2. S \in SUBSET Nat /\ S # {}
  BY <1>1 DEF TypeOK
<1>3. IsFiniteSet(S)
  <2>1. IsFiniteSet({0} \cup DOMAIN customers)
    BY FS_Singleton, FS_Union DEF IdsBounded
  <2> QED
    BY <2>1, FS_Union DEF IdsBounded
<1>4. PICK n \in S : \A m \in S : m <= n
  BY <1>2, <1>3, GreatestExists
<1>5. Max(S) \in S
  <2> HIDE DEF S
  <2>1. \A m \in S : n >= m
    BY <1>2, <1>4
  <2> QED
    BY <2>1 DEF Max
<1> QED
  BY <1>2, <1>5 DEF NextId

(***************************************************************************)
(* What the payloads hold.                                                 *)
(***************************************************************************)

\* A label of the workbook is one of its rows'.
LEMMA LabelIsOne ==
    ASSUME NEW o, IncomeBody(o), o.kind = "import", NEW n \in Data(o.rows)
    PROVE  Label(o.rows, n) \in Labels \cup Nat \cup {NULL}
<1> DEFINE proper == Proper(o.rows, o.rows[n].code)
<1>1. /\ o.rows \in Seq(Range(o.rows))
      /\ \A x \in Range(o.rows) : x.label \in Labels \cup Nat \cup {NULL}
  BY DEF IncomeBody
<1>2. \A m \in 1..Len(o.rows) : o.rows[m].label \in Labels \cup Nat \cup {NULL}
  BY <1>1
<1>3. proper \subseteq 1..Len(o.rows) /\ n \in 1..Len(o.rows)
  BY DEF Proper, Data
<1>4. ASSUME proper # {}
      PROVE  (CHOOSE m \in proper : \A k \in proper : m <= k) \in proper
  <2>1. proper \in SUBSET Nat
    BY <1>1, <1>3
  <2> QED
    BY <1>4, <2>1, LeastExists
<1> QED
  BY <1>2, <1>3, <1>4 DEF Label

\* What a workbook says of a name can be stored.
LEMMA ImportItemOK ==
    ASSUME NEW o, IncomeBody(o), o.kind = "import", NEW name \in NamesOf(o.sums, o.rows)
    PROVE  LET item == ImportItem(o, name) IN
           /\ item.name \in Names /\ SummaryOK(item.summary) /\ item.months = NULL
           /\ \A n \in DOMAIN item.buckets : BareOK(item.buckets[n])
<1> DEFINE item == ImportItem(o, name)
<1>1. /\ item.name = name /\ item.months = NULL
      /\ item.summary = Summary(o.sums, name) /\ item.buckets = Buckets(o.rows, name)
  BY DEF ImportItem
<1>2. name \in Names
  BY DEF IncomeBody
<1>3. SummaryOK(Summary(o.sums, name))
  <2> DEFINE mine == {n \in 1..Len(o.sums) : o.sums[n].name = name}
             n == CHOOSE m \in mine : \A k \in mine : k <= m
  <2>1. CASE mine = {}
    BY <2>1 DEF Summary, SummaryOK, Amounts
  <2>2. CASE mine # {}
    <3>1. o.sums \in Seq(Range(o.sums)) /\ \A x \in Range(o.sums) : {x.amount, x.bills} \subseteq Amounts
      BY DEF IncomeBody
    <3>2. mine \in SUBSET Nat /\ IsFiniteSet(mine)
      <4>1. IsFiniteSet(1..Len(o.sums))
        BY <3>1, FS_Interval
      <4> QED
        BY <3>1, <4>1, FS_Subset
    <3>3. n \in mine
      <4>1. \E m \in mine : \A k \in mine : k <= m
        BY <2>2, <3>2, GreatestExists
      <4> QED
        BY <4>1
    <3> HIDE DEF n
    <3>4. o.sums[n] \in Range(o.sums)
      BY <3>1, <3>3
    <3>5. Summary(o.sums, name) = [amount |-> o.sums[n].amount, bills |-> o.sums[n].bills]
      BY <2>2 DEF Summary, n
    <3> QED
      BY <3>1, <3>4, <3>5 DEF SummaryOK
  <2> QED
    BY <2>1, <2>2
<1>4. ASSUME NEW n \in DOMAIN Buckets(o.rows, name) PROVE BareOK(Buckets(o.rows, name)[n])
  <2>1. /\ n \in Data(o.rows)
        /\ Buckets(o.rows, name)[n] =
              [code |-> o.rows[n].code, label |-> Label(o.rows, n), amount |-> o.rows[n].amount]
    BY DEF Buckets
  <2>2. o.rows[n] \in Range(o.rows) /\ o.rows[n].code \notin {NULL, Header}
    BY <2>1 DEF Data, IncomeBody
  <2>3. o.rows[n].code \in Codes /\ o.rows[n].amount \in Amounts
    BY <2>2 DEF IncomeBody
  <2> QED
    BY <2>1, <2>3, LabelIsOne DEF BareOK
<1> QED
  BY <1>1, <1>2, <1>3, <1>4

(***************************************************************************)
(* Steps.                                                                  *)
(***************************************************************************)

\* What a commit takes nothing away of, for what the others have in their hands.
Grows ==
    /\ DOMAIN customers \subseteq DOMAIN customers' /\ DOMAIN summaries \subseteq DOMAIN summaries'
    /\ DOMAIN users \subseteq DOMAIN users'
    /\ \A c \in DOMAIN connections :
          c \in DOMAIN connections' /\ (connections[c].hash # NULL => connections'[c].hash # NULL)

\* Two records that agree on all but what has come too late.
Alike(q, p) ==
    /\ DOMAIN q = DOMAIN Idle /\ DOMAIN p = DOMAIN Idle
    /\ \A k \in DOMAIN Idle \ {"late"} : p[k] = q[k]

\* What a request has in its hands stays good.
LEMMA HandsStay ==
    ASSUME NEW r \in Requests, NEW q, NEW p, ReqOK(r, q), Alike(q, p), Grows
    PROVE  ReqOK(r, p)'
<1>1. \A k \in {"pc", "op", "seen", "plan", "held", "doomed", "gone", "code"} : p[k] = q[k]
  BY DEF Alike, Idle
<1>2. DOMAIN p = DOMAIN Idle
  BY DEF Alike
<1>3. ASSUME NEW e, EntryOK(e) PROVE EntryOK(e)'
  BY <1>3 DEF EntryOK, Grows
<1>4. IncomeReqOK(p)'
  BY <1>1, <1>3 DEF IncomeReqOK, ReqOK
<1>5. ConnectionReqOK(p)'
  <2>1. ConnectionReqOK(q)
    BY DEF ReqOK
  <2>2. ASSUME p.pc = "connect"
        PROVE  /\ p.op.kind = "connect" /\ p.op.customer \in DOMAIN customers'
               /\ p.seen # NULL =>
                     /\ ConnectionOK(p.seen) /\ p.op.customer \in DOMAIN connections'
                     /\ p.seen.hash # NULL => connections'[p.op.customer].hash # NULL
    BY <1>1, <2>1, <2>2 DEF ConnectionReqOK, Grows
  <2>3. ASSUME p.pc = "testing"
        PROVE  /\ p.op.kind = "test" /\ ConnectionOK(p.seen) /\ p.seen.secret # NULL
               /\ p.op.customer \in DOMAIN connections'
    BY <1>1, <2>1, <2>3 DEF ConnectionReqOK, Grows
  <2> QED
    BY <2>2, <2>3 DEF ConnectionReqOK
<1>6. UserReqOK(r, p)'
  <2>1. UserReqOK(r, q)
    BY DEF ReqOK
  <2>2. ASSUME NEW row, Resolved(row) PROVE Resolved(row)'
    BY <2>2 DEF Resolved, Grows
  <2> QED
    BY <1>1, <2>1, <2>2 DEF UserReqOK, Grows
<1> QED
  BY <1>1, <1>2, <1>4, <1>5, <1>6 DEF ReqOK, Grows

\* A request that is done, or that has not begun, is a request.
LEMMA EndedIsReq ==
    ASSUME NEW r \in Requests, NEW code \in {NULL, 200, 401, 404, 409, 422, 500, 502}
    PROVE  ReqOK(r, Idle) /\ ReqOK(r, Done(code)) /\ ReqOK(r, Done(code))'
<1>1. <<>> \in Seq(Range(<<>>)) /\ Range(<<>>) = {} /\ 0 \in 0..Len(<<>>)
  BY DEF Range
<1> QED
  BY <1>1 DEF ReqOK, Done, Idle, Stages, IncomeReqOK, ConnectionReqOK, UserReqOK, IncomeStages,
         ImportStages

\* A step that writes no table.
LEMMA GoesOK ==
    ASSUME TypeOK, NEW r \in Requests, NEW q, ReqOK(r, q), Goes(r, q)
    PROVE  TypeOK'
<1>1. UNCHANGED tables /\ req' = [req EXCEPT ![r] = q]
  BY DEF Goes
<1>2. UNCHANGED <<customers, summaries, lines, connections, users>>
  BY <1>1 DEF tables
<1>3. Grows
  BY <1>2 DEF Grows
<1>4. \A s \in Requests : ReqOK(s, req'[s]) /\ Alike(req'[s], req'[s])
  BY <1>1 DEF TypeOK, ReqOK, Alike
<1>5. \A s \in Requests : ReqOK(s, req[s])'
  BY <1>3, <1>4, HandsStay
<1>6. DOMAIN req' = Requests
  BY <1>1 DEF TypeOK
<1> QED
  BY <1>2, <1>5, <1>6 DEF TypeOK

\* The tables, apart from the requests.
TablesOK ==
    /\ DOMAIN customers \subseteq Nat /\ \A c \in DOMAIN customers : CustomerOK(customers[c])
    /\ DOMAIN summaries \cup DOMAIN connections \subseteq DOMAIN customers
    /\ \A c \in DOMAIN summaries : SummaryOK(summaries[c])
    /\ \A i \in DOMAIN lines :
          /\ LineOK(lines[i]) /\ lines[i].customer \in DOMAIN customers
          /\ \A j \in DOMAIN lines : LineKey(lines[i]) = LineKey(lines[j]) => i = j
    /\ \A c \in DOMAIN connections : ConnectionOK(connections[c])
    /\ \A u \in DOMAIN users :
          /\ UserOK(users[u]) /\ users[u].customer \in DOMAIN customers \cup {NULL}
          /\ \A v \in DOMAIN users : users[u].mobile = users[v].mobile => u = v

\* A commit ends its request and tells the others.
LEMMA CommitMoves ==
    ASSUME TypeOK, NEW r \in Requests, NEW code, Commits(r, code)
    PROVE  /\ DOMAIN req' = Requests /\ req'[r] = Done(code)
           /\ \A s \in Requests \ {r} : Alike(req[s], req'[s])
           /\ \A s \in Requests \ {r} : req[s].late \subseteq req'[s].late \/ ~Open(s)
           /\ \A s \in Requests \ {r} : \A x \in Components :
                 Open(s) /\ x \notin req'[s].late => Snapshot'[x] = Snapshot[x]
<1> DEFINE wrote == {x \in Components : Snapshot'[x] # Snapshot[x]}
<1>1. req' = [s \in Requests |->
                IF s = r THEN Done(code)
                ELSE IF Open(s) THEN [req[s] EXCEPT !.late = @ \cup wrote] ELSE req[s]]
  BY DEF Commits
<1> HIDE DEF wrote
<1>2. \A s \in Requests : DOMAIN req[s] = DOMAIN Idle
  BY DEF TypeOK, ReqOK
<1>3. ASSUME NEW s \in Requests, s # r PROVE Alike(req[s], req'[s])
  BY <1>1, <1>2, <1>3 DEF Alike
<1>4. ASSUME NEW s \in Requests, s # r, Open(s) PROVE req'[s].late = req[s].late \cup wrote
  BY <1>1, <1>2, <1>4 DEF Idle
<1> QED
  BY <1>1, <1>3, <1>4 DEF wrote

LEMMA CommitOK ==
    ASSUME TypeOK, NEW r \in Requests, NEW code \in {200, 502}, Commits(r, code),
           Grows, TablesOK'
    PROVE  TypeOK'
<1>1. \A s \in Requests : ReqOK(s, req[s])'
  <2> TAKE s \in Requests
  <2>1. CASE s = r
    BY <2>1, CommitMoves, EndedIsReq
  <2>2. CASE s # r
    <3>1. ReqOK(s, req[s]) /\ Alike(req[s], req'[s])
      BY <2>2, CommitMoves DEF TypeOK
    <3> QED
      BY <3>1, HandsStay
  <2> QED
    BY <2>1, <2>2
<1> QED
  BY <1>1, CommitMoves DEF TypeOK, TablesOK

\* A request that begins with an empty plan.
LEMMA BegunIsReq ==
    ASSUME NEW r \in Requests, NEW o \in Ops[r], NEW pc \in Stages, NEW seen,
           pc = "customer" => /\ CustomerBody(o)
                              /\ o.kind = "editCustomer" => o.customer \in DOMAIN customers,
           pc \notin IncomeStages \cup {"erasing", "erasingFound"},
           pc = "naming" => o.kind = "import" /\ seen \subseteq NamesOf(o.sums, o.rows),
           ConnectionReqOK([Idle EXCEPT !.pc = pc, !.op = o, !.seen = seen]),
           UserReqOK(r, [Idle EXCEPT !.pc = pc, !.op = o, !.seen = seen])
    PROVE  ReqOK(r, [Idle EXCEPT !.pc = pc, !.op = o, !.seen = seen])
<1> DEFINE q == [Idle EXCEPT !.pc = pc, !.op = o, !.seen = seen]
<1>1. /\ DOMAIN q = DOMAIN Idle /\ q.pc = pc /\ q.op = o /\ q.seen = seen /\ q.plan = <<>>
      /\ q.held = 0 /\ q.doomed = {} /\ q.code = NULL
  BY DEF Idle
<1> HIDE DEF q
<1>2. <<>> \in Seq(Range(<<>>)) /\ Range(<<>>) = {} /\ 0 \in 0..Len(<<>>)
  BY DEF Range
<1>3. IncomeReqOK(q)
  BY <1>1, <1>2 DEF IncomeReqOK, ImportStages
<1>4. ReqOK(r, q)
  BY <1>1, <1>3 DEF ReqOK, q
<1> QED
  BY <1>4 DEF q

\* POST, PATCH and DELETE of a customer.
LEMMA CustomerSteps ==
    ASSUME TypeOK, IdsBounded, NEW r \in Requests,
           (\E o \in Ops[r] : LoadCustomer(r, o)) \/ CommitCustomer(r)
    PROVE  TypeOK'
<1>1. ASSUME NEW o \in Ops[r], LoadCustomer(r, o) PROVE TypeOK'
  <2>1. CASE Goes(r, Done(404))
    BY <2>1, GoesOK, EndedIsReq
  <2>2. ASSUME NEW seen, Goes(r, [Idle EXCEPT !.pc = "customer", !.op = o, !.seen = seen]),
               o.kind = "editCustomer" => o.customer \in DOMAIN customers
        PROVE  TypeOK'
    <3> DEFINE q == [Idle EXCEPT !.pc = "customer", !.op = o, !.seen = seen]
    <3>1. ConnectionReqOK(q) /\ UserReqOK(r, q)
      BY DEF ConnectionReqOK, UserReqOK, Idle
    <3>2. CustomerBody(o)
      BY <1>1 DEF LoadCustomer
    <3>3. ReqOK(r, q)
      BY <2>2, <3>1, <3>2, BegunIsReq DEF Stages, IncomeStages
    <3> QED
      BY <2>2, <3>3, GoesOK
  <2> QED
    BY <1>1, <2>1, <2>2 DEF LoadCustomer
<1>2. ASSUME CommitCustomer(r) PROVE TypeOK'
  <2> DEFINE o == req[r].op
             id == IF o.kind = "newCustomer" THEN NextId ELSE o.customer
  <2>1. CASE Goes(r, Done(409))
    BY <2>1, GoesOK, EndedIsReq
  <2>2. ASSUME NEW row, CustomerOK(row), customers' = Put(customers, id, row),
               UNCHANGED <<summaries, lines, connections, users>>, Commits(r, 200)
        PROVE  TypeOK'
    <3>1. id \in Nat
      BY <1>2, NextIdIsNat DEF CommitCustomer, TypeOK, ReqOK, CustomerBody
    <3> HIDE DEF id
    <3>2. /\ DOMAIN customers' = DOMAIN customers \cup {id}
          /\ \A c \in DOMAIN customers' : customers'[c] = IF c = id THEN row ELSE customers[c]
      BY <2>2 DEF Put
    <3>3. Grows
      BY <2>2, <3>2 DEF Grows
    <3>4. TablesOK'
      BY <2>2, <3>1, <3>2 DEF TypeOK, TablesOK
    <3> QED
      BY <2>2, <3>3, <3>4, CommitOK
  <2> QED
    BY <1>2, <2>1, <2>2 DEF CommitCustomer
<1> QED
  BY <1>1, <1>2

\* The connections.
LEMMA ConnectionSteps ==
    ASSUME TypeOK, NEW r \in Requests,
           \/ \E o \in Ops[r] : LoadConnect(r, o) \/ LoadTest(r, o)
           \/ CommitConnect(r) \/ CommitTest(r)
    PROVE  TypeOK'
<1>1. ASSUME NEW o \in Ops[r], LoadConnect(r, o) PROVE TypeOK'
  <2> DEFINE seen == Stored(o.customer)
             q == [Idle EXCEPT !.pc = "connect", !.op = o, !.seen = seen]
  <2>1. CASE \E code \in {404, 422} : Goes(r, Done(code))
    BY <2>1, GoesOK, EndedIsReq
  <2>2. CASE Goes(r, q) /\ o.customer \in DOMAIN customers
    <3>1. seen # NULL => /\ ConnectionOK(seen) /\ o.customer \in DOMAIN connections
                         /\ seen.hash # NULL => connections[o.customer].hash # NULL
      BY DEF Stored, TypeOK
    <3>2. o.kind = "connect"
      BY <1>1 DEF LoadConnect
    <3> HIDE DEF seen
    <3>3. ConnectionReqOK(q) /\ UserReqOK(r, q)
      BY <2>2, <3>1, <3>2 DEF ConnectionReqOK, UserReqOK, Idle
    <3>4. ReqOK(r, q)
      BY <3>3, BegunIsReq DEF Stages, IncomeStages
    <3> QED
      BY <2>2, <3>4, GoesOK
  <2> QED
    BY <1>1, <2>1, <2>2, ZenonT(60) DEF LoadConnect
<1>2. ASSUME NEW o \in Ops[r], LoadTest(r, o) PROVE TypeOK'
  <2> DEFINE seen == Stored(o.customer)
             q == [Idle EXCEPT !.pc = "testing", !.op = o, !.seen = seen]
  <2>1. CASE \E code \in {404, 409} : Goes(r, Done(code))
    BY <2>1, GoesOK, EndedIsReq
  <2>2. CASE Goes(r, q) /\ seen # NULL /\ seen.secret # NULL
    <3>1. ConnectionOK(seen) /\ o.customer \in DOMAIN connections
      BY <2>2 DEF Stored, TypeOK
    <3>2. o.kind = "test"
      BY <1>2 DEF LoadTest
    <3> HIDE DEF seen
    <3>3. ConnectionReqOK(q) /\ UserReqOK(r, q)
      BY <2>2, <3>1, <3>2 DEF ConnectionReqOK, UserReqOK, Idle
    <3>4. ReqOK(r, q)
      BY <3>3, BegunIsReq DEF Stages, IncomeStages
    <3> QED
      BY <2>2, <3>4, GoesOK
  <2> QED
    BY <1>2, <2>1, <2>2, ZenonT(60) DEF LoadTest
<1>3. ASSUME NEW c \in DOMAIN customers, NEW row, ConnectionOK(row),
             c \in DOMAIN connections /\ connections[c].hash # NULL => row.hash # NULL,
             connections' = Put(connections, c, row),
             UNCHANGED <<customers, summaries, lines, users>>,
             NEW code \in {200, 502}, Commits(r, code)
      PROVE  TypeOK'
  <2>1. /\ DOMAIN connections' = DOMAIN connections \cup {c}
        /\ \A d \in DOMAIN connections' : connections'[d] = IF d = c THEN row ELSE connections[d]
    BY <1>3 DEF Put
  <2>2. Grows
    BY <1>3, <2>1 DEF Grows
  <2>3. TablesOK'
    BY <1>3, <2>1 DEF TypeOK, TablesOK
  <2> QED
    BY <1>3, <2>2, <2>3, CommitOK
<1>4. ASSUME CommitConnect(r) PROVE TypeOK'
  <2> DEFINE o == req[r].op
             c == o.customer
             seen == IF req[r].seen = NULL THEN NewConnection ELSE req[r].seen
             new == Upserted(r)
             row == IF req[r].seen = NULL THEN new ELSE Flush(connections[c], req[r].seen, new)
  <2>1. CASE Goes(r, Done(409))
    BY <2>1, GoesOK, EndedIsReq
  <2>2. CASE /\ row.is_active # NULL /\ ~(req[r].seen = NULL /\ c \in DOMAIN connections)
             /\ connections' = Put(connections, c, row) /\ Commits(r, 200)
             /\ UNCHANGED <<customers, summaries, lines, users>>
    <3>1. /\ ConnectionBody(o) /\ o.kind = "connect" /\ c \in DOMAIN customers
          /\ req[r].seen # NULL =>
                /\ ConnectionOK(req[r].seen) /\ c \in DOMAIN connections
                /\ req[r].seen.hash # NULL => connections[c].hash # NULL
      <4>1. req[r].pc = "connect" /\ o \in Ops[r] /\ ConnectionReqOK(req[r])
        BY <1>4 DEF CommitConnect, TypeOK, ReqOK
      <4>2. o.kind = "connect"
        BY <4>1 DEF ConnectionReqOK
      <4>3. ConnectionBody(o)
        BY <4>1, <4>2, OpsAssumption DEF CustomerBody, IncomeBody, ConnectionBody, UserBody
      <4> QED
        BY <4>1, <4>3 DEF ConnectionReqOK
    <3>2. ConnectionOK(seen)
      BY <3>1 DEF ConnectionOK, NewConnection
    <3>3. r \in Nat
      BY RequestsAssumption
    <3> HIDE DEF seen
    <3>4. /\ DOMAIN new = DOMAIN NewConnection
          /\ \/ new.secret = seen.secret /\ new.hash = seen.hash
             \/ /\ new.secret \in [text : Secrets, by : Nat] /\ new.hash \in Secrets
                /\ "secret" \in DOMAIN o.set
          /\ new.legacy \in BOOLEAN /\ new.is_active \in BOOLEAN \cup {NULL}
          /\ new.success = NULL /\ new.tested_at = NULL
      <4> DEFINE rest == [k \in DOMAIN o.set \ {"secret"} |-> o.set[k]]
                 mid == Assign(seen, rest)
      <4>1. /\ DOMAIN mid = DOMAIN NewConnection
            /\ mid.secret = seen.secret /\ mid.hash = seen.hash
            /\ mid.legacy \in BOOLEAN /\ mid.is_active \in BOOLEAN \cup {NULL}
        BY <3>1, <3>2 DEF Assign, ConnectionOK, NewConnection, ConnectionBody
      <4>2. new = [Secured(r, mid, o.set) EXCEPT !.tested_at = NULL, !.success = NULL]
        BY DEF Upserted, seen
      <4> HIDE DEF mid
      <4>3. CASE "secret" \in DOMAIN o.set /\ o.set.secret # NULL
        <5>1. o.set.secret \in Secrets
          BY <3>1, <4>3 DEF ConnectionBody
        <5>2. Secured(r, mid, o.set) =
                 [mid EXCEPT !.secret = [text |-> o.set.secret, by |-> r], !.hash = o.set.secret,
                             !.legacy = FALSE]
          BY <4>3 DEF Secured
        <5> QED
          BY <3>3, <4>1, <4>2, <4>3, <5>1, <5>2 DEF NewConnection
      <4>4. CASE ~("secret" \in DOMAIN o.set /\ o.set.secret # NULL)
        <5>1. Secured(r, mid, o.set) = mid
          BY <4>4 DEF Secured
        <5> QED
          BY <4>1, <4>2, <5>1 DEF NewConnection
      <4> QED
        BY <4>3, <4>4
    <3> HIDE DEF new
    <3>5. CASE req[r].seen = NULL
      <4>1. row = new /\ seen = NewConnection
        BY <3>5 DEF seen
      <4>2. ConnectionOK(new)
        BY <2>2, <3>2, <3>4, <4>1, SecretsAssumption DEF ConnectionOK, NewConnection
      <4> QED
        BY <1>3, <2>2, <3>1, <3>5, <4>1, <4>2
    <3>6. CASE req[r].seen # NULL
      <4>1. /\ row = Flush(connections[c], seen, new) /\ c \in DOMAIN connections
            /\ ConnectionOK(connections[c]) /\ (seen.hash # NULL => connections[c].hash # NULL)
        BY <3>1, <3>6 DEF seen, TypeOK
      <4>2. /\ DOMAIN row = DOMAIN NewConnection
            /\ \A k \in DOMAIN NewConnection :
                  row[k] = IF new[k] # seen[k] THEN new[k] ELSE connections[c][k]
        BY <3>4, <4>1 DEF Flush, Dirty, ConnectionOK
      <4> HIDE DEF row
      <4>3. /\ row.secret \in [text : Secrets, by : Nat] \cup {NULL}
            /\ row.hash \in Secrets \cup {NULL} /\ (row.secret = NULL <=> row.hash = NULL)
            /\ connections[c].hash # NULL => row.hash # NULL
        BY <3>2, <3>4, <4>1, <4>2, SecretsAssumption DEF ConnectionOK, NewConnection
      <4>4. row.legacy \in BOOLEAN
        BY <3>4, <4>1, <4>2 DEF ConnectionOK, NewConnection
      <4>5. row.is_active \in BOOLEAN
        BY <2>2, <3>4, <4>1, <4>2 DEF ConnectionOK, NewConnection
      <4>6. row.success \in BOOLEAN \cup {NULL}
        BY <3>4, <4>1, <4>2 DEF ConnectionOK, NewConnection
      <4>7. ConnectionOK(row)
        BY <4>2, <4>3, <4>4, <4>5, <4>6 DEF ConnectionOK
      <4> QED
        BY <1>3, <2>2, <3>1, <4>3, <4>7
    <3> QED
      BY <3>5, <3>6
  <2> HIDE DEF row
  <2> QED
    BY <1>4, <2>1, <2>2 DEF CommitConnect, row
<1>5. ASSUME CommitTest(r) PROVE TypeOK'
  <2> DEFINE c == req[r].op.customer
             seen == req[r].seen
             new(ok) == [seen EXCEPT !.success = ok,
                           !.tested_at = [by |-> r, text |-> seen.secret.text, ok |-> ok]]
  <2>1. PICK ok \in BOOLEAN :
           /\ connections' = [connections EXCEPT ![c] = Flush(connections[c], seen, new(ok))]
           /\ UNCHANGED <<customers, summaries, lines, users>>
           /\ Commits(r, IF ok THEN 200 ELSE 502)
    BY <1>5 DEF CommitTest
  <2> DEFINE row == Flush(connections[c], seen, new(ok))
  <2>2. /\ ConnectionOK(seen) /\ c \in DOMAIN connections /\ c \in DOMAIN customers
        /\ ConnectionOK(connections[c])
    <3>1. ConnectionReqOK(req[r])
      BY DEF TypeOK, ReqOK
    <3>2. req[r].pc = "testing"
      BY <1>5 DEF CommitTest
    <3>3. ConnectionOK(seen) /\ c \in DOMAIN connections
      BY <3>1, <3>2 DEF ConnectionReqOK
    <3> QED
      BY <3>3 DEF TypeOK
  <2>3. /\ DOMAIN row = DOMAIN NewConnection
        /\ \A k \in {"secret", "hash", "legacy", "is_active"} : row[k] = connections[c][k]
    BY <2>2 DEF Flush, Dirty, ConnectionOK, NewConnection
  <2>4. row.success \in {ok, connections[c].success}
    BY <2>2 DEF Flush, Dirty, ConnectionOK, NewConnection
  <2>5. connections' = Put(connections, c, row)
    BY <2>1, <2>2 DEF Put
  <2> HIDE DEF row
  <2>6. ConnectionOK(row) /\ (connections[c].hash # NULL => row.hash # NULL)
    BY <2>2, <2>3, <2>4 DEF ConnectionOK
  <2> QED
    BY <1>3, <2>1, <2>2, <2>5, <2>6
<1> QED
  BY <1>1, <1>2, <1>4, <1>5

\* A row is what the role policy makes of it, if the policy lets it through.
LEMMA ProfileResolved ==
    ASSUME NEW row, DOMAIN row = UserColumns,
           row.role \in {"admin", "public"} \/ (row.customer # NULL /\ Active(row.customer))
    PROVE  /\ Resolved(Profile(row))
           /\ \A k \in {"mobile", "role", "password", "is_active"} : Profile(row)[k] = row[k]
<1>1. /\ DOMAIN Profile(row) = UserColumns
      /\ \A k \in {"mobile", "role", "password", "is_active"} : Profile(row)[k] = row[k]
      /\ Profile(row).customer = IF row.role \in {"admin", "public"} THEN NULL ELSE row.customer
  BY DEF Profile, UserColumns
<1> QED
  BY <1>1 DEF Resolved, Active

\* An update leaves the password, or sets one that the body has.
LEMMA UpdatedPassword ==
    ASSUME NEW r \in Requests, NEW seen, DOMAIN seen = UserColumns, NEW set,
           "password" \in DOMAIN set => set.password \in Passwords \cup {NULL}
    PROVE  /\ DOMAIN Updated(r, seen, set) = UserColumns
           /\ Updated(r, seen, set).password # seen.password =>
                 /\ "password" \in DOMAIN set /\ set.password \in Passwords
                 /\ Updated(r, seen, set).password = Hash(set.password, r)
<1> DEFINE rest == [c \in DOMAIN set \ {"password"} |-> set[c]]
           mid == Assign(seen, rest)
<1>1. DOMAIN mid = UserColumns /\ mid.password = seen.password
  BY DEF Assign, UserColumns
<1> HIDE DEF mid
<1>2. CASE "password" \in DOMAIN set /\ set.password # NULL
  <2>1. Updated(r, seen, set) = [mid EXCEPT !.password = Hash(set.password, r)]
    BY <1>2 DEF Updated, mid
  <2> QED
    BY <1>1, <1>2, <2>1 DEF UserColumns
<1>3. CASE ~("password" \in DOMAIN set /\ set.password # NULL)
  BY <1>1, <1>3 DEF Updated, mid
<1> QED
  BY <1>2, <1>3

\* A row that is stored, if the constraints let it through.
LEMMA StoreUserOK ==
    ASSUME TypeOK, NEW r \in Requests, NEW id, NEW row, NEW failure \in {409, 500},
           row.customer \in DOMAIN customers \cup {NULL}, StoreUser(r, id, row, failure)
    PROVE  TypeOK'
<1>1. CASE Goes(r, Done(failure))
  BY <1>1, GoesOK, EndedIsReq
<1>2. CASE /\ UserOK(row) /\ \A u \in DOMAIN users \ {id} : users[u].mobile # row.mobile
           /\ users' = Put(users, id, row)
           /\ UNCHANGED <<customers, summaries, lines, connections>> /\ Commits(r, 200)
  <2>1. /\ DOMAIN users' = DOMAIN users \cup {id}
        /\ \A u \in DOMAIN users' : users'[u] = IF u = id THEN row ELSE users[u]
    BY <1>2 DEF Put
  <2>2. Grows
    BY <1>2, <2>1 DEF Grows
  <2>3. \A u \in DOMAIN users' :
           /\ UserOK(users'[u]) /\ users'[u].customer \in DOMAIN customers \cup {NULL}
           /\ \A v \in DOMAIN users' : users'[u].mobile = users'[v].mobile => u = v
    BY <1>2, <2>1 DEF TypeOK
  <2>4. TablesOK'
    BY <1>2, <2>3 DEF TypeOK, TablesOK
  <2> QED
    BY <1>2, <2>2, <2>4, CommitOK
<1> QED
  BY <1>1, <1>2 DEF StoreUser

\* The users.
LEMMA UserSteps ==
    ASSUME TypeOK, NEW r \in Requests,
           \/ \E o \in Ops[r] : LoadNewUser(r, o) \/ LoadEditUser(r, o) \/ LoadSeed(r, o) \/ Login(r, o)
           \/ CommitUser(r) \/ Upgrade(r)
    PROVE  TypeOK'
<1>1. ASSUME NEW o \in Ops[r], NEW seen, Resolved(seen), o.kind \in {"newUser", "signUp", "seed"},
             Goes(r, [Idle EXCEPT !.pc = "newUser", !.op = o, !.seen = seen])
      PROVE  TypeOK'
  <2> DEFINE q == [Idle EXCEPT !.pc = "newUser", !.op = o, !.seen = seen]
  <2>1. ConnectionReqOK(q) /\ UserReqOK(r, q)
    BY <1>1 DEF ConnectionReqOK, UserReqOK, Idle
  <2>2. ReqOK(r, q)
    BY <2>1, BegunIsReq DEF Stages, IncomeStages
  <2> QED
    BY <1>1, <2>2, GoesOK
<1>2. ASSUME NEW o \in Ops[r], LoadNewUser(r, o) PROVE TypeOK'
  <2> DEFINE row == Created(r, o)
  <2>1. CASE Goes(r, Done(422))
    BY <2>1, GoesOK, EndedIsReq
  <2>2. CASE /\ o.kind = "newUser" => ~Refused(row)
             /\ Goes(r, [Idle EXCEPT !.pc = "newUser", !.op = o, !.seen = Profile(row)])
    <3>1. UserBody(o) /\ o.kind \in {"newUser", "signUp"}
      BY <1>2, OpsAssumption
      DEF LoadNewUser, CustomerBody, IncomeBody, ConnectionBody, UserBody
    <3>2. DOMAIN row = UserColumns
      BY DEF Created, Assign
    <3>3. o.kind = "signUp" => row.role = "public"
      <4> DEFINE set == [o.set EXCEPT !.password = IF @ = NULL THEN NULL ELSE Hash(@, r)]
      <4>1. DOMAIN o.set = UserColumns \ {"is_active"}
        BY <3>1 DEF UserBody
      <4>2. DOMAIN set = DOMAIN o.set /\ set.role = o.set.role
        BY <4>1 DEF UserColumns
      <4> HIDE DEF set
      <4>3. row.role = o.set.role
        BY <4>1, <4>2 DEF Created, set, Assign, UserColumns
      <4> QED
        BY <3>1, <4>3 DEF UserBody
    <3> HIDE DEF row
    <3>4. Resolved(Profile(row))
      BY <2>2, <3>1, <3>2, <3>3, ProfileResolved DEF Refused
    <3> QED
      BY <1>1, <2>2, <3>1, <3>4
  <2> QED
    BY <1>2, <2>1, <2>2 DEF LoadNewUser
<1>3. ASSUME NEW o \in Ops[r], LoadSeed(r, o) PROVE TypeOK'
  <2> DEFINE row == [mobile |-> AdminMobile, role |-> "admin", customer |-> NULL, org_name |-> NULL,
                     org_type |-> NULL, password |-> NULL, is_active |-> TRUE]
  <2>1. CASE Goes(r, Done(200))
    BY <2>1, GoesOK, EndedIsReq
  <2>2. CASE Goes(r, [Idle EXCEPT !.pc = "newUser", !.op = o, !.seen = row])
    <3>1. Resolved(row)
      BY DEF Resolved, UserColumns
    <3>2. o.kind = "seed"
      BY <1>3 DEF LoadSeed
    <3> HIDE DEF row
    <3> QED
      BY <1>1, <2>2, <3>1, <3>2
  <2> QED
    BY <1>3, <2>1, <2>2 DEF LoadSeed
<1>4. ASSUME NEW o \in Ops[r], LoadEditUser(r, o) PROVE TypeOK'
  <2> DEFINE row == users[o.user]
             to == Updated(r, row, o.set)
             new == IF o.kind = "offUser" THEN [row EXCEPT !.is_active = FALSE] ELSE Profile(to)
             q == [Idle EXCEPT !.pc = "editUser", !.op = o, !.seen = <<row, new>>]
  <2>1. CASE \E code \in {404, 422} : Goes(r, Done(code))
    BY <2>1, GoesOK, EndedIsReq
  <2>2. CASE o.user \in DOMAIN users /\ (o.kind # "offUser" => ~Refused(to)) /\ Goes(r, q)
    <3>1. UserBody(o) /\ o.kind \in {"editUser", "offUser"}
      BY <1>4, OpsAssumption
      DEF LoadEditUser, CustomerBody, IncomeBody, ConnectionBody, UserBody
    <3>2. UserOK(row) /\ row.customer \in DOMAIN customers \cup {NULL} /\ DOMAIN row = UserColumns
      BY <2>2 DEF TypeOK, UserOK
    <3>3. /\ Resolved(new)
          /\ new.password # row.password =>
                /\ o.kind = "editUser" /\ "password" \in DOMAIN o.set /\ o.set.password \in Passwords
                /\ new.password = Hash(o.set.password, r)
      <4> HIDE DEF row
      <4>1. CASE o.kind = "offUser"
        <5>1. /\ DOMAIN new = UserColumns
              /\ new.customer = row.customer /\ new.role = row.role /\ new.password = row.password
          BY <3>2, <4>1 DEF UserColumns
        <5> HIDE DEF new
        <5> QED
          BY <3>2, <5>1 DEF Resolved, UserOK
      <4>2. CASE o.kind = "editUser"
        <5>1. /\ DOMAIN to = UserColumns
              /\ to.password # row.password =>
                    /\ "password" \in DOMAIN o.set /\ o.set.password \in Passwords
                    /\ to.password = Hash(o.set.password, r)
          BY <3>1, <3>2, <4>2, UpdatedPassword DEF UserBody
        <5> HIDE DEF to
        <5>2. Resolved(Profile(to)) /\ Profile(to).password = to.password
          BY <2>2, <4>2, <5>1, ProfileResolved DEF Refused
        <5> QED
          BY <4>2, <5>1, <5>2
      <4> QED
        BY <3>1, <4>1, <4>2
    <3> HIDE DEF row, new
    <3>4. UserReqOK(r, q)
      BY <2>2, <3>1, <3>2, <3>3 DEF UserReqOK, Idle
    <3>5. ConnectionReqOK(q)
      BY DEF ConnectionReqOK, Idle
    <3>6. ReqOK(r, q)
      BY <3>4, <3>5, BegunIsReq DEF Stages, IncomeStages
    <3> QED
      BY <2>2, <3>6, GoesOK
  <2> QED
    BY <1>4, <2>1, <2>2, ZenonT(60) DEF LoadEditUser
<1>5. ASSUME NEW o \in Ops[r], Login(r, o) PROVE TypeOK'
  <2> DEFINE found == {u \in DOMAIN users : users[u].mobile = o.mobile /\ users[u].is_active}
             seen == CHOOSE u \in found : TRUE
             q == [Idle EXCEPT !.pc = "upgrade", !.op = o, !.seen = seen]
  <2>1. CASE \E code \in {200, 401} : Goes(r, Done(code))
    BY <2>1, GoesOK, EndedIsReq
  <2>2. CASE found # {} /\ Goes(r, q)
    <3>1. seen \in DOMAIN users
      BY <2>2
    <3>2. o.kind = "login"
      BY <1>5 DEF Login
    <3> HIDE DEF seen
    <3>3. ConnectionReqOK(q) /\ UserReqOK(r, q)
      BY <3>1, <3>2 DEF ConnectionReqOK, UserReqOK, Idle
    <3>4. ReqOK(r, q)
      BY <3>3, BegunIsReq DEF Stages, IncomeStages
    <3> QED
      BY <2>2, <3>4, GoesOK
  <2> QED
    BY <1>5, <2>1, <2>2, ZenonT(60) DEF Login
<1>6. ASSUME CommitUser(r) PROVE TypeOK'
  <2>1. UserReqOK(r, req[r])
    BY DEF TypeOK, ReqOK
  <2>2. ASSUME req[r].pc = "newUser", NEW failure \in {409, 500},
               StoreUser(r, r, req[r].seen, failure)
        PROVE  TypeOK'
    BY <2>1, <2>2, StoreUserOK DEF UserReqOK, Resolved
  <2>3. ASSUME req[r].pc = "editUser",
               StoreUser(r, req[r].op.user,
                  Flush(users[req[r].op.user], req[r].seen[1], req[r].seen[2]), 409)
        PROVE  TypeOK'
    <3> DEFINE u == req[r].op.user
               row == Flush(users[u], req[r].seen[1], req[r].seen[2])
    <3>1. u \in DOMAIN users /\ Resolved(req[r].seen[2])
      BY <2>1, <2>3 DEF UserReqOK
    <3>2. DOMAIN users[u] = UserColumns /\ users[u].customer \in DOMAIN customers \cup {NULL}
      BY <3>1 DEF TypeOK, UserOK
    <3>3. row.customer \in {users[u].customer, req[r].seen[2].customer}
      BY <3>2 DEF Flush, UserColumns
    <3> HIDE DEF row
    <3>4. row.customer \in DOMAIN customers \cup {NULL}
      BY <3>1, <3>2, <3>3 DEF Resolved
    <3> QED
      BY <2>3, <3>4, StoreUserOK DEF row
  <2> QED
    BY <1>6, <2>2, <2>3 DEF CommitUser
<1>7. ASSUME Upgrade(r) PROVE TypeOK'
  <2>1. /\ users' = [users EXCEPT ![req[r].seen].password = Hash(req[r].op.password, r)]
        /\ UNCHANGED <<customers, summaries, lines, connections>> /\ Commits(r, 200)
    BY <1>7 DEF Upgrade
  <2>2. /\ DOMAIN users' = DOMAIN users
        /\ \A u \in DOMAIN users :
              /\ DOMAIN users'[u] = UserColumns
              /\ \A k \in UserColumns \ {"password"} : users'[u][k] = users[u][k]
    BY <2>1 DEF TypeOK, UserOK
  <2>3. \A u \in DOMAIN users' :
           /\ UserOK(users'[u]) /\ users'[u].customer \in DOMAIN customers \cup {NULL}
           /\ \A v \in DOMAIN users' : users'[u].mobile = users'[v].mobile => u = v
    <3> TAKE u \in DOMAIN users'
    <3>1. UserOK(users[u]) /\ users[u].customer \in DOMAIN customers \cup {NULL}
      BY <2>2 DEF TypeOK
    <3>2. UserOK(users'[u]) /\ users'[u].customer \in DOMAIN customers \cup {NULL}
      BY <2>2, <3>1 DEF UserOK, UserColumns
    <3>3. \A v \in DOMAIN users' : users'[u].mobile = users'[v].mobile => u = v
      BY <2>2 DEF TypeOK, UserColumns
    <3> QED
      BY <3>2, <3>3
  <2>4. Grows
    BY <2>1, <2>2 DEF Grows
  <2>5. TablesOK'
    BY <2>1, <2>3 DEF TypeOK, TablesOK
  <2> QED
    BY <2>1, <2>4, <2>5, CommitOK
<1> QED
  BY <1>2, <1>3, <1>4, <1>5, <1>6, <1>7

(***************************************************************************)
(* Income.                                                                 *)
(***************************************************************************)

\* The range of a sequence that grows.
LEMMA AppendGrows ==
    ASSUME NEW s, s \in Seq(Range(s)), NEW e
    PROVE  /\ Append(s, e) \in Seq(Range(Append(s, e))) /\ Append(s, e) # <<>>
           /\ Range(Append(s, e)) = Range(s) \cup {e} /\ Len(Append(s, e)) = Len(s) + 1
<1>1. /\ Append(s, e) \in Seq(Range(s) \cup {e}) /\ Len(Append(s, e)) = Len(s) + 1
      /\ \A i \in 1..Len(s) : Append(s, e)[i] = s[i]
      /\ Append(s, e)[Len(s) + 1] = e
  BY DEF Range
<1>2. Range(Append(s, e)) = Range(s) \cup {e}
  BY <1>1 DEF Range
<1> QED
  BY <1>1, <1>2

\* What can be done with an entry of a customer that exists.
LEMMA EntryIsOK ==
    ASSUME TypeOK, NEW c \in Nat, NEW new \in BOOLEAN, NEW item,
           new => item.name \in Names, ~new => c \in DOMAIN customers,
           SummaryOK(item.summary),
           \A n \in DOMAIN item.buckets : BareOK(item.buckets[n]),
           item.months # NULL => \A n \in DOMAIN item.months : BareOK(item.months[n])
    PROVE  EntryOK(Entry(c, new, item))
<1> DEFINE e == Entry(c, new, item)
<1>1. /\ e.customer = c /\ e.new = new /\ e.item = item
      /\ e.wake = (~new /\ ~customers[c].is_active)
      /\ e.seen = IF c \in DOMAIN summaries THEN summaries[c] ELSE NULL
  BY DEF Entry
<1>2. e.wake \in BOOLEAN
  BY <1>1
<1> HIDE DEF e
<1>3. EntryOK(e)
  BY <1>1, <1>2 DEF EntryOK
<1> QED
  BY <1>3 DEF e

\* A request on its way from one statement to the next.
LEMMA OnTheWay ==
    ASSUME TypeOK, NEW r \in Requests, NEW pc, NEW doomed, NEW gone,
           \/ req[r].pc \in IncomeStages /\ pc \in IncomeStages
           \/ req[r].pc \in ImportStages /\ pc \in ImportStages \ {"erasing"},
           doomed # {} => pc \in {"bucketsFound", "monthsFound", "erasingFound"}
    PROVE  ReqOK(r, [req[r] EXCEPT !.pc = pc, !.doomed = doomed, !.gone = gone])
<1> DEFINE q == [req[r] EXCEPT !.pc = pc, !.doomed = doomed, !.gone = gone]
<1>1. ReqOK(r, req[r])
  BY DEF TypeOK
<1>2. /\ DOMAIN q = DOMAIN Idle /\ q.pc = pc /\ q.doomed = doomed
      /\ \A k \in {"op", "seen", "plan", "held", "late", "code"} : q[k] = req[r][k]
  BY <1>1 DEF ReqOK, Idle
<1> HIDE DEF q
<1>3. IncomeReqOK(q)
  BY <1>1, <1>2 DEF ReqOK, IncomeReqOK, IncomeStages, ImportStages
<1>4. ConnectionReqOK(q) /\ UserReqOK(r, q)
  BY <1>2 DEF ConnectionReqOK, UserReqOK, IncomeStages, ImportStages
<1>5. ReqOK(r, q)
  BY <1>1, <1>2, <1>3, <1>4 DEF ReqOK, IncomeStages, ImportStages, Stages
<1> QED
  BY <1>5 DEF q

LEMMA FindOK ==
    ASSUME TypeOK, NEW r \in Requests, NEW from, NEW kind, NEW next,
           \/ req[r].pc \in IncomeStages /\ next \in {"bucketsFound", "monthsFound"}
           \/ req[r].pc \in ImportStages /\ next = "erasingFound",
           Find(r, from, kind, next)
    PROVE  TypeOK'
<1>1. PICK doomed : Goes(r, [req[r] EXCEPT !.pc = next, !.doomed = doomed])
  BY DEF Find
<1>2. DOMAIN req[r] = DOMAIN Idle
  BY DEF TypeOK, ReqOK
<1>3. [req[r] EXCEPT !.pc = next, !.doomed = doomed]
         = [req[r] EXCEPT !.pc = next, !.doomed = doomed, !.gone = req[r].gone]
  BY <1>2 DEF Idle
<1>4. ReqOK(r, [req[r] EXCEPT !.pc = next, !.doomed = doomed, !.gone = req[r].gone])
  BY OnTheWay DEF IncomeStages, ImportStages
<1> QED
  BY <1>1, <1>3, <1>4, GoesOK

LEMMA DeleteOK ==
    ASSUME TypeOK, NEW r \in Requests, NEW next,
           \/ req[r].pc \in IncomeStages /\ next \in {"months", "writing"}
           \/ req[r].pc \in ImportStages /\ next = "naming",
           Delete(r, next)
    PROVE  TypeOK'
<1>1. PICK gone : Goes(r, [req[r] EXCEPT !.pc = next, !.doomed = {}, !.gone = gone])
  <2>1. \A gone : [req[r] EXCEPT !.pc = next, !.doomed = {},
                                 !.gone = @ \cup (req[r].doomed \cap DOMAIN lines)]
                  = [req[r] EXCEPT !.pc = next, !.doomed = {},
                                   !.gone = req[r].gone \cup (req[r].doomed \cap DOMAIN lines)]
    BY DEF TypeOK, ReqOK, Idle
  <2> QED
    BY <2>1 DEF Delete
<1>2. ReqOK(r, [req[r] EXCEPT !.pc = next, !.doomed = {}, !.gone = gone])
  BY OnTheWay DEF IncomeStages, ImportStages
<1> QED
  BY <1>1, <1>2, GoesOK

\* The bulk upsert up to its flush, and the deletions of an import.
LEMMA UpsertSteps ==
    ASSUME TypeOK, NEW r \in Requests,
           \/ \E o \in Ops[r] : LoadUpsert(r, o) \/ LoadImport(r, o)
           \/ FindBuckets(r) \/ DeleteBuckets(r) \/ FindMonths(r) \/ DeleteMonths(r)
           \/ FindErased(r) \/ DeleteErased(r)
    PROVE  TypeOK'
<1>1. ASSUME NEW o \in Ops[r], LoadUpsert(r, o) PROVE TypeOK'
  <2> DEFINE plan == [i \in 1..Len(o.items) |-> Entry(o.items[i].customer, FALSE, o.items[i])]
             q == [Idle EXCEPT !.pc = "buckets", !.op = o, !.plan = plan]
  <2>1. CASE Goes(r, Done(422))
    BY <2>1, GoesOK, EndedIsReq
  <2>2. CASE (\A item \in Range(o.items) : Active(item.customer)) /\ Goes(r, q)
    <3>1. IncomeBody(o) /\ o.kind = "upsert"
      BY <1>1, OpsAssumption
      DEF LoadUpsert, CustomerBody, IncomeBody, ConnectionBody, UserBody
    <3>2. o.items \in Seq(Range(o.items)) /\ Len(o.items) \in Nat
      BY <3>1 DEF IncomeBody
    <3>3. ASSUME NEW i \in 1..Len(o.items) PROVE EntryOK(plan[i])
      <4>1. o.items[i] \in Range(o.items)
        BY <3>2, <3>3
      <4>2. /\ o.items[i].customer \in Nat /\ SummaryOK(o.items[i].summary)
            /\ o.items[i].buckets \in Bodies
            /\ o.items[i].months # NULL => o.items[i].months \in Bodies
        BY <3>1, <4>1 DEF IncomeBody
      <4>3. ASSUME NEW s \in Bodies, NEW n \in DOMAIN s PROVE BareOK(s[n])
        <5> DEFINE X == [code : Codes, label : Labels \cup {NULL}, amount : Amounts]
        <5>1. s \in Seq(X)
          BY <4>3 DEF Bodies
        <5>2. s[n] \in X
          <6> HIDE DEF X
          <6>1. DOMAIN s = 1..Len(s) /\ Len(s) \in Nat
            BY <5>1
          <6> QED
            BY <4>3, <5>1, <6>1
        <5> QED
          BY <5>2 DEF BareOK
      <4>4. o.items[i].customer \in DOMAIN customers
        BY <2>2, <4>1 DEF Active
      <4>5. EntryOK(Entry(o.items[i].customer, FALSE, o.items[i]))
        BY <4>2, <4>3, <4>4, EntryIsOK
      <4> QED
        BY <3>3, <4>5
    <3>4. plan \in Seq(Range(plan)) /\ Len(plan) \in Nat /\ \A e \in Range(plan) : EntryOK(e)
      <4>1. DOMAIN plan = 1..Len(o.items) /\ \A i \in 1..Len(o.items) : plan[i] \in Range(plan)
        BY DEF Range
      <4>2. \A e \in Range(plan) : EntryOK(e)
        BY <3>3, <4>1 DEF Range
      <4>3. plan \in [1..Len(o.items) -> Range(plan)]
        BY <4>1
      <4> HIDE DEF plan
      <4> QED
        BY <3>2, <4>2, <4>3
    <3> HIDE DEF plan
    <3>5. /\ DOMAIN q = DOMAIN Idle /\ q.pc = "buckets" /\ q.op = o /\ q.plan = plan /\ q.held = 0
          /\ q.doomed = {} /\ q.code = NULL
      BY DEF Idle
    <3> HIDE DEF q
    <3>6. IncomeReqOK(q)
      BY <3>1, <3>4, <3>5 DEF IncomeReqOK, ImportStages
    <3>7. ConnectionReqOK(q) /\ UserReqOK(r, q)
      BY <3>5 DEF ConnectionReqOK, UserReqOK
    <3>8. ReqOK(r, q)
      BY <3>5, <3>6, <3>7 DEF ReqOK, Stages
    <3> QED
      BY <2>2, <3>8, GoesOK
  <2> QED
    BY <1>1, <2>1, <2>2 DEF LoadUpsert
<1>2. ASSUME NEW o \in Ops[r], LoadImport(r, o) PROVE TypeOK'
  <2> DEFINE seen == NamesOf(o.sums, o.rows)
             q == [Idle EXCEPT !.pc = "naming", !.op = o, !.seen = seen]
  <2>1. Goes(r, q) /\ o.kind = "import"
    BY <1>2 DEF LoadImport
  <2>2. seen \subseteq NamesOf(o.sums, o.rows)
    OBVIOUS
  <2> HIDE DEF seen
  <2>3. ConnectionReqOK(q) /\ UserReqOK(r, q)
    BY DEF ConnectionReqOK, UserReqOK, Idle
  <2>4. ReqOK(r, q)
    BY <2>1, <2>2, <2>3, BegunIsReq DEF Stages, IncomeStages
  <2> QED
    BY <2>1, <2>4, GoesOK
<1>3. CASE FindBuckets(r) \/ FindMonths(r) \/ FindErased(r)
  BY <1>3, FindOK DEF FindBuckets, FindMonths, FindErased, IncomeStages, ImportStages
<1>4. CASE DeleteBuckets(r) \/ DeleteMonths(r) \/ DeleteErased(r)
  BY <1>4, DeleteOK DEF DeleteBuckets, DeleteMonths, DeleteErased, IncomeStages, ImportStages
<1> QED
  BY <1>1, <1>2, <1>3, <1>4

\* The next customer of a workbook.
LEMMA NameSteps ==
    ASSUME TypeOK, IdsBounded, NEW r \in Requests, NameCustomer(r)
    PROVE  TypeOK'
<1> DEFINE name == First(req[r].seen)
           new  == Namesakes(name) = {}
           c    == IF new THEN NextId ELSE Min(Namesakes(name))
           item == ImportItem(req[r].op, name)
           e    == Entry(c, new, item)
           p    == [req[r] EXCEPT !.pc = "erasing", !.seen = @ \ {name}, !.plan = Append(@, e)]
           to   == Len(req[r].plan)
<1>1. /\ req[r].pc = "naming" /\ req[r].seen # {}
      /\ Goes(r, p) \/ Goes(r, [p EXCEPT !.held = to]) \/ Goes(r, Done(500))
  BY DEF NameCustomer
<1>2. ReqOK(r, req[r])
  BY DEF TypeOK
<1>3. /\ req[r].op \in Ops[r] /\ req[r].op.kind = "import"
      /\ req[r].seen \subseteq NamesOf(req[r].op.sums, req[r].op.rows)
      /\ DOMAIN req[r] = DOMAIN Idle
  BY <1>1, <1>2 DEF ReqOK, IncomeReqOK, ImportStages
<1>4. /\ req[r].plan \in Seq(Range(req[r].plan)) /\ \A x \in Range(req[r].plan) : EntryOK(x)
      /\ req[r].held \in 0..Len(req[r].plan)
  BY <1>2 DEF ReqOK, IncomeReqOK
<1>5. req[r].doomed = {} /\ req[r].code \in {NULL, 200, 401, 404, 409, 422, 500, 502}
  BY <1>1, <1>2 DEF ReqOK, IncomeReqOK
<1>6. IncomeBody(req[r].op)
  BY <1>3, OpsAssumption DEF CustomerBody, IncomeBody, ConnectionBody, UserBody
<1>7. name \in req[r].seen
  BY <1>1, <1>3, <1>6, FirstIsIn DEF IncomeBody
<1>8. c \in Nat /\ (~new => c \in DOMAIN customers) /\ new \in BOOLEAN
  <2>1. Namesakes(name) \subseteq DOMAIN customers /\ DOMAIN customers \subseteq Nat
    BY DEF Namesakes, TypeOK
  <2>2. CASE new
    BY <2>2, NextIdIsNat
  <2>3. CASE ~new
    BY <2>1, <2>3, MinIsIn
  <2> QED
    BY <2>2, <2>3
<1> HIDE DEF name, new, c
<1>9. /\ item.name \in Names /\ SummaryOK(item.summary) /\ item.months = NULL
      /\ \A n \in DOMAIN item.buckets : BareOK(item.buckets[n])
  BY <1>3, <1>6, <1>7, ImportItemOK
<1> HIDE DEF item
<1>10. EntryOK(e)
  BY <1>8, <1>9, EntryIsOK
<1> HIDE DEF e
<1>11. ASSUME NEW held \in {req[r].held, to}, NEW q, q = [p EXCEPT !.held = held] PROVE ReqOK(r, q)
  <2>1. /\ DOMAIN q = DOMAIN Idle /\ q.pc = "erasing" /\ q.seen = req[r].seen \ {name}
        /\ q.plan = Append(req[r].plan, e) /\ q.held = held /\ q.doomed = req[r].doomed
        /\ q.op = req[r].op /\ q.code = req[r].code
    BY <1>3, <1>11 DEF Idle
  <2>2. /\ q.plan \in Seq(Range(q.plan)) /\ q.plan # <<>>
        /\ Range(q.plan) = Range(req[r].plan) \cup {e} /\ Len(q.plan) = Len(req[r].plan) + 1
    BY <1>4, <2>1, AppendGrows
  <2>3. q.held \in 0..Len(q.plan)
    BY <1>4, <2>1, <2>2
  <2>4. IncomeReqOK(q)
    BY <1>3, <1>4, <1>5, <1>10, <2>1, <2>2, <2>3 DEF IncomeReqOK, IncomeStages, ImportStages
  <2>5. ConnectionReqOK(q) /\ UserReqOK(r, q)
    BY <2>1 DEF ConnectionReqOK, UserReqOK
  <2> QED
    BY <1>3, <1>5, <2>1, <2>4, <2>5 DEF ReqOK, Stages
<1>12. ReqOK(r, p) /\ ReqOK(r, [p EXCEPT !.held = to])
  <2>1. p = [p EXCEPT !.held = req[r].held]
    BY <1>3 DEF Idle
  <2> HIDE DEF p, to
  <2> QED
    BY <1>11, <2>1
<1> QED
  BY <1>1, <1>12, GoesOK, EndedIsReq

\* The entries of a plan are good.
LEMMA EntriesAreOK ==
    ASSUME TypeOK, NEW r \in Requests
    PROVE  \A e \in Entries(r, 1, Len(req[r].plan)) : EntryOK(e)
<1>1. /\ req[r].plan \in Seq(Range(req[r].plan)) /\ \A e \in Range(req[r].plan) : EntryOK(e)
  BY DEF TypeOK, ReqOK, IncomeReqOK
<1> QED
  BY <1>1 DEF Entries

\* The lines that they insert.
LEMMA InsertedOK ==
    ASSUME NEW r, NEW e, EntryOK(e), NEW i \in DOMAIN Inserted(r, e)
    PROVE  LineOK(Inserted(r, e)[i]) /\ Inserted(r, e)[i].customer = e.customer
<1> DEFINE months == IF e.item.months = NULL THEN <<>> ELSE e.item.months
           of(kind) == IF kind = "bucket" THEN e.item.buckets ELSE months
<1>1. \A n \in DOMAIN e.item.buckets : BareOK(e.item.buckets[n])
  BY DEF EntryOK
<1>2. \A n \in DOMAIN months : BareOK(months[n])
  BY DEF EntryOK
<1>3. \/ i[3] = "bucket" /\ i[4] \in DOMAIN e.item.buckets
      \/ i[3] = "month" /\ i[4] \in DOMAIN months
  BY DEF Inserted
<1>4. Inserted(r, e)[i] = Row(e.customer, i[3], of(i[3])[i[4]])
  BY DEF Inserted
<1>5. BareOK(of(i[3])[i[4]]) /\ i[3] \in Kinds
  BY <1>1, <1>2, <1>3 DEF Kinds
<1> HIDE DEF of
<1> QED
  BY <1>4, <1>5 DEF Row, LineOK, BareOK

\* What the commit writes of lines, and no more than what is new is new.
LEMMA LinesOK ==
    ASSUME TypeOK, NEW r \in Requests
    PROVE  LET all == LinesWith(r, 1, Len(req[r].plan)) IN
           \A i \in DOMAIN all :
              /\ LineOK(all[i])
              /\ \/ all[i].customer \in DOMAIN customers
                 \/ \E e \in Entries(r, 1, Len(req[r].plan)) : all[i].customer = e.customer
<1> DEFINE n    == Len(req[r].plan)
           es   == Entries(r, 1, n)
           news == UNION {{<<i, Inserted(r, e)[i]>> : i \in DOMAIN Inserted(r, e)} : e \in es}
           new  == InsertedBy(r, 1, n)
           all  == LinesWith(r, 1, n)
<1>1. ASSUME NEW x \in news
      PROVE  LineOK(x[2]) /\ \E e \in es : x[2].customer = e.customer
  <2>1. PICK e \in es : x \in {<<i, Inserted(r, e)[i]>> : i \in DOMAIN Inserted(r, e)}
    BY <1>1
  <2>2. PICK i \in DOMAIN Inserted(r, e) : x = <<i, Inserted(r, e)[i]>>
    BY <2>1
  <2>3. EntryOK(e)
    BY EntriesAreOK
  <2>4. LineOK(Inserted(r, e)[i]) /\ Inserted(r, e)[i].customer = e.customer
    BY <2>3, InsertedOK
  <2>5. x[2] = Inserted(r, e)[i]
    BY <2>2
  <2> QED
    BY <2>4, <2>5
<1>2. new = [i \in {x[1] : x \in news} |-> (CHOOSE x \in news : x[1] = i)[2]]
  BY DEF InsertedBy
<1>3. all = [i \in (DOMAIN lines \ req[r].gone) \cup DOMAIN new |->
                IF i \in DOMAIN new THEN new[i] ELSE lines[i]]
  BY DEF LinesWith
<1> HIDE DEF news, all
<1>4. ASSUME NEW i \in DOMAIN new
      PROVE  LineOK(new[i]) /\ \E e \in es : new[i].customer = e.customer
  <2>1. \E x \in news : x[1] = i
    BY <1>2, <1>4
  <2>2. (CHOOSE x \in news : x[1] = i) \in news
    BY <2>1
  <2>3. new[i] = (CHOOSE x \in news : x[1] = i)[2]
    BY <1>2, <1>4
  <2> HIDE DEF new, es
  <2> QED
    BY <1>1, <2>2, <2>3
<1> HIDE DEF new
<1> SUFFICES ASSUME NEW i \in DOMAIN all
             PROVE  /\ LineOK(all[i])
                    /\ all[i].customer \in DOMAIN customers \/ \E e \in es : all[i].customer = e.customer
  BY DEF all
<1>5. CASE i \in DOMAIN new
  BY <1>3, <1>4, <1>5
<1>6. CASE i \notin DOMAIN new
  BY <1>3, <1>6 DEF TypeOK
<1> QED
  BY <1>5, <1>6

\* And of summaries,
LEMMA SummariesOK ==
    ASSUME TypeOK, NEW r \in Requests
    PROVE  LET n == Len(req[r].plan)
               all == SummariesWith(r, 1, n) IN
           /\ DOMAIN summaries \subseteq DOMAIN all
           /\ DOMAIN all = DOMAIN summaries \cup {e.customer : e \in Entries(r, 1, n)}
           /\ \A c \in DOMAIN all : SummaryOK(all[c])
<1> DEFINE n    == Len(req[r].plan)
           es   == Entries(r, 1, n)
           mine == {e.customer : e \in es}
           of(c) == CHOOSE e \in es : e.customer = c
           all  == SummariesWith(r, 1, n)
<1>1. all = [c \in DOMAIN summaries \cup mine |-> IF c \in mine THEN Summed(of(c)) ELSE summaries[c]]
  BY DEF SummariesWith
<1>2. ASSUME NEW c \in mine PROVE SummaryOK(Summed(of(c)))
  <2>1. of(c) \in es
    BY <1>2
  <2>2. EntryOK(of(c))
    BY <2>1, EntriesAreOK
  <2> HIDE DEF of, es
  <2>3. PICK e : e = of(c)
    OBVIOUS
  <2>4. EntryOK(e)
    BY <2>2, <2>3
  <2>5. SummaryOK(e.item.summary) /\ (e.seen # NULL => e.customer \in DOMAIN summaries)
    BY <2>4 DEF EntryOK
  <2>6. CASE e.seen = NULL
    BY <2>3, <2>5, <2>6 DEF Summed
  <2>7. CASE e.seen # NULL
    <3>1. SummaryOK(summaries[e.customer])
      BY <2>5, <2>7 DEF TypeOK
    <3>2. SummaryOK(Flush(summaries[e.customer], e.seen, e.item.summary))
      BY <2>5, <3>1 DEF SummaryOK, Flush
    <3> QED
      BY <2>3, <2>7, <3>2 DEF Summed
  <2> QED
    BY <2>6, <2>7
<1> HIDE DEF of
<1>3. /\ DOMAIN all = DOMAIN summaries \cup mine
      /\ \A c \in DOMAIN all : SummaryOK(all[c])
  BY <1>1, <1>2 DEF TypeOK
<1> QED
  BY <1>3

\* and of customers.
LEMMA CustomersOK ==
    ASSUME TypeOK, NEW r \in Requests
    PROVE  LET n == Len(req[r].plan)
               all == CustomersWith(r, 1, n) IN
           /\ DOMAIN customers \subseteq DOMAIN all /\ DOMAIN all \subseteq Nat
           /\ \A e \in Entries(r, 1, n) : e.customer \in DOMAIN all
           /\ DOMAIN all \subseteq DOMAIN customers \cup {e.customer : e \in Entries(r, 1, n)}
           /\ \A c \in DOMAIN all : CustomerOK(all[c])
<1> DEFINE n    == Len(req[r].plan)
           es   == Entries(r, 1, n)
           mine == {e.customer : e \in {x \in es : x.new \/ x.wake}}
           of(c) == CHOOSE e \in es : e.customer = c
           all  == CustomersWith(r, 1, n)
<1>1. all = [c \in DOMAIN customers \cup mine |->
                IF c \notin mine THEN customers[c]
                ELSE IF of(c).new THEN [name |-> of(c).item.name, is_active |-> TRUE]
                ELSE [customers[c] EXCEPT !.is_active = TRUE]]
  BY DEF CustomersWith
<1>2. \A e \in es : EntryOK(e)
  BY EntriesAreOK
<1>3. ASSUME NEW c \in mine
      PROVE  /\ of(c).customer = c /\ c \in Nat
             /\ of(c).new => of(c).item.name \in Names
             /\ ~of(c).new => c \in DOMAIN customers
  <2>1. of(c) \in es /\ of(c).customer = c
    BY <1>3
  <2> HIDE DEF of, es
  <2> QED
    BY <1>2, <2>1 DEF EntryOK
<1> HIDE DEF of
<1>4. \A c \in DOMAIN customers : CustomerOK(customers[c])
  BY DEF TypeOK
<1>5. ASSUME NEW c \in DOMAIN all PROVE CustomerOK(all[c])
  <2>1. CASE c \notin mine
    BY <1>1, <1>4, <1>5, <2>1
  <2>2. CASE c \in mine /\ of(c).new
    <3>1. all[c] = [name |-> of(c).item.name, is_active |-> TRUE]
      BY <1>1, <1>5, <2>2
    <3>2. of(c).item.name \in Names
      BY <1>3, <2>2
    <3>3. CustomerOK([name |-> of(c).item.name, is_active |-> TRUE])
      BY <3>2 DEF CustomerOK
    <3> QED
      BY <3>1, <3>3
  <2>3. CASE c \in mine /\ ~of(c).new
    <3>1. CustomerOK(customers[c])
      BY <1>3, <1>4, <2>3
    <3>2. CustomerOK([customers[c] EXCEPT !.is_active = TRUE])
      BY <3>1 DEF CustomerOK
    <3> QED
      BY <1>1, <2>3, <3>2
  <2> QED
    BY <2>1, <2>2, <2>3
<1>6. DOMAIN all = DOMAIN customers \cup mine /\ mine \subseteq Nat /\ DOMAIN customers \subseteq Nat
  BY <1>1, <1>3 DEF TypeOK
<1>7. ASSUME NEW e \in es PROVE e.customer \in DOMAIN all
  <2>1. EntryOK(e)
    BY <1>2
  <2>2. CASE e.new
    BY <1>6, <1>7, <2>2
  <2>3. CASE ~e.new
    BY <1>6, <2>1, <2>3 DEF EntryOK
  <2> QED
    BY <2>2, <2>3
<1> QED
  BY <1>5, <1>6, <1>7

\* The commit.
LEMMA CommitIncomeOK ==
    ASSUME TypeOK, NEW r \in Requests, CommitIncome(r)
    PROVE  TypeOK'
<1> DEFINE n  == Len(req[r].plan)
           cs == CustomersWith(r, 1, n)
           ss == SummariesWith(r, 1, n)
           ls == LinesWith(r, 1, n)
<1>1. CASE \E code \in {409, 500} : Goes(r, Done(code))
  BY <1>1, GoesOK, EndedIsReq
<1>2. CASE /\ Storable(r, 1, n)
           /\ customers' = cs /\ summaries' = ss /\ lines' = ls
           /\ UNCHANGED <<connections, users>> /\ Commits(r, 200)
  <2>1. \A i, j \in DOMAIN ls : LineKey(ls[i]) = LineKey(ls[j]) => i = j
    BY <1>2 DEF Storable
  <2>2. /\ DOMAIN customers \subseteq DOMAIN cs /\ DOMAIN cs \subseteq Nat
        /\ \A e \in Entries(r, 1, n) : e.customer \in DOMAIN cs
        /\ \A c \in DOMAIN cs : CustomerOK(cs[c])
    BY CustomersOK
  <2>3. /\ DOMAIN summaries \subseteq DOMAIN ss /\ DOMAIN ss \subseteq DOMAIN cs
        /\ \A c \in DOMAIN ss : SummaryOK(ss[c])
    <3>1. /\ DOMAIN summaries \subseteq DOMAIN ss
          /\ DOMAIN ss = DOMAIN summaries \cup {e.customer : e \in Entries(r, 1, n)}
          /\ \A c \in DOMAIN ss : SummaryOK(ss[c])
      BY SummariesOK
    <3>2. DOMAIN summaries \subseteq DOMAIN customers
      BY DEF TypeOK
    <3> HIDE DEF cs, ss, n
    <3> QED
      BY <2>2, <3>1, <3>2
  <2>4. \A i \in DOMAIN ls : LineOK(ls[i]) /\ ls[i].customer \in DOMAIN cs
    BY <2>2, LinesOK
  <2> HIDE DEF cs, ss, ls
  <2>5. Grows
    BY <1>2, <2>2, <2>3 DEF Grows
  <2>6. \A i \in DOMAIN ls :
           /\ LineOK(ls[i]) /\ ls[i].customer \in DOMAIN cs
           /\ \A j \in DOMAIN ls : LineKey(ls[i]) = LineKey(ls[j]) => i = j
    BY <2>1, <2>4
  <2>7. DOMAIN connections \subseteq DOMAIN cs
    BY <2>2 DEF TypeOK
  <2>8. \A u \in DOMAIN users :
           /\ UserOK(users[u]) /\ users[u].customer \in DOMAIN cs \cup {NULL}
           /\ \A v \in DOMAIN users : users[u].mobile = users[v].mobile => u = v
    BY <2>2 DEF TypeOK
  <2>9. TablesOK'
    BY <1>2, <2>2, <2>3, <2>6, <2>7, <2>8 DEF TypeOK, TablesOK
  <2> QED
    BY <1>2, <2>5, <2>9, CommitOK
<1> QED
  BY <1>1, <1>2 DEF CommitIncome

(***************************************************************************)
(* The ids that are drawn.                                                 *)
(***************************************************************************)

\* The customers of a plan.
Planned(q) == {q.plan[i].customer : i \in 1..Len(q.plan)}

LEMMA GoesDraws ==
    ASSUME TypeOK, IdsBounded, NEW r \in Requests, NEW q, Goes(r, q), NEW k,
           Planned(q) \subseteq Drawn \cup DOMAIN customers \cup {k}
    PROVE  IdsBounded'
<1>1. customers' = customers /\ req' = [req EXCEPT ![r] = q] /\ DOMAIN req = Requests
  BY DEF Goes, tables, TypeOK
<1>2. \A s \in Requests : req'[s] = IF s = r THEN q ELSE req[s]
  BY <1>1
<1>3. Drawn' \subseteq Drawn \cup DOMAIN customers \cup {k}
  <2>1. ASSUME NEW s \in Requests, NEW i \in 1..Len(req'[s].plan)
        PROVE  req'[s].plan[i].customer \in Drawn \cup DOMAIN customers \cup {k}
    <3>1. CASE s = r
      BY <1>2, <2>1, <3>1 DEF Planned
    <3>2. CASE s # r
      <4>1. req'[s] = req[s]
        BY <1>2, <3>2
      <4> QED
        BY <2>1, <4>1 DEF Drawn
    <3> QED
      BY <3>1, <3>2
  <2> DEFINE X == Drawn \cup DOMAIN customers \cup {k}
  <2>2. \A s \in Requests : \A i \in 1..Len(req'[s].plan) : req'[s].plan[i].customer \in X
    BY <2>1
  <2> HIDE DEF X
  <2>3. Drawn' \subseteq X
    BY <2>2 DEF Drawn
  <2> QED
    BY <2>3 DEF X
<1>4. IsFiniteSet(Drawn \cup DOMAIN customers \cup {k})
  BY FS_Singleton, FS_Union DEF IdsBounded
<1>5. IsFiniteSet(Drawn')
  <2> DEFINE D == Drawn
  <2> QED
    BY <1>3, <1>4, FS_Subset
<1> QED
  BY <1>1, <1>5 DEF IdsBounded

LEMMA CommitDraws ==
    ASSUME TypeOK, IdsBounded, NEW r \in Requests, NEW code, Commits(r, code), NEW k,
           DOMAIN customers' \subseteq Drawn \cup DOMAIN customers \cup {k}
    PROVE  IdsBounded'
<1>1. /\ req'[r] = Done(code)
      /\ \A s \in Requests \ {r} : Alike(req[s], req'[s])
  BY CommitMoves
<1>2. Drawn' \subseteq Drawn
  <2>1. ASSUME NEW s \in Requests, NEW i \in 1..Len(req'[s].plan)
        PROVE  req'[s].plan[i].customer \in Drawn
    <3>1. CASE s = r
      <4>1. req'[s].plan = <<>>
        BY <1>1, <3>1 DEF Done, Idle
      <4> QED
        BY <2>1, <4>1
    <3>2. CASE s # r
      <4>1. req'[s].plan = req[s].plan
        BY <1>1, <3>2 DEF Alike, Idle
      <4> QED
        BY <2>1, <4>1 DEF Drawn
    <3> QED
      BY <3>1, <3>2
  <2> DEFINE X == Drawn
  <2>2. \A s \in Requests : \A i \in 1..Len(req'[s].plan) : req'[s].plan[i].customer \in X
    BY <2>1
  <2> HIDE DEF X
  <2>3. Drawn' \subseteq X
    BY <2>2 DEF Drawn
  <2> QED
    BY <2>3 DEF X
<1>3. IsFiniteSet(Drawn \cup DOMAIN customers \cup {k})
  BY FS_Singleton, FS_Union DEF IdsBounded
<1>4. IsFiniteSet(Drawn') /\ IsFiniteSet(DOMAIN customers')
  BY <1>2, <1>3, FS_Subset DEF IdsBounded
<1> QED
  BY <1>4 DEF IdsBounded

\* A request whose plan stays or is empty draws nothing.
LEMMA GoesDrawsNone ==
    ASSUME TypeOK, IdsBounded, NEW r \in Requests, NEW q, Goes(r, q), q.plan \in {<<>>, req[r].plan}
    PROVE  IdsBounded'
<1>1. Planned(q) \subseteq Drawn
  <2>1. CASE q.plan = <<>>
    <3>1. Len(q.plan) = 0
      BY <2>1
    <3> QED
      BY <3>1 DEF Planned
  <2>2. CASE q.plan = req[r].plan
    BY <2>2 DEF Planned, Drawn
  <2> QED
    BY <2>1, <2>2
<1> QED
  BY <1>1, GoesDraws

LEMMA DoneDrawsNone ==
    ASSUME TypeOK, IdsBounded, NEW r \in Requests, NEW code, Goes(r, Done(code))
    PROVE  IdsBounded'
<1>1. Done(code).plan = <<>>
  BY DEF Done, Idle
<1> QED
  BY <1>1, GoesDrawsNone

\* No step draws more than one id.
LEMMA StepDraws ==
    ASSUME TypeOK, IdsBounded, NEW r \in Requests,
           (\E o \in Ops[r] : Begin(r, o)) \/ Proceed(r) \/ Abort(r)
    PROVE  IdsBounded'
<1>1. ASSUME NEW pc, NEW o, NEW seen, Goes(r, [Idle EXCEPT !.pc = pc, !.op = o, !.seen = seen])
      PROVE  IdsBounded'
  <2>1. [Idle EXCEPT !.pc = pc, !.op = o, !.seen = seen].plan = <<>>
    BY DEF Idle
  <2> QED
    BY <1>1, <2>1, GoesDrawsNone
<1>2. ASSUME NEW o \in Ops[r],
             \/ LoadCustomer(r, o) \/ LoadImport(r, o) \/ LoadConnect(r, o) \/ LoadTest(r, o)
             \/ LoadNewUser(r, o) \/ LoadEditUser(r, o) \/ LoadSeed(r, o) \/ Login(r, o)
      PROVE  IdsBounded'
  <2>1. CASE LoadCustomer(r, o)
    BY <1>1, <2>1, DoneDrawsNone, ZenonT(60) DEF LoadCustomer
  <2>2. CASE LoadImport(r, o)
    BY <1>1, <2>2 DEF LoadImport
  <2>3. CASE LoadConnect(r, o)
    BY <1>1, <2>3, DoneDrawsNone, ZenonT(60) DEF LoadConnect
  <2>4. CASE LoadTest(r, o)
    <3>1. \/ \E code : Goes(r, Done(code))
          \/ Goes(r, [Idle EXCEPT !.pc = "testing", !.op = o, !.seen = Stored(o.customer)])
      BY <2>4 DEF LoadTest
    <3> QED
      BY <1>1, <3>1, DoneDrawsNone
  <2>5. CASE LoadNewUser(r, o)
    BY <1>1, <2>5, DoneDrawsNone, ZenonT(60) DEF LoadNewUser
  <2>6. CASE LoadEditUser(r, o)
    BY <1>1, <2>6, DoneDrawsNone, ZenonT(60) DEF LoadEditUser
  <2>7. CASE LoadSeed(r, o)
    BY <1>1, <2>7, DoneDrawsNone DEF LoadSeed
  <2>8. CASE Login(r, o)
    BY <1>1, <2>8, DoneDrawsNone, ZenonT(60) DEF Login
  <2> QED
    BY <1>2, <2>1, <2>2, <2>3, <2>4, <2>5, <2>6, <2>7, <2>8
<1>3. ASSUME NEW o \in Ops[r], LoadUpsert(r, o) PROVE IdsBounded'
  <2> DEFINE plan == [i \in 1..Len(o.items) |-> Entry(o.items[i].customer, FALSE, o.items[i])]
             q == [Idle EXCEPT !.pc = "buckets", !.op = o, !.plan = plan]
  <2>1. CASE (\A item \in Range(o.items) : Active(item.customer)) /\ Goes(r, q)
    <3>1. IncomeBody(o) /\ o.kind = "upsert"
      BY <1>3, OpsAssumption
      DEF LoadUpsert, CustomerBody, IncomeBody, ConnectionBody, UserBody
    <3>2. o.items \in Seq(Range(o.items)) /\ Len(o.items) \in Nat
      BY <3>1 DEF IncomeBody
    <3>3. q.plan = plan /\ plan \in Seq(Range(plan)) /\ Len(plan) = Len(o.items)
      <4>1. DOMAIN plan = 1..Len(o.items) /\ \A i \in 1..Len(o.items) : plan[i] \in Range(plan)
        BY DEF Range
      <4>2. plan \in [1..Len(o.items) -> Range(plan)] /\ q.plan = plan
        BY <4>1 DEF Idle
      <4> HIDE DEF plan
      <4> QED
        BY <3>2, <4>2
    <3>4. ASSUME NEW i \in 1..Len(o.items) PROVE plan[i].customer \in DOMAIN customers
      <4>1. o.items[i] \in Range(o.items)
        BY <3>2, <3>4
      <4>2. o.items[i].customer \in DOMAIN customers
        BY <2>1, <4>1 DEF Active
      <4> QED
        BY <3>4, <4>2 DEF Entry
    <3> HIDE DEF plan, q
    <3>5. Planned(q) \subseteq DOMAIN customers
      BY <3>3, <3>4 DEF Planned
    <3> QED
      BY <2>1, <3>5, GoesDraws
  <2> QED
    BY <1>3, <2>1, DoneDrawsNone DEF LoadUpsert
<1>4. ASSUME NEW from, NEW kind, NEW next, Find(r, from, kind, next) PROVE IdsBounded'
  <2>1. PICK doomed : Goes(r, [req[r] EXCEPT !.pc = next, !.doomed = doomed])
    BY <1>4 DEF Find
  <2>2. [req[r] EXCEPT !.pc = next, !.doomed = doomed].plan = req[r].plan
    BY DEF TypeOK, ReqOK, Idle
  <2> QED
    BY <2>1, <2>2, GoesDrawsNone
<1>5. ASSUME NEW next, Delete(r, next) PROVE IdsBounded'
  <2> DEFINE q == [req[r] EXCEPT !.pc = next, !.doomed = {},
                                 !.gone = @ \cup (req[r].doomed \cap DOMAIN lines)]
  <2>1. Goes(r, q)
    BY <1>5 DEF Delete
  <2>2. DOMAIN req[r] = DOMAIN Idle
    BY DEF TypeOK, ReqOK
  <2>3. q.plan = req[r].plan
    BY <2>2 DEF Idle
  <2> HIDE DEF q
  <2> QED
    BY <2>1, <2>3, GoesDrawsNone
<1>6. CASE NameCustomer(r)
  <2> DEFINE name == First(req[r].seen)
             new  == Namesakes(name) = {}
             c    == IF new THEN NextId ELSE Min(Namesakes(name))
             e    == Entry(c, new, ImportItem(req[r].op, name))
             p    == [req[r] EXCEPT !.pc = "erasing", !.seen = @ \ {name}, !.plan = Append(@, e)]
             to   == Len(req[r].plan)
  <2>1. Goes(r, p) \/ Goes(r, [p EXCEPT !.held = to]) \/ Goes(r, Done(500))
    BY <1>6 DEF NameCustomer
  <2>2. e.customer = c
    BY DEF Entry
  <2> HIDE DEF e
  <2>3. ASSUME NEW q, q.plan = Append(req[r].plan, e) PROVE Planned(q) \subseteq Drawn \cup DOMAIN customers \cup {c}
    <3>1. req[r].plan \in Seq(Range(req[r].plan))
      BY DEF TypeOK, ReqOK, IncomeReqOK
    <3>2. /\ Len(Append(req[r].plan, e)) = Len(req[r].plan) + 1 /\ Len(req[r].plan) \in Nat
          /\ \A i \in 1..Len(req[r].plan) : Append(req[r].plan, e)[i] = req[r].plan[i]
          /\ Append(req[r].plan, e)[Len(req[r].plan) + 1] = e
      BY <3>1
    <3>3. ASSUME NEW i \in 1..Len(req[r].plan) + 1 PROVE q.plan[i].customer \in Drawn \cup {c}
      <4>1. CASE i = Len(req[r].plan) + 1
        BY <2>2, <2>3, <3>2, <4>1
      <4>2. CASE i \in 1..Len(req[r].plan)
        BY <2>3, <3>2, <4>2 DEF Drawn
      <4> QED
        BY <3>2, <3>3, <4>1, <4>2
    <3> QED
      BY <2>3, <3>2, <3>3 DEF Planned
  <2>4. p.plan = Append(req[r].plan, e) /\ [p EXCEPT !.held = to].plan = Append(req[r].plan, e)
    BY DEF TypeOK, ReqOK, Idle
  <2> HIDE DEF p, c, to
  <2>5. ASSUME NEW q, Goes(r, q), q.plan = Append(req[r].plan, e) PROVE IdsBounded'
    BY <2>3, <2>5, GoesDraws
  <2> QED
    BY <2>1, <2>4, <2>5, DoneDrawsNone, ZenonT(60)
<1>7. CASE CommitIncome(r)
  <2>1. CASE Storable(r, 1, Len(req[r].plan))
    <3> DEFINE n == Len(req[r].plan)
    <3>1. customers' = CustomersWith(r, 1, n) /\ Commits(r, 200)
      BY <1>7, <2>1 DEF CommitIncome
    <3>2. DOMAIN CustomersWith(r, 1, n) \subseteq DOMAIN customers \cup {e.customer : e \in Entries(r, 1, n)}
      BY CustomersOK
    <3>3. {e.customer : e \in Entries(r, 1, n)} \subseteq Drawn
      BY DEF Entries, Drawn
    <3> QED
      BY <3>1, <3>2, <3>3, CommitDraws
  <2>2. CASE ~Storable(r, 1, Len(req[r].plan))
    BY <1>7, <2>2, DoneDrawsNone DEF CommitIncome
  <2> QED
    BY <2>1, <2>2
<1>8. CASE CommitCustomer(r)
  <2>1. PICK id, row : \/ Goes(r, Done(409))
                       \/ customers' = Put(customers, id, row) /\ Commits(r, 200)
    BY <1>8 DEF CommitCustomer
  <2>2. DOMAIN Put(customers, id, row) = DOMAIN customers \cup {id}
    BY DEF Put
  <2> QED
    BY <2>1, <2>2, CommitDraws, DoneDrawsNone
<1>9. CASE CommitConnect(r) \/ CommitTest(r) \/ CommitUser(r) \/ Upgrade(r)
  <2>1. ASSUME NEW code, UNCHANGED customers, Commits(r, code) PROVE IdsBounded'
    BY <2>1, CommitDraws
  <2>2. CASE CommitConnect(r)
    BY <2>1, <2>2, DoneDrawsNone DEF CommitConnect
  <2>3. CASE CommitTest(r)
    BY <2>1, <2>3 DEF CommitTest
  <2>4. CASE CommitUser(r)
    BY <2>1, <2>4, DoneDrawsNone DEF CommitUser, StoreUser
  <2>5. CASE Upgrade(r)
    BY <2>1, <2>5 DEF Upgrade
  <2> QED
    BY <1>9, <2>2, <2>3, <2>4, <2>5
<1>10. CASE Abort(r)
  BY <1>10, DoneDrawsNone DEF Abort
<1>11. CASE \/ FindBuckets(r) \/ FindMonths(r) \/ FindErased(r)
            \/ DeleteBuckets(r) \/ DeleteMonths(r) \/ DeleteErased(r)
  BY <1>4, <1>5, <1>11
  DEF FindBuckets, FindMonths, FindErased, DeleteBuckets, DeleteMonths, DeleteErased
<1> QED
  BY <1>2, <1>3, <1>6, <1>7, <1>8, <1>9, <1>10, <1>11 DEF Begin, Proceed

(***************************************************************************)
(* Types.                                                                  *)
(***************************************************************************)

LEMMA InitTyped ==
    ASSUME Init
    PROVE  TypeOK /\ IdsBounded
<1>1. TablesOK
  BY CustomersAssumption, IncomeAssumption, ConnectionsAssumption, UsersAssumption DEF Init, TablesOK
<1>2. DOMAIN req = Requests /\ \A r \in Requests : req[r] = Idle /\ ReqOK(r, Idle)
  BY EndedIsReq DEF Init
<1>3. TypeOK
  BY <1>1, <1>2 DEF TypeOK, TablesOK
<1>4. Drawn = {}
  <2>1. Len(Idle.plan) = 0
    BY DEF Idle
  <2> QED
    BY <1>2, <2>1 DEF Drawn
<1>5. IsFiniteSet(DOMAIN customers)
  BY CustomersAssumption DEF Init
<1> QED
  BY <1>3, <1>4, <1>5, FS_EmptySet DEF IdsBounded

LEMMA StepTyped ==
    ASSUME TypeOK, IdsBounded, NEW r \in Requests,
           (\E o \in Ops[r] : Begin(r, o)) \/ Proceed(r) \/ Abort(r)
    PROVE  TypeOK'
<1>1. CASE Abort(r)
  BY <1>1, GoesOK, EndedIsReq DEF Abort
<1>2. CASE \E o \in Ops[r] : Begin(r, o)
  BY <1>2, CustomerSteps, UpsertSteps, ConnectionSteps, UserSteps DEF Begin
<1>3. CASE Proceed(r)
  BY <1>3, CustomerSteps, UpsertSteps, NameSteps, CommitIncomeOK, ConnectionSteps, UserSteps
  DEF Proceed
<1> QED
  BY <1>1, <1>2, <1>3

LEMMA Typed == Spec => [](TypeOK /\ IdsBounded)
<1>1. Init => TypeOK /\ IdsBounded
  BY InitTyped
<1>2. TypeOK /\ IdsBounded /\ [Next]_vars => (TypeOK /\ IdsBounded)'
  <2> SUFFICES ASSUME TypeOK, IdsBounded, [Next]_vars PROVE (TypeOK /\ IdsBounded)'
    OBVIOUS
  <2>1. ASSUME NEW r \in Requests, (\E o \in Ops[r] : Begin(r, o)) \/ Proceed(r) \/ Abort(r)
        PROVE  (TypeOK /\ IdsBounded)'
    BY <2>1, StepTyped, StepDraws
  <2>2. CASE UNCHANGED vars
    <3>3. ASSUME NEW r \in Requests
          PROVE  ReqOK(r, req[r])' = ReqOK(r, req[r])
      <4>1. IncomeReqOK(req[r])' = IncomeReqOK(req[r])
        BY <2>2 DEF vars, IncomeReqOK, EntryOK
      <4>2. ConnectionReqOK(req[r])' = ConnectionReqOK(req[r])
        BY <2>2 DEF vars, ConnectionReqOK
      <4>3. UserReqOK(r, req[r])' = UserReqOK(r, req[r])
        BY <2>2 DEF vars, UserReqOK, Resolved
      <4>4. (req' = req) /\ (customers' = customers)
        BY <2>2 DEF vars
      <4> QED
        BY <4>1, <4>2, <4>3, <4>4 DEF ReqOK
    <3>1. TypeOK'
      BY <2>2, <3>3 DEF vars, TypeOK
    <3>2. IdsBounded'
      BY <2>2 DEF vars, IdsBounded, Drawn
    <3> QED
      BY <3>1, <3>2
  <2> QED
    BY <2>1, <2>2 DEF Next, Terminated
<1> QED
  BY <1>1, <1>2, PTL DEF Spec

\* Whatever the bodies, the rows have their columns' types, refer to rows that exist and
\* keep their unique keys, and what a request has in its hands can be stored.
THEOREM TypeCorrect == Spec => []TypeOK
BY Typed, PTL

(***************************************************************************)
(* What has not been overtaken is current.                                 *)
(***************************************************************************)

\* What a request has just loaded.
Fresh(q) ==
    /\ q.pc \in {"connect", "testing"} => q.seen = Stored(q.op.customer)
    /\ q.pc = "upgrade" => users[q.seen].password.text = q.op.password

\* A step of a request goes on with what it has loaded, or commits and ends.
StepOf(r) ==
    \/ \E q : Goes(r, q) /\ Fresh(q)
    \/ \E code : Commits(r, code) /\ DOMAIN users' \subseteq DOMAIN users \cup {r}

LEMMA BeginsFresh ==
    ASSUME NEW r \in Requests, NEW o \in Ops[r], Begin(r, o)
    PROVE  req[r].pc # "done" /\ \E q : Goes(r, q) /\ Fresh(q)
<1>1. ASSUME NEW q, Goes(r, q), q.pc \notin {"connect", "testing", "upgrade"}
      PROVE  \E p : Goes(r, p) /\ Fresh(p)
  BY <1>1 DEF Fresh
<1>2. ASSUME NEW pc \in {"connect", "testing"},
             Goes(r, [Idle EXCEPT !.pc = pc, !.op = o, !.seen = Stored(o.customer)])
      PROVE  \E q : Goes(r, q) /\ Fresh(q)
  <2>1. Fresh([Idle EXCEPT !.pc = pc, !.op = o, !.seen = Stored(o.customer)])
    BY <1>2 DEF Fresh, Idle
  <2> QED
    BY <1>2, <2>1
<1>3. ASSUME NEW code, Goes(r, Done(code)) PROVE \E q : Goes(r, q) /\ Fresh(q)
  <2>1. Fresh(Done(code))
    BY DEF Fresh, Done, Idle
  <2> QED
    BY <1>3, <2>1
<1>4. CASE LoadCustomer(r, o)
  <2>1. \/ \E code : Goes(r, Done(code))
        \/ \E seen : Goes(r, [Idle EXCEPT !.pc = "customer", !.op = o, !.seen = seen])
    BY <1>4 DEF LoadCustomer
  <2>2. req[r].pc = "idle"
    BY <1>4 DEF LoadCustomer, MayBegin
  <2>3. \A seen : [Idle EXCEPT !.pc = "customer", !.op = o, !.seen = seen].pc = "customer"
    BY DEF Idle
  <2> QED
    BY <1>1, <1>3, <2>1, <2>2, <2>3
<1>5. CASE LoadUpsert(r, o)
  <2>1. \/ \E code : Goes(r, Done(code))
        \/ \E plan : Goes(r, [Idle EXCEPT !.pc = "buckets", !.op = o, !.plan = plan])
    BY <1>5, ZenonT(60) DEF LoadUpsert
  <2>2. req[r].pc = "idle"
    BY <1>5 DEF LoadUpsert, MayBegin
  <2>3. \A plan : [Idle EXCEPT !.pc = "buckets", !.op = o, !.plan = plan].pc = "buckets"
    BY DEF Idle
  <2> QED
    BY <1>1, <1>3, <2>1, <2>2, <2>3
<1>6. CASE LoadImport(r, o)
  <2>1. \E seen : Goes(r, [Idle EXCEPT !.pc = "naming", !.op = o, !.seen = seen])
    BY <1>6 DEF LoadImport
  <2>2. req[r].pc = "idle"
    BY <1>6 DEF LoadImport, MayBegin
  <2>3. \A seen : [Idle EXCEPT !.pc = "naming", !.op = o, !.seen = seen].pc = "naming"
    BY DEF Idle
  <2> QED
    BY <1>1, <2>1, <2>2, <2>3
<1>7. CASE LoadConnect(r, o)
  <2>1. \/ \E code : Goes(r, Done(code))
        \/ Goes(r, [Idle EXCEPT !.pc = "connect", !.op = o, !.seen = Stored(o.customer)])
    BY <1>7 DEF LoadConnect
  <2>2. req[r].pc = "idle"
    BY <1>7 DEF LoadConnect, MayBegin
  <2> QED
    BY <1>2, <1>3, <2>1, <2>2
<1>8. CASE LoadTest(r, o)
  <2>1. \/ \E code : Goes(r, Done(code))
        \/ Goes(r, [Idle EXCEPT !.pc = "testing", !.op = o, !.seen = Stored(o.customer)])
    BY <1>8 DEF LoadTest
  <2>2. req[r].pc = "idle"
    BY <1>8 DEF LoadTest, MayBegin
  <2> QED
    BY <1>2, <1>3, <2>1, <2>2
<1>9. CASE LoadNewUser(r, o)
  <2>1. \/ \E code : Goes(r, Done(code))
        \/ \E seen : Goes(r, [Idle EXCEPT !.pc = "newUser", !.op = o, !.seen = seen])
    BY <1>9, ZenonT(60) DEF LoadNewUser
  <2>2. req[r].pc = "idle"
    BY <1>9 DEF LoadNewUser, MayBegin
  <2>3. \A seen : [Idle EXCEPT !.pc = "newUser", !.op = o, !.seen = seen].pc = "newUser"
    BY DEF Idle
  <2> QED
    BY <1>1, <1>3, <2>1, <2>2, <2>3
<1>10. CASE LoadEditUser(r, o)
  <2>1. \/ \E code : Goes(r, Done(code))
        \/ \E seen : Goes(r, [Idle EXCEPT !.pc = "editUser", !.op = o, !.seen = seen])
    BY <1>10, ZenonT(60) DEF LoadEditUser
  <2>2. req[r].pc = "idle"
    BY <1>10 DEF LoadEditUser, MayBegin
  <2>3. \A seen : [Idle EXCEPT !.pc = "editUser", !.op = o, !.seen = seen].pc = "editUser"
    BY DEF Idle
  <2> QED
    BY <1>1, <1>3, <2>1, <2>2, <2>3
<1>11. CASE LoadSeed(r, o)
  <2>1. \/ \E code : Goes(r, Done(code))
        \/ \E seen : Goes(r, [Idle EXCEPT !.pc = "newUser", !.op = o, !.seen = seen])
    BY <1>11 DEF LoadSeed
  <2>2. req[r].pc = "idle"
    BY <1>11 DEF LoadSeed, MayBegin
  <2>3. \A seen : [Idle EXCEPT !.pc = "newUser", !.op = o, !.seen = seen].pc = "newUser"
    BY DEF Idle
  <2> QED
    BY <1>1, <1>3, <2>1, <2>2, <2>3
<1>12. CASE Login(r, o)
  <2> DEFINE found == {u \in DOMAIN users : users[u].mobile = o.mobile /\ users[u].is_active}
             u == CHOOSE u \in found : TRUE
             q == [Idle EXCEPT !.pc = "upgrade", !.op = o, !.seen = u]
  <2>1. \/ \E code : Goes(r, Done(code))
        \/ users[u].password.text = o.password /\ Goes(r, q)
    BY <1>12, ZenonT(60) DEF Login
  <2> HIDE DEF u
  <2>2. users[u].password.text = o.password => Fresh(q)
    BY DEF Fresh, Idle
  <2>3. req[r].pc # "done"
    BY <1>12 DEF Login, MayBegin
  <2> HIDE DEF q
  <2> QED
    BY <1>3, <2>1, <2>2, <2>3
<1> QED
  BY <1>4, <1>5, <1>6, <1>7, <1>8, <1>9, <1>10, <1>11, <1>12 DEF Begin

LEMMA ProceedsFresh ==
    ASSUME TypeOK, NEW r \in Requests, Proceed(r)
    PROVE  req[r].pc # "done" /\ StepOf(r)
<1>1. ASSUME NEW q, Goes(r, q), q.pc \notin {"connect", "testing", "upgrade"} PROVE StepOf(r)
  BY <1>1 DEF Fresh, StepOf
<1>2. ASSUME NEW code, Goes(r, Done(code)) PROVE StepOf(r)
  <2>1. Done(code).pc = "done"
    BY DEF Done, Idle
  <2> QED
    BY <1>1, <1>2, <2>1
<1>3. ASSUME NEW code, Commits(r, code), DOMAIN users' \subseteq DOMAIN users \cup {r} PROVE StepOf(r)
  BY <1>3 DEF StepOf
<1>4. DOMAIN req[r] = DOMAIN Idle
  BY DEF TypeOK, ReqOK
<1>5. CASE CommitCustomer(r)
  BY <1>2, <1>3, <1>5 DEF CommitCustomer
<1>6. ASSUME NEW from, NEW kind, NEW next \in Stages \ {"connect", "testing", "upgrade"},
             Find(r, from, kind, next)
      PROVE  StepOf(r)
  <2>1. PICK doomed : Goes(r, [req[r] EXCEPT !.pc = next, !.doomed = doomed])
    BY <1>6 DEF Find
  <2>2. [req[r] EXCEPT !.pc = next, !.doomed = doomed].pc = next
    BY <1>4 DEF Idle
  <2> QED
    BY <1>1, <2>1, <2>2
<1>7. ASSUME NEW next \in Stages \ {"connect", "testing", "upgrade"}, Delete(r, next)
      PROVE  StepOf(r)
  <2> DEFINE q == [req[r] EXCEPT !.pc = next, !.doomed = {},
                                 !.gone = @ \cup (req[r].doomed \cap DOMAIN lines)]
  <2>1. Goes(r, q)
    BY <1>7 DEF Delete
  <2>2. q.pc = next
    BY <1>4 DEF Idle
  <2> HIDE DEF q
  <2> QED
    BY <1>1, <2>1, <2>2
<1>8. CASE FindBuckets(r) \/ FindMonths(r) \/ FindErased(r)
  BY <1>6, <1>8 DEF FindBuckets, FindMonths, FindErased, Stages
<1>9. CASE DeleteBuckets(r) \/ DeleteMonths(r) \/ DeleteErased(r)
  BY <1>7, <1>9 DEF DeleteBuckets, DeleteMonths, DeleteErased, Stages
<1>10. CASE NameCustomer(r)
  <2> DEFINE name == First(req[r].seen)
             new  == Namesakes(name) = {}
             c    == IF new THEN NextId ELSE Min(Namesakes(name))
             plan == Append(req[r].plan, Entry(c, new, ImportItem(req[r].op, name)))
             p    == [req[r] EXCEPT !.pc = "erasing", !.seen = @ \ {name}, !.plan = plan]
             to   == Len(req[r].plan)
  <2>1. Goes(r, p) \/ Goes(r, [p EXCEPT !.held = to]) \/ Goes(r, Done(500))
    BY <1>4, <1>10 DEF NameCustomer, Idle
  <2> HIDE DEF plan, name, to
  <2>2. p.pc = "erasing" /\ [p EXCEPT !.held = to].pc = "erasing"
    BY <1>4 DEF Idle
  <2> HIDE DEF p
  <2>3. req[r].pc # "done"
    BY <1>10 DEF NameCustomer
  <2> QED
    BY <1>1, <1>2, <2>1, <2>2, <2>3, ZenonT(60)
<1>11. CASE CommitIncome(r)
  BY <1>2, <1>3, <1>11 DEF CommitIncome
<1>12. CASE CommitConnect(r) \/ CommitTest(r)
  BY <1>2, <1>3, <1>12, ZenonT(60) DEF CommitConnect, CommitTest
<1>13. CASE CommitUser(r)
  <2>1. UserReqOK(r, req[r])
    BY DEF TypeOK, ReqOK
  <2>2. ASSUME NEW id \in DOMAIN users \cup {r}, NEW row, NEW failure, StoreUser(r, id, row, failure)
        PROVE  StepOf(r)
    <3>1. CASE Goes(r, Done(failure))
      BY <1>2, <3>1
    <3>2. CASE users' = Put(users, id, row) /\ Commits(r, 200)
      <4>1. DOMAIN users' \subseteq DOMAIN users \cup {r}
        BY <2>2, <3>2 DEF Put
      <4> QED
        BY <1>3, <3>2, <4>1
    <3> QED
      BY <2>2, <3>1, <3>2 DEF StoreUser
  <2>3. req[r].pc = "newUser" \/ req[r].pc = "editUser"
    BY <1>13 DEF CommitUser
  <2>4. req[r].pc # "done"
    BY <2>3
  <2>5. \E id \in DOMAIN users \cup {r} : \E row, failure : StoreUser(r, id, row, failure)
    <3>1. CASE req[r].pc = "newUser"
      BY <1>13, <3>1 DEF CommitUser
    <3>2. CASE req[r].pc = "editUser"
      <4>1. req[r].op.user \in DOMAIN users
        BY <2>1, <3>2 DEF UserReqOK
      <4> QED
        BY <1>13, <3>2, <4>1 DEF CommitUser
    <3> QED
      BY <2>3, <3>1, <3>2
  <2> QED
    BY <2>2, <2>4, <2>5
<1>14. CASE Upgrade(r)
  <2>1. DOMAIN users' = DOMAIN users /\ Commits(r, 200) /\ req[r].pc # "done"
    BY <1>14 DEF Upgrade
  <2> QED
    BY <1>3, <2>1
<1> QED
  BY <1>5, <1>8, <1>9, <1>10, <1>11, <1>12, <1>13, <1>14
  DEF Proceed, CommitCustomer, FindBuckets, FindMonths, FindErased, DeleteBuckets, DeleteMonths,
      DeleteErased, CommitIncome, CommitConnect, CommitTest

\* So it is with every step of a request.
LEMMA StepShape ==
    ASSUME TypeOK, NEW r \in Requests,
           (\E o \in Ops[r] : Begin(r, o)) \/ Proceed(r) \/ Abort(r)
    PROVE  req[r].pc # "done" /\ StepOf(r)
<1>1. CASE Abort(r)
  <2>1. Fresh(Done(500))
    BY DEF Fresh, Done, Idle
  <2> QED
    BY <1>1, <2>1 DEF Abort, Open, StepOf
<1> QED
  BY <1>1, BeginsFresh, ProceedsFresh DEF StepOf

\* The stored rows are those that are meant, of each component that no race has had,
\* and those in a request's hands, as long as no commit has overtaken it.
LEMMA StepCurrent ==
    ASSUME TypeOK, CalmIsCurrent, SeenIsCurrent, NEW r \in Requests, StepOf(r)
    PROVE  CalmIsCurrent' /\ SeenIsCurrent'
<1>1. ASSUME NEW q, Goes(r, q), Fresh(q) PROVE CalmIsCurrent' /\ SeenIsCurrent'
  <2>1. /\ customers' = customers /\ summaries' = summaries /\ lines' = lines
        /\ connections' = connections /\ users' = users /\ raced' = raced /\ calm' = calm
        /\ req' = [req EXCEPT ![r] = q]
    BY <1>1 DEF Goes, tables
  <2>2. CalmIsCurrent'
    BY <2>1 DEF CalmIsCurrent, Snapshot
  <2>3. \A s \in Requests : req'[s] = IF s = r THEN q ELSE req[s]
    BY <2>1 DEF TypeOK
  <2>4. ASSUME NEW s \in Requests
        PROVE  /\ req'[s].pc \in {"connect", "testing"} /\ "connections" \notin req'[s].late =>
                     req'[s].seen = Stored(req'[s].op.customer)
               /\ req'[s].pc = "upgrade" /\ "users" \notin req'[s].late =>
                     users[req'[s].seen].password.text = req'[s].op.password
    BY <1>1, <2>3 DEF SeenIsCurrent, Fresh
  <2>5. \A c : Stored(c)' = Stored(c)
    BY <2>1 DEF Stored
  <2>6. SeenIsCurrent'
    <3>1. ASSUME NEW s \in Requests, NEW p, p = req'[s]
          PROVE  /\ p.pc \in {"connect", "testing"} /\ "connections" \notin p.late =>
                       p.seen = Stored(p.op.customer)'
                 /\ p.pc = "upgrade" /\ "users" \notin p.late =>
                       users'[p.seen].password.text = p.op.password
      BY <2>1, <2>4, <2>5, <3>1
    <3> QED
      BY <3>1 DEF SeenIsCurrent, Stored
  <2> QED
    BY <2>2, <2>6
<1>2. ASSUME NEW code, Commits(r, code) PROVE CalmIsCurrent' /\ SeenIsCurrent'
  <2>1. calm' = [x \in Components |-> IF x \in raced' THEN calm[x] ELSE Snapshot'[x]]
    BY <1>2 DEF Commits
  <2>2. CalmIsCurrent'
    BY <2>1 DEF CalmIsCurrent, Components
  <2>3. /\ req'[r] = Done(code)
        /\ \A s \in Requests \ {r} : Alike(req[s], req'[s])
        /\ \A s \in Requests \ {r} : req[s].late \subseteq req'[s].late \/ ~Open(s)
        /\ \A s \in Requests \ {r} : \A x \in Components :
              Open(s) /\ x \notin req'[s].late => Snapshot'[x] = Snapshot[x]
    BY <1>2, CommitMoves
  <2>4. ASSUME NEW s \in Requests, NEW p, p = req'[s]
        PROVE  /\ p.pc \in {"connect", "testing"} /\ "connections" \notin p.late =>
                     p.seen = Stored(p.op.customer)'
               /\ p.pc = "upgrade" /\ "users" \notin p.late =>
                     users'[p.seen].password.text = p.op.password
    <3>1. CASE s = r
      BY <2>3, <2>4, <3>1 DEF Done, Idle
    <3>2. CASE s # r
      <4>1. \A k \in {"pc", "op", "seen"} : p[k] = req[s][k]
        BY <2>3, <2>4, <3>2 DEF Alike, Idle
      <4>2. p.pc \in {"connect", "testing", "upgrade"} => Open(s) /\ req[s].late \subseteq p.late
        BY <2>3, <2>4, <3>2, <4>1 DEF Open
      <4>3. ASSUME p.pc \in {"connect", "testing"}, "connections" \notin p.late
            PROVE  p.seen = Stored(p.op.customer)'
        <5>1. Snapshot'["connections"] = Snapshot["connections"]
          BY <2>3, <2>4, <3>2, <4>2, <4>3 DEF Components
        <5>2. connections' = connections
          BY <5>1 DEF Snapshot
        <5>3. p.seen = Stored(p.op.customer)
          BY <4>1, <4>2, <4>3 DEF SeenIsCurrent
        <5> QED
          BY <5>2, <5>3 DEF Stored
      <4>4. ASSUME p.pc = "upgrade", "users" \notin p.late
            PROVE  users'[p.seen].password.text = p.op.password
        <5>1. Snapshot'["users"] = Snapshot["users"]
          BY <2>3, <2>4, <3>2, <4>2, <4>4 DEF Components
        <5>2. users' = users
          BY <5>1 DEF Snapshot
        <5> QED
          BY <4>1, <4>2, <4>4, <5>2 DEF SeenIsCurrent
      <4> QED
        BY <4>3, <4>4
    <3> QED
      BY <3>1, <3>2
  <2>5. SeenIsCurrent'
    BY <2>4 DEF SeenIsCurrent, Stored
  <2> QED
    BY <2>2, <2>5
<1> QED
  BY <1>1, <1>2 DEF StepOf

\* The user that a request creates is its own.
LEMMA StepOwns ==
    ASSUME TypeOK, OwnUsers, NEW r \in Requests, StepOf(r), req[r].pc # "done"
    PROVE  OwnUsers'
<1>1. ASSUME NEW q, Goes(r, q) PROVE OwnUsers'
  <2>1. users' = users /\ \A s \in Requests : req'[s] = IF s = r THEN q ELSE req[s]
    BY <1>1 DEF Goes, tables, TypeOK
  <2> QED
    BY <2>1 DEF OwnUsers
<1>2. ASSUME NEW code, Commits(r, code), DOMAIN users' \subseteq DOMAIN users \cup {r} PROVE OwnUsers'
  <2>1. req'[r].pc = "done" /\ \A s \in Requests \ {r} : req'[s].pc = req[s].pc
    <3>1. req'[r] = Done(code) /\ \A s \in Requests \ {r} : Alike(req[s], req'[s])
      BY <1>2, CommitMoves
    <3>2. Done(code).pc = "done"
      BY DEF Done, Idle
    <3>3. \A s \in Requests \ {r} : req'[s].pc = req[s].pc
      BY <3>1 DEF Alike, Idle
    <3> QED
      BY <3>1, <3>2, <3>3
  <2> QED
    BY <1>2, <2>1 DEF OwnUsers
<1> QED
  BY <1>1, <1>2 DEF StepOf

\* The invariant under which each step is looked at.
Sound == TypeOK /\ CalmIsCurrent /\ SeenIsCurrent /\ OwnUsers

LEMMA Sounds == Spec => []Sound
<1>1. Init => CalmIsCurrent /\ SeenIsCurrent /\ OwnUsers
  <2> SUFFICES ASSUME Init PROVE CalmIsCurrent /\ SeenIsCurrent /\ OwnUsers
    OBVIOUS
  <2>1. CalmIsCurrent
    BY DEF Init, CalmIsCurrent
  <2>2. SeenIsCurrent
    BY DEF Init, SeenIsCurrent, Idle
  <2>3. OwnUsers
    BY UsersAssumption DEF Init, OwnUsers
  <2> QED
    BY <2>1, <2>2, <2>3
<1>2. TypeOK /\ CalmIsCurrent /\ SeenIsCurrent /\ OwnUsers /\ [Next]_vars
         => (CalmIsCurrent /\ SeenIsCurrent /\ OwnUsers)'
  <2> SUFFICES ASSUME TypeOK, CalmIsCurrent, SeenIsCurrent, OwnUsers, [Next]_vars
               PROVE  (CalmIsCurrent /\ SeenIsCurrent /\ OwnUsers)'
    OBVIOUS
  <2>1. ASSUME NEW r \in Requests, (\E o \in Ops[r] : Begin(r, o)) \/ Proceed(r) \/ Abort(r)
        PROVE  (CalmIsCurrent /\ SeenIsCurrent /\ OwnUsers)'
    <3>1. req[r].pc # "done" /\ StepOf(r)
      BY <2>1, StepShape
    <3> QED
      BY <3>1, StepCurrent, StepOwns
  <2>2. CASE UNCHANGED vars
    BY <2>2 DEF vars, CalmIsCurrent, SeenIsCurrent, OwnUsers, Snapshot, Stored
  <2> QED
    BY <2>1, <2>2 DEF Next, Terminated
<1> QED
  BY <1>1, <1>2, TypeCorrect, PTL DEF Spec, Sound

\* What the history of the properties says: before the first race of a component its
\* calm tables are its stored ones.
THEOREM CalmStaysCurrent == Spec => [](CalmIsCurrent /\ SeenIsCurrent)
BY Sounds, PTL DEF Sound

(***************************************************************************)
(* Connections.                                                            *)
(***************************************************************************)

\* A commit that writes connections without a race has what is stored in its hands.
LEMMA UnracedIsTested ==
    ASSUME Sound, ConnectionTested, NEW r \in Requests, NEW code, Commits(r, code),
           req[r].op.kind \in {"connect", "test"}, connections' # connections,
           "connections" \notin raced'
    PROVE  /\ "connections" \notin req[r].late
           /\ \A c \in DOMAIN connections : Tested(connections[c])
<1> DEFINE wrote == {x \in Components : Snapshot'[x] # Snapshot[x]}
<1>1. raced' = raced \cup IF req[r].late \cap Reads(req[r].op) = {} THEN {} ELSE wrote
  BY DEF Commits
<1>2. "connections" \in wrote
  BY DEF Components, Snapshot
<1> HIDE DEF wrote
<1>3. "connections" \notin raced /\ req[r].late \cap Reads(req[r].op) = {}
  BY <1>1, <1>2
<1>4. "connections" \in Reads(req[r].op)
  BY DEF Reads
<1>5. calm["connections"] = Snapshot["connections"]
  BY <1>3 DEF Sound, CalmIsCurrent, Components
<1>6. calm["connections"] = connections
  BY <1>5 DEF Snapshot
<1> QED
  BY <1>3, <1>4, <1>6 DEF ConnectionTested

\* What a commit has to show of the connections.
LEMMA CommitTested ==
    ASSUME Sound, ConnectionTested, NEW r \in Requests, NEW code, Commits(r, code),
           \/ connections' = connections
           \/ "connections" \in raced'
           \/ \A c \in DOMAIN connections' : Tested(connections'[c])
    PROVE  ConnectionTested'
<1>1. /\ calm'["connections"] =
            IF "connections" \in raced' THEN calm["connections"] ELSE Snapshot'["connections"]
      /\ raced \subseteq raced'
  BY DEF Commits, Components
<1>2. Snapshot'["connections"] = connections'
  BY DEF Snapshot
<1>3. "connections" \notin raced => calm["connections"] = connections
  BY DEF Sound, CalmIsCurrent, Components, Snapshot
<1>4. \A c \in DOMAIN calm["connections"] : Tested(calm["connections"][c])
  BY DEF ConnectionTested
<1>5. \A c \in DOMAIN calm'["connections"] : Tested(calm'["connections"][c])
  BY <1>1, <1>2, <1>3, <1>4
<1> QED
  BY <1>5 DEF ConnectionTested, Tested

\* An upsert clears the result, and writes a secret with its fingerprint.
LEMMA UpsertedIsTested ==
    ASSUME NEW r \in Requests, ReqOK(r, req[r]), req[r].pc = "connect",
           req[r].seen # NULL => Tested(req[r].seen)
    PROVE  /\ Tested(Upserted(r)) /\ DOMAIN Upserted(r) = DOMAIN NewConnection
           /\ Upserted(r) = [c \in DOMAIN NewConnection |-> Upserted(r)[c]]
<1> DEFINE o    == req[r].op
           row  == IF req[r].seen = NULL THEN NewConnection ELSE req[r].seen
           rest == [c \in DOMAIN o.set \ {"secret"} |-> o.set[c]]
           mid  == Assign(row, rest)
           safe == Secured(r, mid, o.set)
<1>1. /\ o.kind = "connect" /\ o \in Ops[r]
      /\ req[r].seen # NULL => ConnectionOK(req[r].seen)
  BY DEF ReqOK, ConnectionReqOK
<1>2. ConnectionBody(o)
  BY <1>1, OpsAssumption DEF CustomerBody, IncomeBody, ConnectionBody, UserBody
<1>3. /\ DOMAIN row = DOMAIN NewConnection
      /\ row.secret # NULL => row.hash = row.secret.text
  BY <1>1 DEF NewConnection, ConnectionOK, Tested
<1> HIDE DEF row
<1>4. /\ DOMAIN mid = DOMAIN NewConnection
      /\ mid.secret = row.secret /\ mid.hash = row.hash
  BY <1>1, <1>2, <1>3 DEF Assign, NewConnection, ConnectionBody
<1> HIDE DEF mid
<1>5. /\ DOMAIN safe = DOMAIN NewConnection
      /\ safe.secret # NULL => safe.hash = safe.secret.text
  <2>1. CASE "secret" \in DOMAIN o.set /\ o.set.secret # NULL
    <3>1. safe = [mid EXCEPT !.secret = [text |-> o.set.secret, by |-> r], !.hash = o.set.secret,
                             !.legacy = FALSE]
      BY <2>1 DEF Secured
    <3>2. /\ DOMAIN safe = DOMAIN mid /\ safe.secret = [text |-> o.set.secret, by |-> r]
          /\ safe.hash = o.set.secret
      BY <1>4, <3>1 DEF NewConnection
    <3> QED
      BY <1>4, <3>2
  <2>2. CASE ~("secret" \in DOMAIN o.set /\ o.set.secret # NULL)
    <3>1. safe = mid
      BY <2>2 DEF Secured
    <3> QED
      BY <1>3, <1>4, <3>1
  <2> QED
    BY <2>1, <2>2
<1> HIDE DEF safe
<1>6. Upserted(r) = [safe EXCEPT !.tested_at = NULL, !.success = NULL]
  BY DEF Upserted, safe, mid, row
<1> DEFINE up == [safe EXCEPT !.tested_at = NULL, !.success = NULL]
<1>7. /\ DOMAIN up = DOMAIN NewConnection /\ up.tested_at = NULL /\ up.success = NULL
      /\ up.secret = safe.secret /\ up.hash = safe.hash
      /\ up = [c \in DOMAIN NewConnection |-> up[c]]
  BY <1>5 DEF NewConnection
<1>8. Tested(up)
  <2> HIDE DEF up
  <2> QED
    BY <1>5, <1>7 DEF Tested
<1> QED
  BY <1>6, <1>7, <1>8

\* Until the first race of connections, of any number of upserts and tests of any
\* customers, the fingerprint that is stored is that of the secret beside it, and the
\* result that is shown is that of a test of this very secret.
THEOREM ResultsBelong == Spec => []ConnectionTested
<1>1. Init => ConnectionTested
  <2> SUFFICES ASSUME Init PROVE ConnectionTested
    OBVIOUS
  <2>1. calm["connections"] = InitConnections
    BY DEF Init, Snapshot
  <2> QED
    BY <2>1, ConnectionsAssumption DEF ConnectionTested
<1>2. Sound /\ ConnectionTested /\ [Next]_vars => ConnectionTested'
  <2> SUFFICES ASSUME Sound, ConnectionTested, [Next]_vars PROVE ConnectionTested'
    OBVIOUS
  <2>1. ASSUME NEW r, NEW q, Goes(r, q) PROVE ConnectionTested'
    BY <2>1 DEF Goes, ConnectionTested
  <2>2. ASSUME NEW r \in Requests, CommitConnect(r) PROVE ConnectionTested'
    <3> DEFINE c   == req[r].op.customer
               row == IF req[r].seen = NULL THEN Upserted(r)
                      ELSE Flush(connections[c], req[r].seen, Upserted(r))
    <3>1. CASE connections' = Put(connections, c, row) /\ Commits(r, 200)
      <4> SUFFICES ASSUME "connections" \notin raced', connections' # connections
                   PROVE  \A d \in DOMAIN connections' : Tested(connections'[d])
        BY <3>1, CommitTested
      <4>1. ReqOK(r, req[r]) /\ req[r].pc = "connect" /\ "connections" \in Components
        BY <2>2 DEF Sound, TypeOK, CommitConnect, Components
      <4>2. req[r].op.kind = "connect"
        BY <4>1 DEF ReqOK, ConnectionReqOK
      <4>3. "connections" \notin req[r].late /\ \A d \in DOMAIN connections : Tested(connections[d])
        BY <3>1, <4>2, UnracedIsTested
      <4>4. req[r].seen = Stored(c)
        BY <4>1, <4>3 DEF Sound, SeenIsCurrent
      <4>5. req[r].seen # NULL =>
               /\ c \in DOMAIN connections /\ req[r].seen = connections[c] /\ ConnectionOK(req[r].seen)
        BY <4>1, <4>4 DEF Stored, ReqOK, ConnectionReqOK
      <4>6. Tested(Upserted(r)) /\ DOMAIN Upserted(r) = DOMAIN NewConnection
            /\ Upserted(r) = [k \in DOMAIN NewConnection |-> Upserted(r)[k]]
        BY <4>1, <4>3, <4>5, UpsertedIsTested
      <4>7. Tested(row)
        <5>1. CASE req[r].seen = NULL
          BY <4>6, <5>1
        <5>2. CASE req[r].seen # NULL
          <6> DEFINE up == Upserted(r)
          <6>1. DOMAIN connections[c] = DOMAIN up /\ row = Flush(connections[c], connections[c], up)
            BY <4>5, <4>6, <5>2 DEF ConnectionOK
          <6> HIDE DEF up
          <6>2. \A k \in DOMAIN connections[c] : row[k] = up[k]
            BY <6>1 DEF Flush, Dirty
          <6>3. Tested(up) /\ DOMAIN connections[c] = DOMAIN NewConnection
            BY <4>6, <6>1 DEF up
          <6> HIDE DEF row
          <6> QED
            BY <6>2, <6>3 DEF Tested, NewConnection
        <5> QED
          BY <5>1, <5>2
      <4> HIDE DEF row, c
      <4> QED
        BY <3>1, <4>3, <4>7 DEF Put
    <3> QED
      BY <2>1, <2>2, <3>1 DEF CommitConnect
  <2>3. ASSUME NEW r \in Requests, CommitTest(r) PROVE ConnectionTested'
    <3> DEFINE c == req[r].op.customer
               seen == req[r].seen
               new(ok) == [seen EXCEPT !.success = ok,
                             !.tested_at = [by |-> r, text |-> seen.secret.text, ok |-> ok]]
    <3>1. PICK ok \in BOOLEAN :
             /\ connections' = [connections EXCEPT ![c] = Flush(connections[c], seen, new(ok))]
             /\ UNCHANGED <<customers, summaries, lines, users>>
             /\ Commits(r, IF ok THEN 200 ELSE 502)
      BY <2>3 DEF CommitTest
    <3> DEFINE row == new(ok)
    <3> SUFFICES ASSUME "connections" \notin raced', connections' # connections
                 PROVE  \A d \in DOMAIN connections' : Tested(connections'[d])
      BY <3>1, CommitTested
    <3>2. ReqOK(r, req[r]) /\ req[r].pc = "testing"
      BY <2>3 DEF Sound, TypeOK, CommitTest
    <3>3. /\ req[r].op.kind = "test" /\ ConnectionOK(req[r].seen) /\ req[r].seen.secret # NULL
          /\ c \in DOMAIN connections
      BY <3>2 DEF ReqOK, ConnectionReqOK
    <3>4. "connections" \notin req[r].late /\ \A d \in DOMAIN connections : Tested(connections[d])
      BY <3>1, <3>3, UnracedIsTested
    <3>5. req[r].seen = connections[c]
      BY <3>2, <3>3, <3>4 DEF Sound, SeenIsCurrent, Stored
    <3>6. /\ DOMAIN row = DOMAIN NewConnection /\ row.secret = req[r].seen.secret
          /\ row.hash = req[r].seen.hash /\ row.success = ok
          /\ row.tested_at = [by |-> r, text |-> req[r].seen.secret.text, ok |-> ok]
      BY <3>3 DEF ConnectionOK, NewConnection
    <3>7. row.tested_at # NULL
      <4>1. req[r].seen.secret \in [text : Secrets, by : Nat]
        BY <3>3 DEF ConnectionOK
      <4>2. req[r].seen.secret.text \in Secrets /\ r \in Nat
        BY <4>1, RequestsAssumption
      <4>3. row.tested_at \in [by : Nat, text : Secrets, ok : BOOLEAN]
        BY <3>6, <4>2
      <4> QED
        BY <4>3, SecretsAssumption
    <3> HIDE DEF row, new
    <3>8. Tested(row)
      <4>1. Tested(req[r].seen)
        BY <3>3, <3>4, <3>5
      <4>2. row.hash = row.secret.text
        BY <3>3, <3>6, <4>1 DEF Tested
      <4>3. row.tested_at.text = row.secret.text
        BY <3>6
      <4>4. row.success = row.tested_at.ok
        <5>1. row.tested_at.ok = ok
          BY <3>6
        <5> QED
          BY <3>6, <5>1
      <4> QED
        BY <3>7, <4>2, <4>3, <4>4 DEF Tested
    <3>9. Tested(Flush(connections[c], req[r].seen, row))
      <4> DEFINE after == Flush(connections[c], req[r].seen, row)
      <4>1. DOMAIN connections[c] = DOMAIN NewConnection
        BY <3>3, <3>5 DEF ConnectionOK
      <4>2. \A k \in DOMAIN connections[c] : after[k] = row[k]
        BY <3>5, <3>6, <4>1 DEF Flush, Dirty
      <4> HIDE DEF after
      <4>3. Tested(after)
        BY <3>8, <4>1, <4>2 DEF Tested, NewConnection
      <4> QED
        BY <4>3 DEF after
    <3>10. /\ DOMAIN connections' = DOMAIN connections
           /\ \A d \in DOMAIN connections :
                 connections'[d] = IF d = c THEN Flush(connections[c], req[r].seen, row) ELSE connections[d]
      BY <3>1, <3>3 DEF row
    <3> HIDE DEF c
    <3> QED
      BY <3>4, <3>9, <3>10
  <2>4. ASSUME NEW r \in Requests, NEW code, Commits(r, code), UNCHANGED connections
        PROVE  ConnectionTested'
    BY <2>4, CommitTested
  <2>5. ASSUME NEW r \in Requests, NEW o \in Ops[r], Begin(r, o) PROVE ConnectionTested'
    BY <2>1, <2>5, BeginsFresh
  <2>6. ASSUME NEW r \in Requests, Proceed(r) PROVE ConnectionTested'
    <3>1. ASSUME NEW from, NEW kind, NEW next, Find(r, from, kind, next) PROVE ConnectionTested'
      BY <2>1, <3>1 DEF Find
    <3>2. ASSUME NEW next, Delete(r, next) PROVE ConnectionTested'
      BY <2>1, <3>2 DEF Delete
    <3>3. CASE NameCustomer(r)
      <4>1. \E q : Goes(r, q)
        BY <3>3 DEF NameCustomer
      <4> QED
        BY <2>1, <4>1
    <3>4. CASE CommitIncome(r)
      BY <2>1, <2>4, <3>4 DEF CommitIncome
    <3>5. CASE CommitCustomer(r)
      BY <2>1, <2>4, <3>5 DEF CommitCustomer
    <3>6. CASE CommitUser(r)
      BY <2>1, <2>4, <3>6 DEF CommitUser, StoreUser
    <3>7. CASE Upgrade(r)
      BY <2>4, <3>7 DEF Upgrade
    <3>8. CASE \/ FindBuckets(r) \/ FindMonths(r) \/ FindErased(r)
               \/ DeleteBuckets(r) \/ DeleteMonths(r) \/ DeleteErased(r)
      BY <3>1, <3>2, <3>8
      DEF FindBuckets, FindMonths, FindErased, DeleteBuckets, DeleteMonths, DeleteErased
    <3> QED
      BY <2>2, <2>3, <2>6, <3>3, <3>4, <3>5, <3>6, <3>7, <3>8 DEF Proceed
  <2>7. ASSUME NEW r \in Requests, Abort(r) PROVE ConnectionTested'
    BY <2>1, <2>7 DEF Abort
  <2>8. CASE UNCHANGED vars
    BY <2>8 DEF vars, ConnectionTested
  <2> QED
    BY <2>5, <2>6, <2>7, <2>8 DEF Next, Terminated
<1> QED
  BY <1>1, <1>2, Sounds, PTL DEF Spec

(***************************************************************************)
(* Users.                                                                  *)
(***************************************************************************)

\* Only two actions write a user that exists.
LEMMA UserWrites ==
    ASSUME Sound, [Next]_vars, users' # users
    PROVE  \E r \in Requests : CommitUser(r) \/ Upgrade(r)
<1>1. ASSUME NEW r, NEW q, Goes(r, q) PROVE FALSE
  BY <1>1 DEF Goes, tables
<1>2. ASSUME NEW r \in Requests, NEW o \in Ops[r], Begin(r, o) PROVE FALSE
  BY <1>1, <1>2, BeginsFresh
<1>3. ASSUME NEW r \in Requests, Abort(r) PROVE FALSE
  BY <1>1, <1>3 DEF Abort
<1>4. ASSUME NEW r \in Requests, Proceed(r) PROVE CommitUser(r) \/ Upgrade(r)
  <2>1. ASSUME NEW from, NEW kind, NEW next, Find(r, from, kind, next) PROVE FALSE
    BY <1>1, <2>1 DEF Find
  <2>2. ASSUME NEW next, Delete(r, next) PROVE FALSE
    BY <1>1, <2>2 DEF Delete
  <2>3. ~NameCustomer(r)
    <3> SUFFICES ASSUME NameCustomer(r) PROVE \E q : Goes(r, q)
      BY <1>1
    <3> QED
      BY DEF NameCustomer
  <2>4. ~CommitIncome(r)
    BY <1>1 DEF CommitIncome
  <2>5. ~CommitCustomer(r)
    BY <1>1 DEF CommitCustomer
  <2>6. ~CommitConnect(r)
    BY <1>1 DEF CommitConnect
  <2>7. ~CommitTest(r)
    BY DEF CommitTest
  <2>8. ~(FindBuckets(r) \/ FindMonths(r) \/ FindErased(r))
    BY <2>1 DEF FindBuckets, FindMonths, FindErased
  <2>9. ~(DeleteBuckets(r) \/ DeleteMonths(r) \/ DeleteErased(r))
    BY <2>2 DEF DeleteBuckets, DeleteMonths, DeleteErased
  <2> QED
    BY <1>4, <2>3, <2>4, <2>5, <2>6, <2>7, <2>8, <2>9 DEF Proceed
<1> QED
  BY <1>2, <1>3, <1>4 DEF Next, Terminated, vars

\* And one that exists is written by an update of it, or by a login as it.
LEMMA WhoWrites ==
    ASSUME Sound, [Next]_vars, NEW u \in DOMAIN users \cap DOMAIN users', users'[u] # users[u]
    PROVE  \E r \in Requests :
              /\ req'[r] = Done(200)
              /\ \/ /\ req[r].pc = "editUser" /\ req[r].op.user = u /\ UserOK(users'[u])
                    /\ users'[u] = Flush(users[u], req[r].seen[1], req[r].seen[2])
                 \/ /\ req[r].pc = "upgrade" /\ req[r].seen = u
                    /\ users'[u] = [users[u] EXCEPT !.password = Hash(req[r].op.password, r)]
<1>1. PICK r \in Requests : CommitUser(r) \/ Upgrade(r)
  BY UserWrites
<1>2. ReqOK(r, req[r]) /\ UserReqOK(r, req[r]) /\ TypeOK
  BY DEF Sound, TypeOK, ReqOK
<1>3. ASSUME NEW id, NEW row, NEW failure, StoreUser(r, id, row, failure)
      PROVE  id = u /\ users'[u] = row /\ UserOK(row) /\ req'[r] = Done(200)
  <2>1. /\ UserOK(row) /\ users' = Put(users, id, row) /\ Commits(r, 200)
    BY <1>3 DEF StoreUser, Goes, tables
  <2>2. req'[r] = Done(200)
    BY <1>2, <2>1, CommitMoves
  <2>3. users'[u] = IF u = id THEN row ELSE users[u]
    BY <2>1 DEF Put
  <2> QED
    BY <2>1, <2>2, <2>3
<1>4. ASSUME req[r].pc = "newUser", NEW failure, StoreUser(r, r, req[r].seen, failure) PROVE FALSE
  <2>1. r = u
    BY <1>3, <1>4
  <2> QED
    BY <1>4, <2>1 DEF Sound, OwnUsers
<1>5. ASSUME req[r].pc = "editUser",
             StoreUser(r, req[r].op.user,
                Flush(users[req[r].op.user], req[r].seen[1], req[r].seen[2]), 409)
      PROVE  /\ req'[r] = Done(200) /\ req[r].op.user = u /\ UserOK(users'[u])
             /\ users'[u] = Flush(users[u], req[r].seen[1], req[r].seen[2])
  <2>1. /\ req[r].op.user = u /\ req'[r] = Done(200)
        /\ users'[u] = Flush(users[req[r].op.user], req[r].seen[1], req[r].seen[2])
        /\ UserOK(Flush(users[req[r].op.user], req[r].seen[1], req[r].seen[2]))
    BY <1>3, <1>5
  <2> QED
    BY <2>1
<1>6. CASE CommitUser(r)
  BY <1>4, <1>5, <1>6 DEF CommitUser
<1>7. CASE Upgrade(r)
  <2>1. /\ req[r].pc = "upgrade" /\ Commits(r, 200)
        /\ users' = [users EXCEPT ![req[r].seen].password = Hash(req[r].op.password, r)]
    BY <1>7 DEF Upgrade
  <2>2. req'[r] = Done(200)
    BY <1>2, <2>1, CommitMoves
  <2>3. req[r].seen = u /\ users'[u] = [users[u] EXCEPT !.password = Hash(req[r].op.password, r)]
    BY <2>1
  <2> QED
    BY <2>1, <2>2, <2>3
<1> QED
  BY <1>1, <1>6, <1>7

\* However many updates of a user overlap, with whatever bodies, a role and a customer
\* that come to be stored are the two that one request has resolved together.
THEOREM ProfilesAreOfOne == Spec => ProfileRequested
<1> DEFINE Kept ==
       \A u \in DOMAIN users \cap DOMAIN users' :
          <<users'[u].role, users'[u].customer>> # <<users[u].role, users[u].customer>> =>
             \E r \in Requests :
                /\ Answers(r) /\ req[r].pc = "editUser" /\ req[r].op.user = u
                /\ req[r].seen[2].role = users'[u].role
                /\ req[r].seen[2].customer = users'[u].customer
<1>1. Sound /\ [Next]_vars => Kept
  <2> SUFFICES ASSUME Sound, [Next]_vars, NEW u \in DOMAIN users \cap DOMAIN users',
                      <<users'[u].role, users'[u].customer>> # <<users[u].role, users[u].customer>>
               PROVE  \E r \in Requests :
                         /\ Answers(r) /\ req[r].pc = "editUser" /\ req[r].op.user = u
                         /\ req[r].seen[2].role = users'[u].role
                         /\ req[r].seen[2].customer = users'[u].customer
    OBVIOUS
  <2>1. UserOK(users[u])
    BY DEF Sound, TypeOK
  <2>2. PICK r \in Requests :
           /\ req'[r] = Done(200)
           /\ \/ /\ req[r].pc = "editUser" /\ req[r].op.user = u /\ UserOK(users'[u])
                 /\ users'[u] = Flush(users[u], req[r].seen[1], req[r].seen[2])
              \/ /\ req[r].pc = "upgrade" /\ req[r].seen = u
                 /\ users'[u] = [users[u] EXCEPT !.password = Hash(req[r].op.password, r)]
    BY WhoWrites
  <2>3. CASE req[r].pc = "upgrade"
    <3>1. users'[u] = [users[u] EXCEPT !.password = Hash(req[r].op.password, r)]
      BY <2>2, <2>3
    <3>2. users'[u].role = users[u].role /\ users'[u].customer = users[u].customer
      BY <2>1, <3>1 DEF UserOK, UserColumns
    <3> QED
      BY <3>2
  <2>4. CASE req[r].pc = "editUser"
    <3> DEFINE from == req[r].seen[1]
               to   == req[r].seen[2]
               row  == users'[u]
    <3>1. /\ req[r].op.user = u /\ UserOK(row) /\ row = Flush(users[u], from, to)
      BY <2>2, <2>4
    <3>2. UserOK(from) /\ Resolved(to)
      BY <2>4 DEF Sound, TypeOK, ReqOK, UserReqOK
    <3>3. /\ row.role = IF to.role # from.role THEN to.role ELSE users[u].role
          /\ row.customer = IF to.customer # from.customer THEN to.customer ELSE users[u].customer
      <4>1. DOMAIN users[u] = UserColumns /\ DOMAIN to = UserColumns
        BY <2>1, <3>2 DEF UserOK, Resolved
      <4>2. \A k \in UserColumns : row[k] = IF to[k] # from[k] THEN to[k] ELSE users[u][k]
        BY <3>1, <4>1 DEF Flush, Dirty
      <4> HIDE DEF from, to, row
      <4> QED
        BY <4>2 DEF UserColumns
    <3>4. to.role # from.role \/ to.customer # from.customer
      BY <3>3
    <3>5. \A x \in {row, from} :
             /\ x.role \in {"admin", "customer", "public"}
             /\ x.customer = NULL <=> x.role \in {"admin", "public"}
      BY <3>1, <3>2 DEF UserOK
    <3>6. to.customer = NULL <=> to.role \in {"admin", "public"}
      BY <3>2 DEF Resolved
    <3> HIDE DEF from, to, row
    <3>7. to.role = row.role /\ to.customer = row.customer
      BY <3>3, <3>4, <3>5, <3>6
    <3>8. Answers(r)
      <4>1. Done(200).pc = "done" /\ Done(200).code = 200
        BY DEF Done, Idle
      <4> QED
        BY <2>2, <2>4, <4>1 DEF Answers, Open
    <3> QED
      BY <2>4, <3>1, <3>7, <3>8 DEF to, row
  <2> QED
    BY <2>2, <2>3, <2>4
<1> QED
  BY <1>1, Sounds, PTL DEF Spec, ProfileRequested

\* A stored password is replaced only by the hash of one that an update sets, or that a
\* login has been checked with; if it was the text of another one by then, an update has
\* come between.
THEOREM PasswordsAreKept == Spec => PasswordKept
<1> DEFINE Kept ==
       \A u \in DOMAIN users \cap DOMAIN users' :
          users'[u].password # users[u].password =>
             /\ users'[u].password # NULL /\ users'[u].password.hashed
             /\ \E r \in Requests :
                   /\ Answers(r)
                   /\ \/ /\ req[r].pc = "editUser" /\ req[r].op.user = u
                         /\ "password" \in DOMAIN req[r].op.set
                         /\ users'[u].password.text = req[r].op.set.password
                      \/ /\ req[r].pc = "upgrade" /\ req[r].seen = u
                         /\ users'[u].password.text = req[r].op.password
                         /\ users'[u].password.text = users[u].password.text \/ "users" \in req[r].late
<1>1. Sound /\ [Next]_vars => Kept
  <2> SUFFICES ASSUME Sound, [Next]_vars, NEW u \in DOMAIN users \cap DOMAIN users',
                      users'[u].password # users[u].password
               PROVE  /\ users'[u].password # NULL /\ users'[u].password.hashed
                      /\ \E r \in Requests :
                            /\ Answers(r)
                            /\ \/ /\ req[r].pc = "editUser" /\ req[r].op.user = u
                                  /\ "password" \in DOMAIN req[r].op.set
                                  /\ users'[u].password.text = req[r].op.set.password
                               \/ /\ req[r].pc = "upgrade" /\ req[r].seen = u
                                  /\ users'[u].password.text = req[r].op.password
                                  /\ \/ users'[u].password.text = users[u].password.text
                                     \/ "users" \in req[r].late
    OBVIOUS
  <2>1. UserOK(users[u])
    BY DEF Sound, TypeOK
  <2>2. PICK r \in Requests :
           /\ req'[r] = Done(200)
           /\ \/ /\ req[r].pc = "editUser" /\ req[r].op.user = u /\ UserOK(users'[u])
                 /\ users'[u] = Flush(users[u], req[r].seen[1], req[r].seen[2])
              \/ /\ req[r].pc = "upgrade" /\ req[r].seen = u
                 /\ users'[u] = [users[u] EXCEPT !.password = Hash(req[r].op.password, r)]
    BY WhoWrites
  <2>3. ReqOK(r, req[r]) /\ UserReqOK(r, req[r])
    BY DEF Sound, TypeOK, ReqOK
  <2>4. ASSUME NEW text \in Passwords
        PROVE  Hash(text, r) # NULL /\ Hash(text, r).text = text /\ Hash(text, r).hashed = TRUE
    <3>1. Hash(text, r) \in [text : Passwords, hashed : BOOLEAN, by : Nat]
      BY RequestsAssumption DEF Hash
    <3> QED
      BY <3>1, UsersAssumption DEF Hash
  <2>5. Answers(r) <=> Open(r)
    <3>1. Done(200).pc = "done" /\ Done(200).code = 200
      BY DEF Done, Idle
    <3> QED
      BY <2>2, <3>1 DEF Answers
  <2>6. CASE req[r].pc = "upgrade"
    <3>1. /\ req[r].op \in Ops[r] /\ req[r].op.kind = "login" /\ req[r].seen = u
          /\ users'[u] = [users[u] EXCEPT !.password = Hash(req[r].op.password, r)]
      BY <2>2, <2>3, <2>6 DEF ReqOK, UserReqOK
    <3>2. req[r].op.password \in Passwords
      BY <3>1, OpsAssumption DEF CustomerBody, IncomeBody, ConnectionBody, UserBody
    <3>3. users'[u].password = Hash(req[r].op.password, r)
      BY <2>1, <3>1 DEF UserOK, UserColumns
    <3>4. "users" \notin req[r].late => users[u].password.text = req[r].op.password
      BY <2>6, <3>1 DEF Sound, SeenIsCurrent
    <3>5. users'[u].password.text = req[r].op.password /\ users'[u].password # NULL
      BY <2>4, <3>2, <3>3
    <3>6. users'[u].password.hashed
      BY <2>4, <3>2, <3>3
    <3>7. Answers(r)
      BY <2>5, <2>6 DEF Open
    <3> QED
      BY <2>6, <3>1, <3>4, <3>5, <3>6, <3>7
  <2>7. CASE req[r].pc = "editUser"
    <3> DEFINE from == req[r].seen[1]
               to   == req[r].seen[2]
               set  == req[r].op.set
    <3>1. req[r].op.user = u /\ users'[u] = Flush(users[u], from, to)
      BY <2>2, <2>7
    <3>2. /\ DOMAIN from = UserColumns /\ DOMAIN to = UserColumns
          /\ to.password # from.password =>
                "password" \in DOMAIN set /\ set.password \in Passwords /\ to.password = Hash(set.password, r)
      BY <2>3, <2>7 DEF UserReqOK, UserOK, Resolved
    <3>3. users'[u].password = IF to.password # from.password THEN to.password ELSE users[u].password
      BY <2>1, <3>1, <3>2 DEF Flush, Dirty, UserOK, UserColumns
    <3>4. users'[u].password = Hash(set.password, r) /\ "password" \in DOMAIN set /\ set.password \in Passwords
      BY <3>2, <3>3
    <3>5. users'[u].password.text = set.password /\ users'[u].password # NULL
      BY <2>4, <3>4
    <3>6. users'[u].password.hashed
      BY <2>4, <3>4
    <3>7. Answers(r)
      BY <2>5, <2>7 DEF Open
    <3> QED
      BY <2>7, <3>1, <3>4, <3>5, <3>6, <3>7
  <2> QED
    BY <2>2, <2>6, <2>7
<1> QED
  BY <1>1, Sounds, PTL DEF Spec, PasswordKept
=============================================================================
