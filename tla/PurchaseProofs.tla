--------------------------- MODULE PurchaseProofs ----------------------------
(***************************************************************************)
(* What holds of Purchases for every value of its constants: type          *)
(* correctness, with the lemmas on rows and records; the properties that   *)
(* hold however requests overlap; and what holds when requests on one      *)
(* purchase do not.                                                        *)
(***************************************************************************)
EXTENDS PurchaseProps, TLAPS

\* The computed totals name the four total columns and no other.
LEMMA TotalsShape ==
    ASSUME NEW lines
    PROVE  DOMAIN Totals(lines) = TotalColumns
BY DEF Totals, TotalColumns

\* A new purchase row is active, has its owner, and its totals are its lines'.
LEMMA NewPurchaseOK ==
    ASSUME NEW lines, NEW k \in Customers, NEW n
    PROVE /\ PurchaseRowOK(NewPurchase(k, n, lines))
          /\ Balanced(NewPurchase(k, n, lines), lines)
          /\ NewPurchase(k, n, lines).customer_id = k
          /\ NewPurchase(k, n, lines).is_active
BY DEF PurchaseRowOK, NewPurchase, PurchaseColumns, TotalColumns, Balanced

\* The line taken from a config row has the types of a line.
LEMMA LineOK ==
    ASSUME NEW cfg, NEW id \in ConfigIds, ConfigRowOK(cfg[id])
    PROVE  Line(id, cfg) \in Lines
BY DEF Line, Lines, ConfigRowOK

\* So has everything that is on offer.
LEMMA OffersOK ==
    ASSUME NEW cfg, NEW act, NEW lin, DOMAIN cfg \subseteq ConfigIds,
           \A id \in DOMAIN cfg : ConfigRowOK(cfg[id])
    PROVE  Offers(cfg, act, lin) \subseteq Lines
BY LineOK DEF Offers

\* The item rows of lines have the types of the items table.
LEMMA ItemRowsOK ==
    ASSUME NEW p \in PurchaseIds, NEW by \in PurchaseIds, NEW lines \in SUBSET Lines
    PROVE  ItemRows(p, lines, by) \subseteq Items
BY DEF ItemRows, Items, Lines

\* A request that ended holds nothing.
LEMMA DoneOK ==
    ASSUME NEW code \in Code
    PROVE  BuyOK(Done(code)) /\ TargetExists(Done(code)) /\ EditOK(EditDone(code))
BY DEF TargetExists, BuyOK, Done, Idle, Stage, EditOK, EditDone, EditIdle

\* Assigning columns other than owner and is_active keeps a row a row.
LEMMA AssignOK ==
    ASSUME NEW row, PurchaseRowOK(row), NEW set, "customer_id" \notin DOMAIN set,
           "is_active" \notin DOMAIN set
    PROVE  /\ PurchaseRowOK(Assign(row, set))
           /\ Assign(row, set).customer_id = row.customer_id
           /\ Assign(row, set).is_active = row.is_active
BY DEF PurchaseRowOK, Assign, PurchaseColumns

\* So does the flush of the columns that changed.
LEMMA FlushOK ==
    ASSUME NEW row, NEW loaded, NEW new, PurchaseRowOK(row), PurchaseRowOK(new)
    PROVE  PurchaseRowOK(Flush(row, loaded, new))
BY DEF PurchaseRowOK, Flush, Dirty, PurchaseColumns

\* A config body assigns prices and is_enabled, never the customer or the service.
LEMMA AssignConfigOK ==
    ASSUME NEW row, ConfigRowOK(row), NEW set,
           DOMAIN set \subseteq {"is_enabled", "sale_price", "support_price"},
           "is_enabled" \in DOMAIN set => set.is_enabled \in BOOLEAN,
           "sale_price" \in DOMAIN set => set.sale_price \in Price,
           "support_price" \in DOMAIN set => set.support_price \in Nat
    PROVE  /\ ConfigRowOK(Assign(row, set))
           /\ Assign(row, set).customer_id = row.customer_id
           /\ Assign(row, set).service_id = row.service_id
BY DEF ConfigRowOK, Assign, ConfigColumns

\* The flush of a config row yields a config row.
LEMMA FlushConfigOK ==
    ASSUME NEW row, NEW loaded, NEW new, ConfigRowOK(row), ConfigRowOK(new)
    PROVE  ConfigRowOK(Flush(row, loaded, new))
BY DEF ConfigRowOK, Flush, Dirty, ConfigColumns

\* The row a request is about to write has the owner it loaded, and is active
\* exactly when the request means it to be.
LEMMA WantedOK ==
    ASSUME TypeOK, NEW r \in Buyers, buy[r].pc = "ready"
    PROVE  /\ PurchaseRowOK(Wanted(r))
           /\ Wanted(r).customer_id = Owner(r)
           /\ buy[r].op.kind = "create" => Wanted(r).is_active
           /\ buy[r].op.kind = "update" => Wanted(r).is_active = buy[r].seen.is_active
           /\ buy[r].op.kind = "deactivate" => ~Wanted(r).is_active
<1> DEFINE o == buy[r].op
<1>1. BuyOK(buy[r]) /\ o \in PurchaseOps /\ PurchaseBody(o)
  BY PurchaseOpsAssumption DEF TypeOK, BuyOK
<1>2. CASE o.kind = "create"
  BY <1>1, <1>2, NewPurchaseOK DEF Wanted, Owner, PurchaseBody
<1>3. CASE o.kind = "update"
  <2>1. PurchaseRowOK(buy[r].seen)
    BY <1>1, <1>3 DEF BuyOK
  <2>2. "customer_id" \notin DOMAIN o.set /\ "is_active" \notin DOMAIN o.set
    BY <1>1, <1>3 DEF PurchaseBody
  <2>3. \A lines : /\ "customer_id" \notin DOMAIN Totals(lines)
                   /\ "is_active" \notin DOMAIN Totals(lines)
    BY TotalsShape DEF TotalColumns
  <2> QED
    BY <1>3, <2>1, <2>2, <2>3, AssignOK DEF Wanted, Owner
<1>4. CASE o.kind = "deactivate"
  <2>1. PurchaseRowOK(buy[r].seen)
    BY <1>1, <1>4 DEF BuyOK
  <2>2. Wanted(r) = [buy[r].seen EXCEPT !.is_active = FALSE]
    BY <1>4 DEF Wanted
  <2> QED
    BY <1>4, <2>1, <2>2 DEF Owner, PurchaseRowOK, PurchaseColumns
<1> QED
  BY <1>1, <1>2, <1>3, <1>4 DEF PurchaseBody

\* A step that only moves one purchase request to a typed state keeps the types.
LEMMA BuyStep ==
    ASSUME TypeOK, NEW r \in Buyers, NEW b, BuyOK(b), TargetExists(b), buy' = [buy EXCEPT ![r] = b],
           UNCHANGED <<dbVars, edit, offered>>
    PROVE  TypeOK'
BY DEF TypeOK, TargetExists, dbVars

\* The same for a config request that only loads or ends.
LEMMA EditStep ==
    ASSUME TypeOK, NEW e \in Editors, NEW x, EditOK(x), edit' = [edit EXCEPT ![e] = x],
           UNCHANGED <<dbVars, buy, offered>>
    PROVE  TypeOK'
BY DEF TypeOK, TargetExists, dbVars

\* And for a config request that commits.
LEMMA EditCommit ==
    ASSUME TypeOK, NEW e \in Editors, NEW code \in Code,
           edit' = [edit EXCEPT ![e] = EditDone(code)],
           DOMAIN config' \subseteq ConfigIds, \A id \in DOMAIN config' : ConfigRowOK(config'[id]),
           offered' \subseteq Lines, UNCHANGED <<isActive, lineage, purchase, items, buy>>
    PROVE  TypeOK'
<1>1. EditOK(EditDone(code))
  BY DoneOK
<1> HIDE DEF Code
<1> QED
  BY <1>1 DEF TypeOK, TargetExists

\* Every table and every request keeps its type, in every instance: prices that
\* must not be NULL never are, and a request only works on a purchase that has a row.
THEOREM TypeCorrect == Spec => []TypeOK
<1>1. Init => TypeOK
  <2> SUFFICES ASSUME Init PROVE TypeOK
    OBVIOUS
  <2> DEFINE lines == {Line(id, InitConfig) : id \in InitSelection}
  <2>1. DOMAIN config \subseteq ConfigIds /\ \A id \in DOMAIN config : ConfigRowOK(config[id])
    BY InitAssumption DEF Init, ConfigIds
  <2>2. lines \subseteq Lines
    BY <2>1, LineOK, InitAssumption DEF Init
  <2>3. items \subseteq Items
    BY <2>2, ItemRowsOK DEF Init, PurchaseIds
  <2>4. offered \subseteq Lines
    BY <2>1, OffersOK DEF Init
  <2>5. /\ isActive \in [Nodes -> BOOLEAN]
        /\ lineage \in [Services -> [project : Projects, group : Groups]]
    BY LineageAssumption DEF Init
  <2>6. DOMAIN purchase \subseteq PurchaseIds /\ \A p \in DOMAIN purchase : PurchaseRowOK(purchase[p])
    BY NewPurchaseOK, InitAssumption DEF Init, PurchaseIds
  <2>7. BuyOK(Idle) /\ TargetExists(Idle) /\ EditOK(EditIdle)
    BY DEF TargetExists, BuyOK, EditOK, Idle, EditIdle, Stage, Code
  <2>8. /\ DOMAIN buy = Buyers /\ \A r \in Buyers : BuyOK(buy[r]) /\ TargetExists(buy[r])
        /\ DOMAIN edit = Editors /\ \A e \in Editors : EditOK(edit[e])
    BY <2>7 DEF Init
  <2> QED
    BY <2>1, <2>3, <2>4, <2>5, <2>6, <2>8 DEF TypeOK
<1>2. TypeOK /\ [Next]_vars => TypeOK'
  <2> SUFFICES ASSUME TypeOK, [Next]_vars PROVE TypeOK'
    OBVIOUS
  <2>1. ASSUME NEW r \in Buyers, NEW o \in PurchaseOps, Load(r, o) PROVE TypeOK'
    <3>1. Refusal(o) \in Code
      BY DEF Refusal, Code
    <3>2. CASE Refusal(o) # NULL
      BY <2>1, <3>1, <3>2, DoneOK, BuyStep DEF Load
    <3>3. CASE Refusal(o) = NULL
      <4>1. o.kind # "create" => /\ o.purchase \in DOMAIN purchase
                                 /\ PurchaseRowOK(purchase[o.purchase])
        BY <3>3, NullAssumption DEF Refusal, TypeOK
      <4>2. BuyOK(Begin(o)) /\ TargetExists(Begin(o))
        BY <4>1 DEF Begin, BuyOK, TargetExists, Idle, Stage, Code
      <4>3. buy' = [buy EXCEPT ![r] = Begin(o)]
        BY <2>1, <3>3 DEF Load
      <4> QED
        BY <2>1, <4>2, <4>3, BuyStep DEF Load
    <3> QED BY <3>2, <3>3
  <2>2. ASSUME NEW r \in Buyers, Resolve(r) PROVE TypeOK'
    <3> DEFINE ids == Range(buy[r].op.items)
               b == [buy[r] EXCEPT !.pc = "resolved", !.lines = {Line(id, config) : id \in ids}]
    <3>1. buy[r].pc = "loaded" /\ UNCHANGED <<dbVars, edit, offered>>
      BY <2>2 DEF Resolve
    <3>2. CASE buy' = [buy EXCEPT ![r] = Done(422)]
      <4>1. BuyOK(Done(422)) /\ TargetExists(Done(422))
        BY DoneOK DEF Code
      <4> QED
        BY <3>1, <3>2, <4>1, BuyStep, ZenonT(60)
    <3>3. CASE (\A id \in ids : id \in DOMAIN config) /\ buy' = [buy EXCEPT ![r] = b]
      <4>1. {Line(id, config) : id \in ids} \subseteq Lines
        BY <3>3, LineOK DEF TypeOK
      <4>2. BuyOK(b) /\ TargetExists(b)
        BY <3>1, <4>1 DEF TypeOK, BuyOK, TargetExists, Idle, Stage
      <4> HIDE DEF b
      <4> QED
        BY <3>1, <3>3, <4>2, BuyStep
    <3> QED
      BY <2>2, <3>2, <3>3 DEF Resolve, Selectable, Purchasable
  <2>3. ASSUME NEW r \in Buyers, StartDelete(r) PROVE TypeOK'
    <3> DEFINE b == [buy[r] EXCEPT !.pc = "deleting", !.doomed = ItemsOf(Target(r))]
    <3>1. BuyOK(b) /\ TargetExists(b)
      BY <2>3 DEF TargetExists, StartDelete, TypeOK, BuyOK, ItemsOf, Stage, Idle
    <3>2. buy' = [buy EXCEPT ![r] = b]
      BY <2>3 DEF StartDelete
    <3> QED
      BY <2>3, <3>1, <3>2, BuyStep DEF StartDelete
  <2>4. ASSUME NEW r \in Buyers, FinishDelete(r) PROVE TypeOK'
    <3> DEFINE b == [buy[r] EXCEPT !.pc = "ready", !.doomed = buy[r].doomed \cap items]
    <3>1. BuyOK(b) /\ TargetExists(b)
      BY <2>4 DEF TargetExists, FinishDelete, TypeOK, BuyOK, Stage, Idle
    <3>2. buy' = [buy EXCEPT ![r] = b]
      BY <2>4 DEF FinishDelete
    <3> QED
      BY <2>4, <3>1, <3>2, BuyStep DEF FinishDelete
  <2>5. ASSUME NEW r \in Buyers, Commit(r) PROVE TypeOK'
    <3>1. BuyOK(buy[r]) /\ PurchaseBody(buy[r].op) /\ TargetExists(buy[r])
      BY <2>5, PurchaseOpsAssumption DEF Commit, TypeOK, BuyOK
    <3>2. Target(r) \in PurchaseIds
      BY <3>1 DEF Target, PurchaseBody, PurchaseIds
    <3>3. CASE Insertable(r)
      <4> DEFINE b == Committed(buy[r].op)
      <4>1. BuyOK(b)
        BY <2>5, <3>1 DEF BuyOK, Committed, Idle, Stage, Code, Commit
      <4>2. buy' = [buy EXCEPT ![r] = b]
        BY <2>5, <3>3 DEF Commit
      <4>3. items' \subseteq Items
        BY <2>5, <3>1, <3>2, <3>3, ItemRowsOK DEF Commit, TypeOK, PurchaseIds, BuyOK
      <4>4. /\ DOMAIN purchase' \subseteq PurchaseIds
            /\ \A p \in DOMAIN purchase' : PurchaseRowOK(purchase'[p])
        <5>1. PurchaseRowOK(Wanted(r))
          BY <2>5, WantedOK DEF Commit
        <5>2. buy[r].op.kind # "create" =>
                PurchaseRowOK(Flush(purchase[Target(r)], buy[r].seen, Wanted(r)))
          BY <2>5, <3>1, <5>1, FlushOK DEF TypeOK, TargetExists, Target, Commit
        <5>3. PICK row : purchase' = Put(purchase, Target(r), row) /\ PurchaseRowOK(row)
          BY <2>5, <3>3, <5>1, <5>2 DEF Commit
        <5> QED
          BY <3>2, <5>3 DEF Put, TypeOK
      <4> QED
        BY <2>5, <3>1, <3>3, <4>1, <4>2, <4>3, <4>4 DEF Commit, TypeOK, TargetExists, Put, Committed, Idle
    <3>4. CASE ~Insertable(r)
      <4>1. BuyOK(Done(409)) /\ TargetExists(Done(409))
        BY DoneOK DEF Code
      <4> QED
        BY <2>5, <3>4, <4>1, BuyStep DEF Commit, dbVars
    <3> QED BY <3>3, <3>4
  <2>6. ASSUME NEW r \in Buyers, Respond(r) \/ Abort(r) PROVE TypeOK'
    <3>1. PICK code \in Code : buy' = [buy EXCEPT ![r] = Done(code)]
      BY <2>6 DEF Respond, Abort, Code
    <3> QED
      BY <2>6, <3>1, DoneOK, BuyStep, ZenonT(60) DEF Respond, Abort
  <2>7. ASSUME NEW e \in Editors, NEW o \in ConfigOps, LoadUpsert(e, o) PROVE TypeOK'
    <3> DEFINE services == DOMAIN o.rows
               old      == ConfigsOf(o.customer, services)
               new      == services \ {config[id].service_id : id \in old}
               wanted   == [id \in old \cup {<<e, s>> : s \in new} |->
                              IF id \in old THEN Assign(config[id], o.rows[config[id].service_id])
                              ELSE ConfigRow(o.customer, id[2], o.rows[id[2]])]
               x        == [EditIdle EXCEPT !.pc = "loaded", !.op = o,
                              !.seen = [id \in old |-> config[id]], !.want = wanted]
    <3>1. /\ ConfigBody(o) /\ o.kind = "upsert"
          /\ o.customer \in Customers /\ services \subseteq Services
          /\ \A s \in services :
                o.rows[s] \in [is_enabled : BOOLEAN, sale_price : Price, support_price : Nat]
      BY <2>7, ConfigOpsAssumption DEF LoadUpsert, ConfigBody
    <3>2. \A id \in old : id \in ConfigIds /\ ConfigRowOK(config[id])
                          /\ config[id].service_id \in services
      BY DEF ConfigsOf, TypeOK
    <3>3. \A id \in old : ConfigRowOK(wanted[id])
      BY <3>1, <3>2, AssignConfigOK
    <3>4. \A s \in new : <<e, s>> \notin old => ConfigRowOK(wanted[<<e, s>>])
      BY <3>1 DEF ConfigRow, ConfigRowOK, ConfigColumns
    <3>5. EditOK(x)
      <4>1. ASSUME NEW id \in DOMAIN wanted PROVE id \in ConfigIds /\ ConfigRowOK(wanted[id])
        <5>1. CASE id \in old
          BY <3>2, <3>3, <5>1
        <5>2. CASE id \notin old
          <6>1. PICK s \in new : id = <<e, s>>
            BY <5>2
          <6> QED
            BY <3>1, <3>4, <5>2, <6>1 DEF ConfigIds
        <5> QED BY <5>1, <5>2
      <4>2. /\ x.pc = "loaded" /\ x.op = o /\ x.code = NULL
            /\ x.seen = [id \in old |-> config[id]] /\ x.want = wanted
            /\ DOMAIN x = DOMAIN EditIdle
        BY DEF EditIdle
      <4> HIDE DEF x
      <4>3. DOMAIN x.seen = old /\ \A id \in old : ConfigRowOK(x.seen[id])
        BY <3>2, <4>2
      <4>4. old \subseteq DOMAIN wanted
        OBVIOUS
      <4> HIDE DEF wanted, old
      <4> QED
        BY <4>1, <4>2, <4>3, <4>4 DEF EditOK, Code
    <3>6. PICK y : EditOK(y) /\ edit' = [edit EXCEPT ![e] = y]
      <4> HIDE DEF x
      <4>1. edit' = [edit EXCEPT ![e] = x] \/ edit' = [edit EXCEPT ![e] = EditDone(422)]
        BY <2>7 DEF LoadUpsert, x
      <4> QED
        BY <3>5, <4>1, DoneOK DEF Code
    <3> QED
      BY <2>7, <3>6, EditStep, ZenonT(60) DEF LoadUpsert
  <2>8. ASSUME NEW e \in Editors, NEW o \in ConfigOps, LoadUpdate(e, o) \/ LoadDelete(e, o)
        PROVE  TypeOK'
    <3>1. ConfigBody(o)
      BY ConfigOpsAssumption
    <3>2. ASSUME NEW row, ConfigRowOK(row), o.config \in DOMAIN config
          PROVE  EditOK(Loaded(o, o.config, row))
      BY <3>2 DEF Loaded, EditOK, EditIdle, Code, TypeOK
    <3>3. UNCHANGED <<dbVars, buy, offered>>
      BY <2>8 DEF LoadUpdate, LoadDelete
    <3>4. ASSUME NEW code \in Code, edit' = [edit EXCEPT ![e] = EditDone(code)] PROVE TypeOK'
      BY <3>3, <3>4, DoneOK, EditStep
    <3> 404 \in Code /\ 409 \in Code /\ 422 \in Code
      BY DEF Code
    <3> HIDE DEF Code
    <3>5. CASE /\ LoadUpdate(e, o) /\ o.config \in DOMAIN config
               /\ NullCode(o.set) = NULL
               /\ edit' = [edit EXCEPT ![e] = Loaded(o, o.config, Assign(config[o.config], o.set))]
      <4>1. ConfigRowOK(config[o.config])
        BY <3>5 DEF TypeOK
      <4>2. /\ DOMAIN o.set \subseteq {"is_enabled", "sale_price", "support_price"}
            /\ "is_enabled" \in DOMAIN o.set => o.set.is_enabled \in BOOLEAN
            /\ "sale_price" \in DOMAIN o.set => o.set.sale_price \in Price
            /\ "support_price" \in DOMAIN o.set => o.set.support_price \in Nat
        BY <3>1, <3>5, NullAssumption DEF LoadUpdate, ConfigBody, Price, NullCode
      <4>3. ConfigRowOK(Assign(config[o.config], o.set))
        BY <4>1, <4>2, AssignConfigOK
      <4> QED
        BY <3>2, <3>3, <3>5, <4>3, EditStep
    <3>6. CASE /\ o.config \in DOMAIN config
               /\ edit' = [edit EXCEPT ![e] = Loaded(o, o.config, config[o.config])]
      <4>1. ConfigRowOK(config[o.config])
        BY <3>6 DEF TypeOK
      <4> QED
        BY <3>2, <3>3, <3>6, <4>1, EditStep
    <3>7. CASE LoadUpdate(e, o)
      <4>1. CASE edit' = [edit EXCEPT ![e] = EditDone(404)]
        BY <3>4, <4>1
      <4>2. CASE NullCode(o.set) # NULL /\ edit' = [edit EXCEPT ![e] = EditDone(NullCode(o.set))]
        <5>1. NullCode(o.set) \in Code
          BY <4>2 DEF NullCode
        <5> QED
          BY <3>4, <4>2, <5>1
      <4> QED BY <3>5, <3>7, <4>1, <4>2 DEF LoadUpdate
    <3>8. CASE LoadDelete(e, o)
      BY <3>4, <3>6, <3>8, ZenonT(60) DEF LoadDelete
    <3> QED
      BY <2>8, <3>7, <3>8
  <2>9. ASSUME NEW e \in Editors, CommitConfigs(e) PROVE TypeOK'
    <3>1. EditOK(edit[e]) /\ edit[e].pc = "loaded"
      BY <2>9 DEF CommitConfigs, TypeOK
    <3>2. DOMAIN Upserted(e) \subseteq ConfigIds /\ \A id \in DOMAIN Upserted(e) : ConfigRowOK(Upserted(e)[id])
      <4>1. DOMAIN Upserted(e) = DOMAIN config \cup Inserted(e)
        BY DEF Upserted
      <4>2. Inserted(e) \subseteq ConfigIds
        BY <3>1 DEF Inserted, EditOK
      <4>3. ASSUME NEW id \in DOMAIN Upserted(e) PROVE ConfigRowOK(Upserted(e)[id])
        <5>1. CASE id \in Inserted(e)
          BY <3>1, <4>1, <5>1 DEF Upserted, Inserted, EditOK
        <5>2. CASE id \notin Inserted(e) /\ id \in DOMAIN edit[e].seen
          BY <3>1, <4>1, <5>2, FlushConfigOK DEF Upserted, EditOK, TypeOK
        <5>3. CASE id \notin Inserted(e) /\ id \notin DOMAIN edit[e].seen
          BY <4>1, <5>3 DEF Upserted, TypeOK
        <5> QED BY <5>1, <5>2, <5>3
      <4> QED BY <4>1, <4>2, <4>3 DEF TypeOK
    <3>3. DOMAIN config' \subseteq ConfigIds /\ \A id \in DOMAIN config' : ConfigRowOK(config'[id])
      BY <2>9, <3>2 DEF CommitConfigs, TypeOK
    <3>4. offered' \subseteq Lines
      BY <2>9, <3>3, OffersOK DEF CommitConfigs, TypeOK
    <3> DEFINE code == IF StaleUpdate(e) THEN 500 ELSE IF DuplicateInsert(e) THEN 409 ELSE 200
    <3>5. code \in Code
      BY DEF Code
    <3>6. edit' = [edit EXCEPT ![e] = EditDone(code)] /\ UNCHANGED <<isActive, lineage, purchase, items, buy>>
      BY <2>9 DEF CommitConfigs
    <3> HIDE DEF code
    <3> QED
      BY <3>3, <3>4, <3>5, <3>6, EditCommit
  <2>10. ASSUME NEW e \in Editors, CommitDelete(e) PROVE TypeOK'
    <3>1. DOMAIN config' \subseteq ConfigIds /\ \A id \in DOMAIN config' : ConfigRowOK(config'[id])
      BY <2>10 DEF CommitDelete, Drop, TypeOK
    <3> DEFINE code == IF \E i \in items : i.config = edit[e].op.config THEN 409 ELSE 200
    <3>2. code \in Code
      BY DEF Code
    <3>3. /\ edit' = [edit EXCEPT ![e] = EditDone(code)]
          /\ UNCHANGED <<isActive, lineage, purchase, items, buy, offered>>
      BY <2>10 DEF CommitDelete
    <3>4. offered' \subseteq Lines
      BY <3>3 DEF TypeOK
    <3> HIDE DEF code
    <3> QED
      BY <3>1, <3>2, <3>3, <3>4, EditCommit
  <2>11. ASSUME NEW n \in Switched, SetActive(n) PROVE TypeOK'
    <3>1. isActive' \in [Nodes -> BOOLEAN]
      BY <2>11, SwitchedAssumption DEF SetActive, TypeOK
    <3> QED
      BY <2>11, <3>1, OffersOK DEF SetActive, TypeOK, TargetExists
  <2>12. ASSUME NEW s \in Moved, MoveService(s) PROVE TypeOK'
    <3>1. lineage' \in [Services -> [project : Projects, group : Groups]]
      BY <2>12, SwitchedAssumption DEF MoveService, TypeOK
    <3> QED
      BY <2>12, <3>1, OffersOK DEF MoveService, TypeOK, TargetExists
  <2>13. CASE UNCHANGED vars
    BY <2>13 DEF vars, dbVars, TypeOK, TargetExists
  <2> QED
    BY <2>1, <2>2, <2>3, <2>4, <2>5, <2>6, <2>7, <2>8, <2>9, <2>10, <2>11, <2>12, <2>13
       DEF Next, Proceed, Terminated
<1>3. QED
  BY <1>1, <1>2, PTL DEF Spec

(***************************************************************************)
(* The properties that hold however requests overlap.  Every proof uses    *)
(* two views of a step: what a step does to ONE request (Moves) and which  *)
(* steps touch the tables (TablesMove, ConfigMoves).                       *)
(***************************************************************************)

\* What one step may do to request r.
Moves(r) ==
    \/ buy'[r] = buy[r]
    \/ \E code \in Code : buy'[r] = Done(code)
    \/ Commit(r) /\ Insertable(r) /\ buy'[r] = Committed(buy[r].op)
    \/ /\ UNCHANGED <<dbVars, edit>>
       /\ \/ /\ buy[r].pc = "idle"
             /\ \E o \in PurchaseOps : /\ Refusal(o) = NULL /\ (~Overlap => Alone(o))
                                       /\ buy'[r] = Begin(o)
          \/ /\ buy[r].pc = "loaded"
             /\ \A id \in Range(buy[r].op.items) : /\ Purchasable(id, config, isActive, lineage)
                                                    /\ config[id].customer_id = Owner(r)
             /\ buy'[r] = [buy[r] EXCEPT !.pc = "resolved",
                              !.lines = {Line(id, config) : id \in Range(buy[r].op.items)}]
          \/ /\ buy[r].pc = "resolved"
             /\ buy'[r] = [buy[r] EXCEPT !.pc = "deleting", !.doomed = ItemsOf(Target(r))]
          \/ /\ buy[r].pc = "deleting"
             /\ buy'[r] = [buy[r] EXCEPT !.pc = "ready", !.doomed = buy[r].doomed \cap items]

\* Every step is one of those moves for every request.
LEMMA RequestMoves ==
    ASSUME TypeOK, [Next]_vars, NEW r \in Buyers
    PROVE  Moves(r)
<1> USE DEF TypeOK
<1>0. 404 \in Code /\ 409 \in Code /\ 422 \in Code /\ 500 \in Code /\ 200 \in Code
  BY DEF Code
<1>1. ASSUME NEW s \in Buyers, s # r, NEW b, buy' = [buy EXCEPT ![s] = b] PROVE buy'[r] = buy[r]
  BY <1>1
<1>2. CASE UNCHANGED buy
  BY <1>2 DEF Moves
<1>3. ASSUME NEW s \in Buyers, NEW o \in PurchaseOps, Load(s, o) PROVE Moves(r)
  <2>1. Refusal(o) \in Code
    BY DEF Refusal, Code
  <2> QED
    BY <1>1, <1>3, <2>1 DEF Moves, Load
<1>4. ASSUME NEW s \in Buyers, Resolve(s) PROVE Moves(r)
  <2> DEFINE ids == Range(buy[s].op.items)
  <2>1. \/ buy' = [buy EXCEPT ![s] = Done(422)]
        \/ /\ \A id \in ids : Purchasable(id, config, isActive, lineage) /\ config[id].customer_id = Owner(s)
           /\ buy' = [buy EXCEPT ![s] = [buy[s] EXCEPT !.pc = "resolved",
                                              !.lines = {Line(id, config) : id \in ids}]]
    BY <1>4 DEF Resolve, Selectable
  <2>2. buy[s].pc = "loaded" /\ UNCHANGED <<dbVars, edit>>
    BY <1>4 DEF Resolve
  <2>3. CASE s # r
    BY <1>1, <2>1, <2>3 DEF Moves
  <2>4. CASE s = r
    <3>1. CASE buy' = [buy EXCEPT ![s] = Done(422)]
      BY <1>0, <2>4, <3>1 DEF Moves
    <3> QED
      BY <2>1, <2>2, <2>4, <3>1 DEF Moves
  <2> QED
    BY <2>3, <2>4
<1>5. ASSUME NEW s \in Buyers, StartDelete(s) PROVE Moves(r)
  BY <1>1, <1>5 DEF Moves, StartDelete
<1>6. ASSUME NEW s \in Buyers, FinishDelete(s) PROVE Moves(r)
  BY <1>1, <1>6 DEF Moves, FinishDelete
<1>7. ASSUME NEW s \in Buyers, Commit(s) PROVE Moves(r)
  <2>1. \/ Insertable(s) /\ buy' = [buy EXCEPT ![s] = Committed(buy[s].op)]
        \/ buy' = [buy EXCEPT ![s] = Done(409)]
    BY <1>7 DEF Commit
  <2> QED
    BY <1>0, <1>1, <1>7, <2>1 DEF Moves
<1>8. ASSUME NEW s \in Buyers, Respond(s) \/ Abort(s) PROVE Moves(r)
  <2>1. \E code \in Code : buy' = [buy EXCEPT ![s] = Done(code)]
    BY <1>0, <1>8 DEF Respond, Abort
  <2> QED
    BY <1>1, <2>1 DEF Moves
<1> QED
  BY <1>2, <1>3, <1>4, <1>5, <1>6, <1>7, <1>8, ZenonT(60)
     DEF Next, Proceed, Terminated, vars, LoadUpsert, LoadUpdate, LoadDelete,
         CommitConfigs, CommitDelete, SetActive, MoveService

\* Only commits of purchase requests change purchases and their items.
LEMMA TablesMove ==
    ASSUME [Next]_vars
    PROVE  \/ UNCHANGED <<purchase, items>>
           \/ \E r \in Buyers : Commit(r) /\ Insertable(r)
<1>1. ASSUME NEW r \in Buyers, NEW o \in PurchaseOps, Load(r, o) PROVE UNCHANGED <<purchase, items>>
  BY <1>1 DEF Load, dbVars
<1>2. ASSUME NEW r \in Buyers, Commit(r) PROVE Insertable(r) \/ UNCHANGED <<purchase, items>>
  BY <1>2 DEF Commit
<1>3. ASSUME NEW r \in Buyers,
             Resolve(r) \/ StartDelete(r) \/ FinishDelete(r) \/ Respond(r) \/ Abort(r)
      PROVE  UNCHANGED <<purchase, items>>
  BY <1>3 DEF Resolve, StartDelete, FinishDelete, Respond, Abort, dbVars
<1>4. ASSUME NEW e \in Editors, NEW o \in ConfigOps,
             LoadUpsert(e, o) \/ LoadUpdate(e, o) \/ LoadDelete(e, o)
      PROVE  UNCHANGED <<purchase, items>>
  BY <1>4 DEF LoadUpsert, LoadUpdate, LoadDelete, dbVars
<1>5. ASSUME NEW e \in Editors, CommitConfigs(e) \/ CommitDelete(e)
      PROVE  UNCHANGED <<purchase, items>>
  BY <1>5 DEF CommitConfigs, CommitDelete
<1> QED
  BY <1>1, <1>2, <1>3, <1>4, <1>5 DEF Next, Proceed, Terminated, vars, SetActive, MoveService

\* A commit leaves every purchase in place, with its owner, and inactive if it
\* was; the only row it can add is the one under the id of the request.
LEMMA CommitKeepsRows ==
    ASSUME TypeOK, RequestsMatchRows, NEW r \in Buyers, Commit(r), Insertable(r)
    PROVE  /\ DOMAIN purchase' = DOMAIN purchase \cup {Target(r)}
           /\ Target(r) \in DOMAIN purchase <=> buy[r].op.kind # "create"
           /\ \A p \in DOMAIN purchase :
                 /\ purchase'[p].customer_id = purchase[p].customer_id
                 /\ ~purchase[p].is_active => ~purchase'[p].is_active
           /\ purchase'[Target(r)].customer_id = Owner(r)
<1> DEFINE o == buy[r].op
           p == Target(r)
<1>1. /\ buy[r].pc = "ready" /\ PurchaseRowOK(Wanted(r)) /\ Wanted(r).customer_id = Owner(r)
      /\ o.kind # "create" => (Wanted(r).is_active => buy[r].seen.is_active)
  <2>1. buy[r].pc = "ready" /\ o \in PurchaseOps /\ PurchaseBody(o)
    BY PurchaseOpsAssumption DEF Commit, TypeOK, BuyOK
  <2> QED
    BY <2>1, WantedOK DEF PurchaseBody
<1>2. Open(r)
  BY <1>1 DEF Open
<1>3. CASE o.kind = "create"
  <2>1. p = r /\ p \notin DOMAIN purchase
    BY <1>1, <1>3 DEF RequestsMatchRows, Target
  <2>2. purchase' = Put(purchase, p, Wanted(r))
    BY <1>3 DEF Commit
  <2> QED
    BY <1>1, <1>3, <2>1, <2>2 DEF Put
<1>4. CASE o.kind # "create"
  <2>1. /\ p = o.purchase /\ p \in DOMAIN purchase /\ PurchaseRowOK(purchase[p])
        /\ buy[r].seen.is_active /\ buy[r].seen.customer_id = purchase[p].customer_id
        /\ Owner(r) = buy[r].seen.customer_id
    BY <1>1, <1>2, <1>4 DEF TypeOK, TargetExists, RequestsMatchRows, Target, Owner
  <2> DEFINE row == Flush(purchase[p], buy[r].seen, Wanted(r))
  <2>2. purchase' = Put(purchase, p, row)
    BY <1>4 DEF Commit
  <2>3. PurchaseRowOK(buy[r].seen)
    BY <1>1, <1>4 DEF TypeOK, BuyOK
  <2>4. row.customer_id = purchase[p].customer_id
    BY <1>1, <2>1 DEF Flush, Dirty, PurchaseRowOK, PurchaseColumns
  <2>5. ~purchase[p].is_active => ~row.is_active
    BY <1>1, <1>4, <2>1, <2>3 DEF Flush, Dirty, PurchaseRowOK, PurchaseColumns
  <2> HIDE DEF row
  <2> QED
    BY <1>4, <2>1, <2>2, <2>4, <2>5 DEF Put
<1> QED BY <1>3, <1>4
\* An open request that stays open keeps its body and the row it loaded, and
\* one that opens has just been let through.
LEMMA KeepsRequest ==
    ASSUME TypeOK, [Next]_vars, NEW r \in Buyers, Open(r)'
    PROVE  /\ Open(r) => buy'[r].op = buy[r].op /\ buy'[r].seen = buy[r].seen
           /\ ~Open(r) => /\ buy[r].pc = "idle" /\ UNCHANGED <<dbVars, edit>>
                          /\ \E o \in PurchaseOps : /\ Refusal(o) = NULL /\ (~Overlap => Alone(o))
                                                    /\ buy'[r] = Begin(o)
<1>1. DOMAIN buy[r] = DOMAIN Idle /\ Moves(r)
  BY RequestMoves DEF TypeOK, BuyOK
<1>2. ~ \E code \in Code : buy'[r] = Done(code)
  BY DEF Open, Done, Idle
<1>3. buy'[r] # Committed(buy[r].op)
  BY DEF Open, Committed, Idle
<1>4. CASE Open(r)
  <2>1. buy[r].pc # "idle"
    BY <1>4 DEF Open
  <2> QED
    BY <1>1, <1>2, <1>3, <1>4, <2>1 DEF Moves, Idle
<1>5. CASE ~Open(r)
  <2>1. buy[r].pc \in {"idle", "committed", "done"} /\ buy'[r] # buy[r]
    BY <1>5 DEF Open
  <2> QED
    BY <1>1, <1>2, <1>3, <1>5, <2>1 DEF Moves
<1> QED BY <1>4, <1>5

\* The step that makes RequestsMatchRows an invariant.
LEMMA RowsMatchStep ==
    ASSUME TypeOK, RequestsMatchRows, [Next]_vars
    PROVE  RequestsMatchRows'
<1> SUFFICES ASSUME NEW r \in Buyers
             PROVE  /\ r \in DOMAIN purchase' => buy'[r].pc \in {"committed", "done"}
                    /\ Open(r)' /\ buy'[r].op.kind # "create" =>
                          /\ buy'[r].seen.is_active
                          /\ buy'[r].seen.customer_id = purchase'[buy'[r].op.purchase].customer_id
  BY DEF RequestsMatchRows
<1>1. /\ \A p \in DOMAIN purchase : purchase'[p].customer_id = purchase[p].customer_id
      /\ r \in DOMAIN purchase' => r \in DOMAIN purchase \/ (Commit(r) /\ Insertable(r))
  <2>1. CASE UNCHANGED <<purchase, items>>
    BY <2>1
  <2>2. ASSUME NEW s \in Buyers, Commit(s), Insertable(s)
        PROVE  /\ \A p \in DOMAIN purchase : purchase'[p].customer_id = purchase[p].customer_id
               /\ r \in DOMAIN purchase' => r \in DOMAIN purchase \/ r = s
    <3>1. /\ DOMAIN purchase' = DOMAIN purchase \cup {Target(s)}
          /\ Target(s) \in DOMAIN purchase \/ buy[s].op.kind = "create"
          /\ \A p \in DOMAIN purchase : purchase'[p].customer_id = purchase[p].customer_id
      BY <2>2, CommitKeepsRows
    <3> QED
      BY <3>1 DEF Target
  <2> QED
    BY <2>1, <2>2, TablesMove
<1>2. r \in DOMAIN purchase' => buy'[r].pc \in {"committed", "done"}
  <2>1. CASE Commit(r) /\ Insertable(r)
    BY <2>1 DEF Commit, Committed, Idle, TypeOK
  <2>2. CASE r \in DOMAIN purchase
    <3>1. buy[r].pc \in {"committed", "done"}
      BY <2>2 DEF RequestsMatchRows
    <3> QED
      BY <3>1, RequestMoves DEF Moves, Done, Committed, Idle
  <2> QED
    BY <1>1, <2>1, <2>2
<1>3. ASSUME Open(r)', buy'[r].op.kind # "create"
      PROVE  /\ buy'[r].seen.is_active
             /\ buy'[r].seen.customer_id = purchase'[buy'[r].op.purchase].customer_id
  <2>1. CASE ~Open(r)
    <3>1. PICK o \in PurchaseOps : Refusal(o) = NULL /\ buy'[r] = Begin(o) /\ UNCHANGED dbVars
      BY <1>3, <2>1, KeepsRequest
    <3>2. o.kind # "create"
      BY <1>3, <3>1 DEF Begin, Idle
    <3>3. o.purchase \in DOMAIN purchase /\ purchase[o.purchase].is_active
      BY <3>1, <3>2, NullAssumption DEF Refusal, Visible
    <3> QED
      BY <3>1, <3>2, <3>3 DEF Begin, Idle, dbVars
  <2>2. CASE Open(r)
    <3>1. buy'[r].op = buy[r].op /\ buy'[r].seen = buy[r].seen
      <4>1. BuyOK(buy[r])
        BY DEF TypeOK
      <4> QED
        BY <1>3, <2>2, <4>1, KeepsRequest
    <3>2. buy[r].op.purchase \in DOMAIN purchase /\ buy[r].seen.is_active
          /\ buy[r].seen.customer_id = purchase[buy[r].op.purchase].customer_id
      BY <1>3, <2>2, <3>1 DEF RequestsMatchRows, TypeOK, TargetExists, Open
    <3> QED
      BY <1>1, <3>1, <3>2
  <2> QED BY <2>1, <2>2
<1> QED BY <1>2, <1>3

\* A request that works on an existing purchase found it active and under its
\* present owner, and a purchase appears only when its own request commits.
THEOREM RowsMatch == Spec => []RequestsMatchRows
<1>1. Init => RequestsMatchRows
  BY SeedAssumption DEF Init, RequestsMatchRows, Open, Idle
<1>2. TypeOK /\ RequestsMatchRows /\ [Next]_vars => RequestsMatchRows'
  BY RowsMatchStep
<1> QED
  BY <1>1, <1>2, TypeCorrect, PTL DEF Spec

\* A deactivated purchase stays deactivated, whatever PATCH was in flight.
THEOREM DeactivationFinal == Spec => DeactivationIsFinal
<1>1. ASSUME TypeOK, RequestsMatchRows, [Next]_vars
      PROVE  \A p \in DOMAIN purchase : ~purchase[p].is_active
                => p \in DOMAIN purchase' /\ ~purchase'[p].is_active
  BY <1>1, TablesMove, CommitKeepsRows
<1> DEFINE Step == \A p \in DOMAIN purchase : ~purchase[p].is_active
                => p \in DOMAIN purchase' /\ ~purchase'[p].is_active
<1>2. TypeOK /\ RequestsMatchRows /\ [Next]_vars => [Step]_vars
  BY <1>1
<1>3. Spec => [][Step]_vars
  BY <1>2, TypeCorrect, RowsMatch, PTL DEF Spec
<1> QED
  BY <1>3 DEF DeactivationIsFinal

\* Config requests end and stay ended, keep the customer of every row, insert
\* rows under their own id only, and delete no row that an item refers to.
LEMMA ConfigStep ==
    ASSUME TypeOK, ConfigsKeepCustomer, [Next]_vars
    PROVE  /\ \A e \in Editors : edit[e].pc = "done" => edit'[e].pc = "done"
           /\ \A id \in DOMAIN config' : /\ Known(id)'
                                         /\ id \notin DOMAIN config => ~Known(id)
           /\ \A id \in DOMAIN config \cap DOMAIN config' :
                 config'[id].customer_id = config[id].customer_id
           /\ \A id \in DOMAIN config \ DOMAIN config' :
                 UNCHANGED items /\ \A i \in items : i.config # id
           /\ \A e \in Editors : edit'[e].pc = "loaded" =>
                 /\ \A id \in DOMAIN edit'[e].seen :
                       edit'[e].want[id].customer_id = edit'[e].seen[id].customer_id
                 /\ \A id \in Inserted(e)' : id[1] = e
<1> DEFINE Good(e, x) == x.pc = "loaded" =>
               /\ \A id \in DOMAIN x.seen : x.want[id].customer_id = x.seen[id].customer_id
               /\ \A id \in DOMAIN x.want \ DOMAIN x.seen : id[1] = e
           Goal == /\ \A e \in Editors : edit[e].pc = "done" => edit'[e].pc = "done"
                   /\ \A id \in DOMAIN config' : /\ Known(id)'
                                                 /\ id \notin DOMAIN config => ~Known(id)
                   /\ \A id \in DOMAIN config \cap DOMAIN config' :
                         config'[id].customer_id = config[id].customer_id
                   /\ \A id \in DOMAIN config \ DOMAIN config' :
                         UNCHANGED items /\ \A i \in items : i.config # id
                   /\ \A e \in Editors : Good(e, edit'[e])
<1>1. SUFFICES Goal
  BY DEF Inserted
<1>2. /\ DOMAIN edit = Editors
      /\ \A e \in Editors : EditOK(edit[e]) /\ Good(e, edit[e])
      /\ \A id \in DOMAIN config : Known(id)
  BY DEF TypeOK, ConfigsKeepCustomer, Inserted
<1>3. CASE UNCHANGED <<config, edit>>
  BY <1>2, <1>3 DEF Known
<1>4. ASSUME NEW e \in Editors, NEW x, edit[e].pc = "idle", edit' = [edit EXCEPT ![e] = x],
             Good(e, x), UNCHANGED config
      PROVE  Goal
  BY <1>2, <1>4 DEF Known
<1>5. \A code : Good(Seed, EditDone(code)) /\ \A e : Good(e, EditDone(code))
  BY DEF EditDone, EditIdle
<1>6. ASSUME NEW e \in Editors, NEW o \in ConfigOps, LoadUpsert(e, o) PROVE Goal
  <2> DEFINE services == DOMAIN o.rows
             old      == ConfigsOf(o.customer, services)
             new      == services \ {config[id].service_id : id \in old}
             wanted   == [id \in old \cup {<<e, s>> : s \in new} |->
                            IF id \in old THEN Assign(config[id], o.rows[config[id].service_id])
                            ELSE ConfigRow(o.customer, id[2], o.rows[id[2]])]
             x        == [EditIdle EXCEPT !.pc = "loaded", !.op = o,
                            !.seen = [id \in old |-> config[id]], !.want = wanted]
  <2>1. Good(e, x)
    <3>1. /\ ConfigBody(o) /\ o.kind = "upsert"
          /\ \A s \in services :
                o.rows[s] \in [is_enabled : BOOLEAN, sale_price : Price, support_price : Nat]
      BY <1>6, ConfigOpsAssumption DEF LoadUpsert, ConfigBody
    <3>2. ASSUME NEW id \in old PROVE wanted[id].customer_id = config[id].customer_id
      <4>1. ConfigRowOK(config[id]) /\ config[id].service_id \in services
        BY DEF ConfigsOf, TypeOK
      <4> QED
        BY <3>1, <4>1, AssignConfigOK
    <3>3. x.seen = [id \in old |-> config[id]] /\ x.want = wanted
      BY DEF EditIdle
    <3>4. \A id \in DOMAIN wanted \ old : id[1] = e
      OBVIOUS
    <3> HIDE DEF x, wanted, old
    <3> QED
      BY <3>2, <3>3, <3>4
  <2>2. edit' = [edit EXCEPT ![e] = x] \/ edit' = [edit EXCEPT ![e] = EditDone(422)]
    BY <1>6 DEF LoadUpsert
  <2>3. edit[e].pc = "idle" /\ UNCHANGED config
    BY <1>6 DEF LoadUpsert, dbVars
  <2> HIDE DEF x, Good, Goal
  <2> QED
    BY <1>4, <1>5, <2>1, <2>2, <2>3
<1>7. ASSUME NEW e \in Editors, NEW o \in ConfigOps, LoadUpdate(e, o) \/ LoadDelete(e, o) PROVE Goal
  <2>1. edit[e].pc = "idle" /\ UNCHANGED config
    BY <1>7 DEF LoadUpdate, LoadDelete, dbVars
  <2>2. ASSUME o.config \in DOMAIN config, NEW row, row.customer_id = config[o.config].customer_id
        PROVE  Good(e, Loaded(o, o.config, row))
    BY <2>2 DEF Loaded, EditIdle
  <2>3. LoadUpdate(e, o) /\ o.config \in DOMAIN config
           => Assign(config[o.config], o.set).customer_id = config[o.config].customer_id
    BY ConfigOpsAssumption DEF LoadUpdate, ConfigBody, Assign, TypeOK, ConfigRowOK, ConfigColumns
  <2>4. \/ \E code : edit' = [edit EXCEPT ![e] = EditDone(code)]
        \/ /\ o.config \in DOMAIN config
           /\ \E row : /\ row.customer_id = config[o.config].customer_id
                       /\ edit' = [edit EXCEPT ![e] = Loaded(o, o.config, row)]
    <3>1. CASE LoadDelete(e, o)
      BY <3>1, ZenonT(60) DEF LoadDelete
    <3>2. CASE LoadUpdate(e, o)
      BY <2>3, <3>2 DEF LoadUpdate
    <3> QED BY <1>7, <3>1, <3>2
  <2> HIDE DEF Good, Goal
  <2> QED
    BY <1>4, <1>5, <2>1, <2>2, <2>4
<1>8. ASSUME NEW e \in Editors, CommitConfigs(e) PROVE Goal
  <2> DEFINE x == edit[e]
  <2>1. x.pc = "loaded" /\ EditOK(x) /\ Good(e, x) /\ Inserted(e) = DOMAIN x.want \ DOMAIN x.seen
    BY <1>2, <1>8 DEF CommitConfigs, Inserted
  <2>2. PICK code : edit' = [edit EXCEPT ![e] = EditDone(code)]
    BY <1>8, ZenonT(60) DEF CommitConfigs
  <2>3. edit'[e].pc = "done" /\ \A f \in Editors \ {e} : edit'[f] = edit[f]
    BY <1>2, <2>2 DEF EditDone, EditIdle
  <2>4. \A f \in Editors : Good(f, edit'[f])
    BY <1>2, <2>3
  <2>5. \A id : Known(id) => Known(id)'
    BY <2>3 DEF Known
  <2>6. CASE config' = config
    BY <1>2, <2>3, <2>4, <2>5, <2>6
  <2>7. CASE config' = Upserted(e)
    <3>1. DOMAIN config' = DOMAIN config \cup Inserted(e)
      BY <2>7 DEF Upserted
    <3>2. \A id \in Inserted(e) : id[1] = e /\ Known(id)' /\ ~Known(id)
      BY <2>1, <2>3 DEF Known
    <3>3. ASSUME NEW id \in DOMAIN config PROVE config'[id].customer_id = config[id].customer_id
      <4>1. id \notin Inserted(e)
        BY <1>2, <3>2
      <4>2. CASE id \in DOMAIN x.seen
        <5>1. ConfigRowOK(config[id]) /\ x.want[id].customer_id = x.seen[id].customer_id
          BY <2>1, <4>2 DEF TypeOK
        <5>2. config'[id] = Flush(config[id], x.seen[id], x.want[id])
          BY <2>7, <4>1, <4>2 DEF Upserted
        <5> QED
          BY <5>1, <5>2 DEF Flush, Dirty, ConfigRowOK, ConfigColumns
      <4>3. CASE id \notin DOMAIN x.seen
        BY <2>7, <4>1, <4>3 DEF Upserted
      <4> QED BY <4>2, <4>3
    <3> QED
      BY <1>2, <2>3, <2>4, <2>5, <3>1, <3>2, <3>3
  <2> QED
    BY <1>8, <2>6, <2>7 DEF CommitConfigs
<1>9. ASSUME NEW e \in Editors, CommitDelete(e) PROVE Goal
  <2> DEFINE gone == edit[e].op.config
  <2>1. PICK code : edit' = [edit EXCEPT ![e] = EditDone(code)]
    BY <1>9 DEF CommitDelete
  <2>2. edit'[e].pc = "done" /\ \A f \in Editors \ {e} : edit'[f] = edit[f]
    BY <1>2, <2>1 DEF EditDone, EditIdle
  <2>3. UNCHANGED items /\ (config' = config \/ (config' = Drop(config, gone) /\ \A i \in items : i.config # gone))
    BY <1>9 DEF CommitDelete
  <2> QED
    BY <1>2, <2>2, <2>3 DEF Known, Drop
<1> HIDE DEF Goal
<1> QED
  BY <1>3, <1>6, <1>7, <1>8, <1>9
     DEF Next, Proceed, Terminated, vars, dbVars, Load, Resolve, StartDelete, FinishDelete,
         Commit, Respond, Abort, SetActive, MoveService

\* No step assigns the customer of a config, nor gives a deleted id to a new one.
THEOREM ConfigCustomerKept == Spec => []ConfigsKeepCustomer
<1>1. Init => ConfigsKeepCustomer
  BY InitAssumption, SeedAssumption DEF Init, ConfigsKeepCustomer, Known, Idle, EditIdle
<1>2. ASSUME TypeOK, ConfigsKeepCustomer, [Next]_vars PROVE ConfigsKeepCustomer'
  <2>1. \A id \in DOMAIN config' : Known(id)'
    BY <1>2, ConfigStep
  <2>2. \A e \in Editors : edit'[e].pc = "loaded" =>
          /\ \A id \in DOMAIN edit'[e].seen :
                edit'[e].want[id].customer_id = edit'[e].seen[id].customer_id
          /\ \A id \in Inserted(e)' : id[1] = e
    BY <1>2, ConfigStep
  <2>3. ASSUME NEW r \in Buyers, NEW l \in buy'[r].lines
        PROVE  /\ Known(l.config)'
               /\ l.config \in DOMAIN config' => config'[l.config].customer_id = Owner(r)'
    <3>1. Known(l.config) => Known(l.config)'
      BY <1>2, ConfigStep DEF Known
    <3>2. CASE l \in buy[r].lines /\ Owner(r)' = Owner(r)
      <4>1. /\ Known(l.config)
            /\ l.config \in DOMAIN config => config[l.config].customer_id = Owner(r)
        BY <1>2, <3>2 DEF ConfigsKeepCustomer
      <4> QED
        BY <1>2, <3>1, <3>2, <4>1, ConfigStep
    <3>3. CASE /\ UNCHANGED config /\ Owner(r)' = Owner(r)
               /\ l.config \in DOMAIN config /\ config[l.config].customer_id = Owner(r)
      BY <1>2, <3>1, <3>3 DEF ConfigsKeepCustomer
    <3>4. \/ l \in buy[r].lines /\ Owner(r)' = Owner(r)
          \/ /\ UNCHANGED config /\ Owner(r)' = Owner(r)
             /\ l.config \in DOMAIN config /\ config[l.config].customer_id = Owner(r)
      <4>1. DOMAIN buy[r] = DOMAIN Idle
        BY <1>2 DEF TypeOK, BuyOK
      <4> QED
        <5>1. /\ \A code : Done(code).lines = {}
              /\ \A o : Begin(o).lines = {} /\ Committed(o).lines = {}
          BY DEF Done, Begin, Committed, Idle
        <5>2. Moves(r)
          BY <1>2, RequestMoves
        <5>3. /\ ~ \E code : buy'[r] = Done(code)
              /\ ~ \E o : buy'[r] = Begin(o) \/ buy'[r] = Committed(o)
          BY <5>1
        <5>4. CASE /\ UNCHANGED dbVars
                   /\ \A id \in Range(buy[r].op.items) : /\ Purchasable(id, config, isActive, lineage)
                                                          /\ config[id].customer_id = Owner(r)
                   /\ buy'[r] = [buy[r] EXCEPT !.pc = "resolved",
                                    !.lines = {Line(id, config) : id \in Range(buy[r].op.items)}]
          <6>1. buy'[r].lines = {Line(id, config) : id \in Range(buy[r].op.items)}
            BY <4>1, <5>4 DEF Idle
          <6>2. Owner(r)' = Owner(r)
            BY <4>1, <5>4 DEF Idle, Owner
          <6> QED
            BY <5>4, <6>1, <6>2 DEF Line, Purchasable, dbVars
        <5>5. CASE \/ buy'[r] = buy[r]
                   \/ buy'[r] = [buy[r] EXCEPT !.pc = "deleting", !.doomed = ItemsOf(Target(r))]
                   \/ buy'[r] = [buy[r] EXCEPT !.pc = "ready", !.doomed = buy[r].doomed \cap items]
          BY <4>1, <5>5 DEF Idle, Owner
        <5> QED
          BY <5>2, <5>3, <5>4, <5>5 DEF Moves
    <3> QED BY <3>2, <3>3, <3>4
  <2> QED
    BY <2>1, <2>2, <2>3 DEF ConfigsKeepCustomer
<1> QED
  BY <1>1, <1>2, TypeCorrect, PTL DEF Spec

\* A purchase never lists a config of another customer, or one that is gone.
THEOREM ItemsOwned == Spec => []ItemsUnderOwnCustomer
<1>1. Init => ItemsUnderOwnCustomer
  BY InitAssumption, NewPurchaseOK DEF Init, ItemsUnderOwnCustomer, ItemRows, Line
<1>2. ASSUME TypeOK, RequestsMatchRows, ConfigsKeepCustomer, ItemsUnderOwnCustomer, [Next]_vars
      PROVE  ItemsUnderOwnCustomer'
  <2>1. CASE UNCHANGED <<purchase, items>>
    <3> SUFFICES ASSUME NEW i \in items
                 PROVE  i.config \in DOMAIN config' /\ config'[i.config].customer_id = config[i.config].customer_id
      BY <1>2, <2>1 DEF ItemsUnderOwnCustomer
    <3>1. i.config \in DOMAIN config
      BY <1>2 DEF ItemsUnderOwnCustomer
    <3> QED
      BY <1>2, <3>1, ConfigStep
  <2>2. ASSUME NEW r \in Buyers, Commit(r), Insertable(r) PROVE ItemsUnderOwnCustomer'
    <3>1. UNCHANGED config /\ items' = (items \ buy[r].doomed) \cup ItemRows(Target(r), buy[r].lines, r)
      BY <2>2 DEF Commit
    <3>2. ASSUME NEW i \in items
          PROVE  /\ i.purchase \in DOMAIN purchase' /\ i.config \in DOMAIN config
                 /\ config[i.config].customer_id = purchase'[i.purchase].customer_id
      BY <1>2, <2>2, CommitKeepsRows DEF ItemsUnderOwnCustomer
    <3>3. ASSUME NEW l \in buy[r].lines
          PROVE  l.config \in DOMAIN config /\ config[l.config].customer_id = Owner(r)
      BY <1>2, <2>2 DEF ConfigsKeepCustomer, Insertable
    <3>4. Target(r) \in DOMAIN purchase' /\ purchase'[Target(r)].customer_id = Owner(r)
      BY <1>2, <2>2, CommitKeepsRows
    <3> QED
      BY <3>1, <3>2, <3>3, <3>4 DEF ItemsUnderOwnCustomer, ItemRows
  <2> QED
    BY <1>2, <2>1, <2>2, TablesMove
<1> QED
  BY <1>1, <1>2, TypeCorrect, RowsMatch, ConfigCustomerKept, PTL DEF Spec

\* Whoever replaces items has at least one line in hand by the time it deletes,
\* and whoever does not has neither lines nor doomed rows.
THEOREM RowsHeld == Spec => []RequestsHoldTheirRows
<1>1. Init => RequestsHoldTheirRows
  BY DEF Init, RequestsHoldTheirRows, Open, Idle
<1>2. ASSUME TypeOK, RequestsHoldTheirRows, [Next]_vars PROVE RequestsHoldTheirRows'
  <2> DEFINE Holds(b, target) ==
               /\ b.pc \in {"idle", "committed", "done"} => b.lines = {}
               /\ b.pc \notin {"idle", "committed", "done"} /\ ~ReplacesItems(b.op) =>
                     b.pc = "ready" /\ b.lines = {} /\ b.doomed = {}
               /\ b.pc \in {"resolved", "deleting", "ready"} /\ ReplacesItems(b.op) => b.lines # {}
               /\ \A i \in b.doomed : i.purchase = target
  <2> SUFFICES ASSUME NEW r \in Buyers PROVE Holds(buy'[r], Target(r)')
    BY DEF RequestsHoldTheirRows, Open
  <2>1. Holds(buy[r], Target(r)) /\ Moves(r) /\ BuyOK(buy[r]) /\ DOMAIN buy[r] = DOMAIN Idle
    BY <1>2, RequestMoves DEF RequestsHoldTheirRows, Open, TypeOK, BuyOK
  <2>2. CASE buy'[r] = buy[r]
    BY <2>1, <2>2 DEF Target
  <2>3. CASE \E code \in Code : buy'[r] = Done(code)
    BY <2>3 DEF Done, Idle
  <2>4. CASE buy'[r] = Committed(buy[r].op)
    BY <2>4 DEF Committed, Idle
  <2>5. CASE \E o \in PurchaseOps : buy'[r] = Begin(o)
    BY <2>5 DEF Begin, Idle
  <2>6. CASE /\ buy[r].pc = "loaded"
             /\ buy'[r] = [buy[r] EXCEPT !.pc = "resolved",
                              !.lines = {Line(id, config) : id \in Range(buy[r].op.items)}]
    <3>1. ReplacesItems(buy[r].op) /\ PurchaseBody(buy[r].op)
      BY <2>1, <2>6, PurchaseOpsAssumption DEF BuyOK
    <3>2. buy[r].op.items \in Seq(ConfigIds) /\ buy[r].op.items # <<>>
      BY <3>1 DEF ReplacesItems, PurchaseBody
    <3>3. 1 \in DOMAIN buy[r].op.items
      BY <3>2
    <3>4. Range(buy[r].op.items) # {}
      BY <3>3 DEF Range
    <3> QED
      BY <2>1, <2>6, <3>1, <3>4 DEF Idle, Target
  <2>7. CASE /\ buy[r].pc = "resolved"
             /\ buy'[r] = [buy[r] EXCEPT !.pc = "deleting", !.doomed = ItemsOf(Target(r))]
    BY <2>1, <2>7 DEF Idle, Target, ItemsOf
  <2>8. CASE /\ buy[r].pc = "deleting"
             /\ buy'[r] = [buy[r] EXCEPT !.pc = "ready", !.doomed = buy[r].doomed \cap items]
    BY <2>1, <2>8 DEF Idle, Target
  <2> HIDE DEF Holds
  <2> QED
    BY <2>1, <2>2, <2>3, <2>4, <2>5, <2>6, <2>7, <2>8 DEF Moves
<1> QED
  BY <1>1, <1>2, TypeCorrect, PTL DEF Spec

\* What a commit does to the items of one purchase.
LEMMA CommitItems ==
    ASSUME TypeOK, RequestsHoldTheirRows, NEW r \in Buyers, Commit(r), Insertable(r)
    PROVE  /\ \A q : q # Target(r) => ItemsOf(q)' = ItemsOf(q)
           /\ ReplacesItems(buy[r].op) =>
                 /\ buy[r].lines # {}
                 /\ \A q : q = Target(r) => ItemsOf(q)' = (ItemsOf(q) \ buy[r].doomed)
                                                         \cup ItemRows(q, buy[r].lines, r)
           /\ ~ReplacesItems(buy[r].op) => items' = items /\ buy[r].op.kind # "create"
<1>1. /\ buy[r].pc = "ready" /\ Open(r)
      /\ items' = (items \ buy[r].doomed) \cup ItemRows(Target(r), buy[r].lines, r)
  BY DEF Commit, Open
<1>2. \A i \in buy[r].doomed : i.purchase = Target(r)
  BY DEF RequestsHoldTheirRows
<1>3. \A i \in ItemRows(Target(r), buy[r].lines, r) : i.purchase = Target(r)
  BY DEF ItemRows
<1>4. ASSUME NEW q, q # Target(r) PROVE ItemsOf(q)' = ItemsOf(q)
  BY <1>1, <1>2, <1>3, <1>4 DEF ItemsOf
<1>5. ReplacesItems(buy[r].op) => buy[r].lines # {}
  BY <1>1 DEF RequestsHoldTheirRows
<1>6. ASSUME NEW q, q = Target(r)
      PROVE  ItemsOf(q)' = (ItemsOf(q) \ buy[r].doomed) \cup ItemRows(q, buy[r].lines, r)
  BY <1>1, <1>3, <1>6 DEF ItemsOf
<1>7. ASSUME ~ReplacesItems(buy[r].op) PROVE items' = items /\ buy[r].op.kind # "create"
  <2>1. buy[r].lines = {} /\ buy[r].doomed = {}
    BY <1>1, <1>7 DEF RequestsHoldTheirRows
  <2> QED
    BY <1>1, <1>7, <2>1 DEF ItemRows, ReplacesItems
<1> QED
  BY <1>4, <1>5, <1>6, <1>7

\* No interleaving of replacements leaves a purchase without a line.
THEOREM PurchasesNotEmpty == Spec => []NoEmptyPurchase
<1>1. Init => NoEmptyPurchase
  <2> SUFFICES ASSUME Init PROVE ItemsOf(Seed) # {}
    <3>1. Init => DOMAIN purchase = {Seed}
      BY DEF Init
    <3> QED
      BY <3>1 DEF NoEmptyPurchase
  <2>1. PICK id : id \in InitSelection
    BY InitAssumption
  <2>2. items = ItemRows(Seed, {Line(i, InitConfig) : i \in InitSelection}, Seed)
    BY DEF Init
  <2> DEFINE l == Line(id, InitConfig)
  <2>3. l \in {Line(i, InitConfig) : i \in InitSelection}
    BY <2>1
  <2> HIDE DEF l
  <2>4. [purchase |-> Seed, by |-> Seed, config |-> l.config, sale_price |-> l.sale_price,
         support_price |-> l.support_price] \in items
    BY <2>2, <2>3 DEF ItemRows
  <2> QED
    BY <2>4 DEF ItemsOf
<1>2. ASSUME TypeOK, RequestsMatchRows, RequestsHoldTheirRows, NoEmptyPurchase, [Next]_vars
      PROVE  NoEmptyPurchase'
  <2>1. CASE UNCHANGED <<purchase, items>>
    BY <1>2, <2>1 DEF NoEmptyPurchase, ItemsOf
  <2>2. ASSUME NEW r \in Buyers, Commit(r), Insertable(r) PROVE NoEmptyPurchase'
    <3> SUFFICES ASSUME NEW p \in DOMAIN purchase' PROVE ItemsOf(p)' # {}
      BY DEF NoEmptyPurchase
    <3>1. CASE p # Target(r)
      <4>1. p \in DOMAIN purchase /\ ItemsOf(p)' = ItemsOf(p)
        BY <1>2, <2>2, <3>1, CommitItems, CommitKeepsRows
      <4> QED
        BY <1>2, <4>1 DEF NoEmptyPurchase
    <3>2. CASE p = Target(r) /\ ReplacesItems(buy[r].op)
      <4>1. PICK l : l \in buy[r].lines
        BY <1>2, <2>2, <3>2, CommitItems
      <4>2. ItemRows(Target(r), buy[r].lines, r) # {}
        BY <4>1 DEF ItemRows
      <4>3. ItemsOf(p)' = (ItemsOf(p) \ buy[r].doomed) \cup ItemRows(p, buy[r].lines, r)
        BY <1>2, <2>2, <3>2, CommitItems
      <4> QED
        BY <3>2, <4>2, <4>3
    <3>3. CASE p = Target(r) /\ ~ReplacesItems(buy[r].op)
      <4>1. p \in DOMAIN purchase /\ items' = items
        BY <1>2, <2>2, <3>3, CommitItems, CommitKeepsRows
      <4> QED
        BY <1>2, <4>1 DEF NoEmptyPurchase, ItemsOf
    <3> QED BY <3>1, <3>2, <3>3
  <2> QED
    BY <1>2, <2>1, <2>2, TablesMove
<1> QED
  BY <1>1, <1>2, TypeCorrect, RowsMatch, RowsHeld, PTL DEF Spec

\* The history of offers only grows, and holds what is purchasable now.
LEMMA OfferedStep ==
    ASSUME Offers(config, isActive, lineage) \subseteq offered, [Next]_vars
    PROVE  offered \subseteq offered' /\ Offers(config', isActive', lineage') \subseteq offered'
<1>1. CASE UNCHANGED <<config, isActive, lineage, offered>>
  BY <1>1
<1>2. ASSUME NEW e \in Editors, CommitConfigs(e)
      PROVE  offered \subseteq offered' /\ Offers(config', isActive', lineage') \subseteq offered'
  BY <1>2 DEF CommitConfigs
<1>3. ASSUME NEW e \in Editors, CommitDelete(e)
      PROVE  offered \subseteq offered' /\ Offers(config', isActive', lineage') \subseteq offered'
  <2>1. \A id : Offers(Drop(config, id), isActive, lineage) \subseteq Offers(config, isActive, lineage)
    BY DEF Offers, Purchasable, Line, Drop
  <2> QED
    BY <1>3, <2>1 DEF CommitDelete
<1>4. ASSUME NEW n \in Switched, SetActive(n)
      PROVE  offered \subseteq offered' /\ Offers(config', isActive', lineage') \subseteq offered'
  BY <1>4 DEF SetActive
<1>5. ASSUME NEW s \in Moved, MoveService(s)
      PROVE  offered \subseteq offered' /\ Offers(config', isActive', lineage') \subseteq offered'
  BY <1>5 DEF MoveService
<1> QED
  BY <1>1, <1>2, <1>3, <1>4, <1>5, ZenonT(60)
     DEF Next, Proceed, Terminated, vars, dbVars, Load, Resolve, StartDelete, FinishDelete,
         Commit, Respond, Abort, LoadUpsert, LoadUpdate, LoadDelete

\* The lines a request resolves are on offer at that moment, so they are in the
\* history when it commits, whatever happened to the catalog in between.
THEOREM OffersKept == Spec => []OffersRemembered
<1>1. Init => OffersRemembered
  BY DEF Init, OffersRemembered, Idle
<1>2. ASSUME TypeOK, OffersRemembered, [Next]_vars PROVE OffersRemembered'
  <2>1. offered \subseteq offered' /\ Offers(config', isActive', lineage') \subseteq offered'
    BY <1>2, OfferedStep DEF OffersRemembered
  <2>2. ASSUME NEW r \in Buyers PROVE buy'[r].lines \subseteq offered'
    <3>1. Moves(r) /\ DOMAIN buy[r] = DOMAIN Idle /\ buy[r].lines \subseteq offered
      BY <1>2, RequestMoves DEF TypeOK, BuyOK, OffersRemembered
    <3>2. /\ \A code : Done(code).lines = {}
          /\ \A o : Begin(o).lines = {} /\ Committed(o).lines = {}
      BY DEF Done, Begin, Committed, Idle
    <3>3. CASE buy'[r].lines = {}
      BY <3>3
    <3>4. CASE buy'[r].lines = buy[r].lines
      BY <2>1, <3>1, <3>4
    <3>5. CASE /\ \A id \in Range(buy[r].op.items) : Purchasable(id, config, isActive, lineage)
               /\ buy'[r].lines = {Line(id, config) : id \in Range(buy[r].op.items)}
      <4>1. buy'[r].lines \subseteq Offers(config, isActive, lineage)
        BY <3>5 DEF Offers, Purchasable
      <4> QED
        BY <1>2, <2>1, <4>1 DEF OffersRemembered
    <3> QED
      BY <3>1, <3>2, <3>3, <3>4, <3>5 DEF Moves, Idle
  <2> QED
    BY <2>1, <2>2 DEF OffersRemembered
<1> QED
  BY <1>1, <1>2, TypeCorrect, PTL DEF Spec

\* Every line charges prices its config was really for sale at.
THEOREM LinesOffered == Spec => []LinesWereOffered
<1>1. ASSUME NEW lines \in SUBSET Lines, NEW p, NEW by, NEW i \in ItemRows(p, lines, by)
      PROVE  LineOf(i) \in lines
  <2>1. PICK l \in lines : i = [purchase |-> p, by |-> by, config |-> l.config,
                                sale_price |-> l.sale_price, support_price |-> l.support_price]
    BY DEF ItemRows
  <2>2. l \in Lines
    BY <2>1
  <2>3. LineOf(i) = l
    BY <2>1, <2>2 DEF LineOf, Lines
  <2> QED BY <2>1, <2>3
<1>2. Init => LinesWereOffered
  <2> SUFFICES ASSUME Init, NEW i \in items PROVE LineOf(i) \in offered
    BY DEF LinesWereOffered
  <2> DEFINE lines == {Line(id, InitConfig) : id \in InitSelection}
  <2>1. lines \in SUBSET Lines
    BY InitAssumption, LineOK DEF ConfigIds
  <2>2. LineOf(i) \in lines
    BY <1>1, <2>1 DEF Init
  <2>3. \A id \in InitSelection : Purchasable(id, InitConfig, isActive, lineage)
    BY InitAssumption, LineageAssumption DEF Init, Purchasable, ConfigRowOK, Nodes
  <2>4. lines \subseteq Offers(InitConfig, isActive, lineage)
    BY <2>3, InitAssumption DEF Offers
  <2> QED
    BY <2>2, <2>4 DEF Init
<1>3. ASSUME TypeOK, OffersRemembered, LinesWereOffered, [Next]_vars PROVE LinesWereOffered'
  <2>1. offered \subseteq offered'
    BY <1>3, OfferedStep DEF OffersRemembered
  <2>2. CASE UNCHANGED <<purchase, items>>
    BY <1>3, <2>1, <2>2 DEF LinesWereOffered
  <2>3. ASSUME NEW r \in Buyers, Commit(r), Insertable(r) PROVE LinesWereOffered'
    <3>1. items' = (items \ buy[r].doomed) \cup ItemRows(Target(r), buy[r].lines, r)
      BY <2>3 DEF Commit
    <3>2. buy[r].lines \in SUBSET Lines /\ buy[r].lines \subseteq offered
      BY <1>3 DEF TypeOK, BuyOK, OffersRemembered
    <3>3. \A i \in ItemRows(Target(r), buy[r].lines, r) : LineOf(i) \in offered
      BY <1>1, <3>2
    <3> QED
      BY <1>3, <2>1, <3>1, <3>3 DEF LinesWereOffered
  <2> QED
    BY <1>3, <2>2, <2>3, TablesMove
<1> QED
  BY <1>2, <1>3, TypeCorrect, OffersKept, PTL DEF Spec

(***************************************************************************)
(* What holds when requests on one purchase do not overlap: the totals are *)
(* the sums of the items, and Purchases implements PurchaseLedger.         *)
(***************************************************************************)

\* Flushing onto the very row that was loaded writes the row that was wanted.
LEMMA FlushFresh ==
    ASSUME NEW row, NEW new, PurchaseRowOK(row), PurchaseRowOK(new),
           new = [c \in PurchaseColumns |-> new[c]]
    PROVE  Flush(row, row, new) = new
BY DEF PurchaseRowOK, Flush, Dirty

\* The same for the row a deactivation wants, which keeps its totals too.
LEMMA FlushClosed ==
    ASSUME NEW row, PurchaseRowOK(row)
    PROVE  /\ Flush(row, row, [row EXCEPT !.is_active = FALSE]) = [row EXCEPT !.is_active = FALSE]
           /\ \A lines : Balanced(row, lines) => Balanced([row EXCEPT !.is_active = FALSE], lines)
BY DEF Flush, Dirty, Balanced, PurchaseRowOK, PurchaseColumns, TotalColumns

\* A step moves at most one request.
LEMMA OneMoves ==
    ASSUME TypeOK, [Next]_vars, NEW r \in Buyers, NEW s \in Buyers, r # s
    PROVE  buy'[r] = buy[r] \/ buy'[s] = buy[s]
<1>1. ASSUME NEW t \in Buyers, NEW b, buy' = [buy EXCEPT ![t] = b]
      PROVE  buy'[r] = buy[r] \/ buy'[s] = buy[s]
  BY <1>1 DEF TypeOK
<1>2. ASSUME NEW t \in Buyers,
             \/ \E o \in PurchaseOps : Load(t, o)
             \/ Proceed(t) \/ Abort(t)
      PROVE  \E b : buy' = [buy EXCEPT ![t] = b]
  <2>1. CASE \E o \in PurchaseOps : Load(t, o)
    BY <2>1 DEF Load
  <2>2. CASE Resolve(t)
    BY <2>2 DEF Resolve
  <2>3. CASE StartDelete(t)
    <3>1. buy' = [buy EXCEPT ![t] = [buy[t] EXCEPT !.pc = "deleting", !.doomed = ItemsOf(Target(t))]]
      BY <2>3 DEF StartDelete
    <3> QED BY <3>1
  <2>4. CASE FinishDelete(t)
    BY <2>4 DEF FinishDelete
  <2>5. CASE Commit(t)
    BY <2>5 DEF Commit
  <2>6. CASE Respond(t) \/ Abort(t)
    BY <2>6 DEF Respond, Abort
  <2> QED
    BY <1>2, <2>1, <2>2, <2>3, <2>4, <2>5, <2>6 DEF Proceed
<1>3. CASE UNCHANGED buy
  BY <1>3
<1> QED
  BY <1>1, <1>2, <1>3, ZenonT(60)
     DEF Next, Terminated, vars, LoadUpsert, LoadUpdate, LoadDelete,
         CommitConfigs, CommitDelete, SetActive, MoveService

\* A commit leaves the other purchases as they are, and their items.
LEMMA CommitOthers ==
    ASSUME TypeOK, RequestsMatchRows, RequestsHoldTheirRows,
           NEW r \in Buyers, Commit(r), Insertable(r), NEW q, q # Target(r)
    PROVE  /\ q \in DOMAIN purchase' <=> q \in DOMAIN purchase
           /\ q \in DOMAIN purchase => purchase'[q] = purchase[q]
           /\ ItemsOf(q)' = ItemsOf(q)
<1>1. ItemsOf(q)' = ItemsOf(q)
  BY CommitItems
<1>2. PICK row : purchase' = Put(purchase, Target(r), row)
  BY DEF Commit
<1> QED
  BY <1>1, <1>2 DEF Put

\* Without overlap no request ever works on a row that changed since it read it.
THEOREM NotStale == ASSUME ~Overlap PROVE Spec => []NothingStale
<1>1. Init => NothingStale
  BY DEF Init, NothingStale, Open, Idle
<1>2. ASSUME TypeOK, RequestsMatchRows, RequestsHoldTheirRows, NothingStale, [Next]_vars
      PROVE  NothingStale'
  <2>1. ASSUME NEW r \in Buyers, Open(r)', Open(r) PROVE Target(r)' = Target(r)
    BY <1>2, <2>1, KeepsRequest DEF Target
  <2>2. ASSUME NEW r \in Buyers, NEW s \in Buyers, r # s, Open(r)', Open(s)', ~Open(r)
        PROVE  Target(r)' # Target(s)'
    <3>1. PICK o \in PurchaseOps : Alone(o) /\ buy'[r] = Begin(o) /\ buy[r].pc = "idle"
      BY <1>2, <2>2, KeepsRequest
    <3>2. buy'[r] # buy[r]
      BY <2>2 DEF Open
    <3>3. buy'[s] = buy[s] /\ Open(s)
      BY <1>2, <2>2, <3>2, OneMoves DEF Open
    <3>4. Target(s)' = Target(s)
      BY <1>2, <2>1, <2>2, <3>3
    <3>5. CASE o.kind # "create"
      BY <3>1, <3>3, <3>4, <3>5 DEF Alone, Target, Begin, Idle
    <3>6. CASE o.kind = "create"
      <4>1. Target(r)' = r
        BY <3>1, <3>6 DEF Target, Begin, Idle
      <4>2. Target(s) # r
        BY <1>2, <2>2, <3>1, <3>3 DEF Target, TypeOK, TargetExists, RequestsMatchRows, Open
      <4> QED BY <3>4, <4>1, <4>2
    <3> QED BY <3>5, <3>6
  <2>3. ASSUME NEW r \in Buyers, NEW s \in Buyers, r # s, Open(r)', Open(s)'
        PROVE  Target(r)' # Target(s)'
    <3>1. CASE Open(r) /\ Open(s)
      BY <1>2, <2>1, <2>3, <3>1 DEF NothingStale
    <3> QED BY <2>2, <2>3, <3>1
  <2>4. ASSUME NEW r \in Buyers, Open(r)'
        PROVE  /\ buy'[r].op.kind # "create" => buy'[r].seen = purchase'[Target(r)']
               /\ buy'[r].pc \in {"deleting", "ready"} /\ ReplacesItems(buy'[r].op) =>
                     buy'[r].doomed = ItemsOf(Target(r))'
    <3>1. CASE ~Open(r)
      <4>1. PICK o \in PurchaseOps : Refusal(o) = NULL /\ buy'[r] = Begin(o) /\ UNCHANGED dbVars
        BY <1>2, <2>4, <3>1, KeepsRequest
      <4> QED
        BY <4>1 DEF Begin, Idle, Target, dbVars
    <3>2. CASE Open(r)
      <4>1. /\ buy'[r].op = buy[r].op /\ buy'[r].seen = buy[r].seen /\ Target(r)' = Target(r)
            /\ Moves(r) /\ DOMAIN buy[r] = DOMAIN Idle
        BY <1>2, <2>1, <2>4, <3>2, KeepsRequest, RequestMoves DEF TypeOK, BuyOK
      <4>2. \/ UNCHANGED <<purchase, items>>
            \/ \E s \in Buyers : s # r /\ Commit(s) /\ Insertable(s)
        <5>1. Commit(r) /\ Insertable(r) => ~Open(r)'
          BY <1>2 DEF Commit, Open, Committed, Idle, TypeOK
        <5> QED
          BY <1>2, <2>4, <5>1, TablesMove
      <4>3. /\ buy[r].op.kind # "create" => purchase'[Target(r)] = purchase[Target(r)]
            /\ \A q : q = Target(r) => ItemsOf(q)' = ItemsOf(q)
        <5>1. CASE UNCHANGED <<purchase, items>>
          BY <5>1 DEF ItemsOf
        <5>2. ASSUME NEW s \in Buyers, s # r, Commit(s), Insertable(s)
              PROVE  /\ buy[r].op.kind # "create" => purchase'[Target(r)] = purchase[Target(r)]
                     /\ \A q : q = Target(r) => ItemsOf(q)' = ItemsOf(q)
          <6>1. Target(s) # Target(r)
            BY <1>2, <3>2, <5>2 DEF NothingStale, Commit, Open
          <6>2. buy[r].op.kind # "create" => Target(r) \in DOMAIN purchase
            BY <1>2, <3>2 DEF TypeOK, TargetExists, Target, Open
          <6> QED
            BY <1>2, <5>2, <6>1, <6>2, CommitOthers
        <5> QED BY <4>2, <5>1, <5>2
      <4>4. buy'[r].op.kind # "create" => buy'[r].seen = purchase'[Target(r)']
        BY <1>2, <3>2, <4>1, <4>3 DEF NothingStale
      <4>5. ASSUME buy'[r].pc \in {"deleting", "ready"}, ReplacesItems(buy'[r].op)
            PROVE  buy'[r].doomed = ItemsOf(Target(r))'
        <5> DEFINE p == Target(r)
        <5>1. ItemsOf(Target(r))' = ItemsOf(p)
          BY <4>1, <4>3 DEF ItemsOf
        <5>2. CASE buy'[r] = buy[r]
          BY <1>2, <3>2, <4>5, <5>1, <5>2 DEF NothingStale
        <5>3. CASE buy'[r] = [buy[r] EXCEPT !.pc = "deleting", !.doomed = ItemsOf(Target(r))]
          BY <4>1, <5>1, <5>3 DEF Idle
        <5>4. CASE /\ buy[r].pc = "deleting"
                   /\ buy'[r] = [buy[r] EXCEPT !.pc = "ready", !.doomed = buy[r].doomed \cap items]
          <6>1. buy[r].doomed = ItemsOf(p)
            BY <1>2, <3>2, <4>1, <4>5, <5>4 DEF NothingStale
          <6> QED
            BY <4>1, <5>1, <5>4, <6>1 DEF Idle, ItemsOf
        <5>5. buy[r].pc # "idle" /\ buy'[r].pc # "resolved"
          BY <3>2, <4>5 DEF Open
        <5> QED
          BY <2>4, <4>1, <4>5, <5>2, <5>3, <5>4, <5>5
             DEF Moves, Open, Done, Committed, Idle
      <4> QED BY <4>4, <4>5
    <3> QED BY <3>1, <3>2
  <2> QED
    BY <2>3, <2>4 DEF NothingStale
<1> QED
  BY <1>1, <1>2, TypeCorrect, RowsMatch, RowsHeld, PTL DEF Spec

\* Assigning the totals of some lines balances a row with them.
LEMMA AssignTotals ==
    ASSUME NEW row, PurchaseRowOK(row), NEW lines
    PROVE  Balanced(Assign(row, Totals(lines)), lines)
<1>1. DOMAIN Totals(lines) = TotalColumns
  BY TotalsShape
<1> QED
  BY <1>1 DEF Balanced, Assign, PurchaseRowOK, PurchaseColumns, TotalColumns

\* Assigning the notes does not disturb the totals.
LEMMA AssignNotes ==
    ASSUME NEW row, PurchaseRowOK(row), NEW lines, Balanced(row, lines),
           NEW set, DOMAIN set \subseteq {"notes"}
    PROVE  Balanced(Assign(row, set), lines)
BY DEF Balanced, Assign, PurchaseRowOK, PurchaseColumns, TotalColumns

\* The lines of the item rows of some lines are those lines.
LEMMA LinesOfRows ==
    ASSUME NEW p, NEW by, NEW lines \in SUBSET Lines
    PROVE  {LineOf(i) : i \in ItemRows(p, lines, by)} = lines
<1>1. ASSUME NEW l \in lines
      PROVE  LineOf([purchase |-> p, by |-> by, config |-> l.config, sale_price |-> l.sale_price,
                     support_price |-> l.support_price]) = l
  <2>1. l \in Lines
    OBVIOUS
  <2> QED
    BY <2>1 DEF LineOf, Lines
<1> QED
  BY <1>1 DEF ItemRows

\* What a fresh commit leaves of its own purchase.
LEMMA CommitTarget ==
    ASSUME TypeOK, RequestsMatchRows, RequestsHoldTheirRows, NothingStale,
           ItemsUnderOwnCustomer, TotalsMatchItems,
           NEW r \in Buyers, Commit(r), Insertable(r), NEW p, p = Target(r)
    PROVE  /\ p \in DOMAIN purchase'
           /\ purchase'[p] = Wanted(r)
           /\ IF ReplacesItems(buy[r].op) THEN LinesOf(p)' = buy[r].lines
                                          ELSE LinesOf(p)' = LinesOf(p)
           /\ Balanced(purchase'[p], LinesOf(p)')
<1> DEFINE o == buy[r].op
<1>1. /\ buy[r].pc = "ready" /\ Open(r) /\ BuyOK(buy[r]) /\ o \in PurchaseOps /\ PurchaseBody(o)
      /\ PurchaseRowOK(Wanted(r))
  <2>1. buy[r].pc = "ready" /\ BuyOK(buy[r])
    BY DEF Commit, TypeOK
  <2> QED
    BY <2>1, PurchaseOpsAssumption, WantedOK DEF Open, BuyOK
<1>2. o.kind # "create" => /\ p \in DOMAIN purchase /\ buy[r].seen = purchase[p]
                           /\ PurchaseRowOK(buy[r].seen)
  BY <1>1 DEF NothingStale, TypeOK, TargetExists, Target
<1>3. p \in DOMAIN purchase' /\ purchase'[p] = Wanted(r)
  <2>1. CASE o.kind = "create"
    BY <2>1 DEF Commit, Put
  <2>2. CASE o.kind # "create"
    <3>1. purchase' = Put(purchase, p, Flush(purchase[p], purchase[p], Wanted(r)))
      BY <1>2, <2>2 DEF Commit
    <3>2. Flush(purchase[p], purchase[p], Wanted(r)) = Wanted(r)
      <4>1. CASE o.kind = "update"
        <5>1. Wanted(r) = [c \in PurchaseColumns |-> Wanted(r)[c]]
          BY <1>2, <2>2, <4>1 DEF Wanted, Assign, PurchaseRowOK
        <5> QED
          BY <1>1, <1>2, <2>2, <5>1, FlushFresh
      <4>2. CASE o.kind = "deactivate"
        BY <1>2, <2>2, <4>2, FlushClosed DEF Wanted
      <4> QED
        BY <1>1, <2>2, <4>1, <4>2 DEF PurchaseBody
    <3> QED
      BY <3>1, <3>2 DEF Put
  <2> QED BY <2>1, <2>2
<1>4. CASE ReplacesItems(o)
  <2>1. buy[r].doomed = ItemsOf(p)
    BY <1>1, <1>4 DEF NothingStale
  <2>2. ItemsOf(p)' = ItemRows(p, buy[r].lines, r)
    <3>1. ItemsOf(p)' = (ItemsOf(p) \ buy[r].doomed) \cup ItemRows(p, buy[r].lines, r)
      BY <1>4, CommitItems
    <3> QED
      BY <2>1, <3>1
  <2>3. LinesOf(p)' = buy[r].lines
    <3>1. buy[r].lines \in SUBSET Lines
      BY <1>1 DEF BuyOK
    <3> QED
      BY <2>2, <3>1, LinesOfRows DEF LinesOf
  <2>4. Balanced(Wanted(r), buy[r].lines)
    <3>1. CASE o.kind = "create"
      BY <1>1, <3>1, NewPurchaseOK DEF Wanted, PurchaseBody
    <3>2. CASE o.kind # "create"
      <4>1. o.kind = "update"
        BY <1>4, <3>2 DEF ReplacesItems
      <4>2. PurchaseRowOK(Assign(buy[r].seen, o.set))
        BY <1>1, <1>2, <4>1, AssignOK DEF PurchaseBody
      <4> QED
        BY <1>4, <4>1, <4>2, AssignTotals DEF Wanted
    <3> QED BY <3>1, <3>2
  <2> QED
    BY <1>3, <1>4, <2>3, <2>4
<1>5. CASE ~ReplacesItems(o)
  <2>1. items' = items /\ o.kind # "create"
    BY <1>5, CommitItems
  <2>2. LinesOf(p)' = LinesOf(p)
    BY <2>1 DEF LinesOf, ItemsOf
  <2>3. Balanced(buy[r].seen, LinesOf(p))
    BY <1>2, <2>1 DEF TotalsMatchItems
  <2>4. Balanced(Wanted(r), LinesOf(p))
    <3>1. CASE o.kind = "update"
      BY <1>1, <1>2, <1>5, <2>1, <2>3, <3>1, AssignNotes DEF Wanted, PurchaseBody
    <3>2. CASE o.kind = "deactivate"
      BY <1>2, <2>1, <2>3, <3>2, FlushClosed DEF Wanted
    <3> QED
      BY <1>1, <2>1, <3>1, <3>2 DEF PurchaseBody
  <2> QED
    BY <1>3, <1>5, <2>2, <2>4
<1> QED BY <1>3, <1>4, <1>5

\* The header of every purchase is the sum of its items, as long as requests on
\* one purchase do not overlap.
THEOREM TotalsExact == ASSUME ~Overlap PROVE Spec => []TotalsMatchItems
<1>1. Init => TotalsMatchItems
  <2> SUFFICES ASSUME Init PROVE Balanced(purchase[Seed], LinesOf(Seed))
    <3>1. Init => DOMAIN purchase = {Seed}
      BY DEF Init
    <3> QED
      BY <3>1 DEF TotalsMatchItems
  <2> DEFINE lines == {Line(id, InitConfig) : id \in InitSelection}
  <2>1. lines \in SUBSET Lines
    BY InitAssumption, LineOK DEF ConfigIds
  <2>2. purchase[Seed] = NewPurchase(InitOwner, NULL, lines) /\ items = ItemRows(Seed, lines, Seed)
    BY DEF Init
  <2> HIDE DEF lines
  <2>3. ItemsOf(Seed) = ItemRows(Seed, lines, Seed)
    BY <2>2 DEF ItemsOf, ItemRows
  <2>4. LinesOf(Seed) = lines
    BY <2>1, <2>3, LinesOfRows DEF LinesOf
  <2> QED
    BY <2>2, <2>4, NewPurchaseOK, InitAssumption
<1>2. ASSUME TypeOK, RequestsMatchRows, RequestsHoldTheirRows, NothingStale,
             ItemsUnderOwnCustomer, TotalsMatchItems, [Next]_vars
      PROVE  TotalsMatchItems'
  <2>1. CASE UNCHANGED <<purchase, items>>
    BY <1>2, <2>1 DEF TotalsMatchItems, LinesOf, ItemsOf
  <2>2. ASSUME NEW r \in Buyers, Commit(r), Insertable(r) PROVE TotalsMatchItems'
    <3> SUFFICES ASSUME NEW p \in DOMAIN purchase' PROVE Balanced(purchase'[p], LinesOf(p)')
      BY DEF TotalsMatchItems
    <3>1. CASE p = Target(r)
      BY <1>2, <2>2, <3>1, CommitTarget
    <3>2. CASE p # Target(r)
      <4>1. p \in DOMAIN purchase /\ purchase'[p] = purchase[p] /\ ItemsOf(p)' = ItemsOf(p)
        BY <1>2, <2>2, <3>2, CommitOthers
      <4> QED
        BY <1>2, <4>1 DEF TotalsMatchItems, LinesOf
    <3> QED BY <3>1, <3>2
  <2> QED
    BY <1>2, <2>1, <2>2, TablesMove
<1> QED
  BY <1>1, <1>2, TypeCorrect, RowsMatch, RowsHeld, NotStale, ItemsOwned, PTL DEF Spec

\* The effect of a commit on the ledger's entries: its own entry becomes
\* [row |-> Wanted(r), lines |-> ...], every other entry stays.
LEMMA CommitEntries ==
    ASSUME TypeOK, RequestsMatchRows, RequestsHoldTheirRows, NothingStale,
           ItemsUnderOwnCustomer, TotalsMatchItems,
           NEW r \in Buyers, Commit(r), Insertable(r), NEW p, p = Target(r)
    PROVE  /\ Ledger!Only(p)
           /\ p \in DOMAIN entries <=> buy[r].op.kind # "create"
           /\ p \in DOMAIN entries => entries[p] = [row |-> purchase[p], lines |-> LinesOf(p)]
           /\ p \in DOMAIN entries'
           /\ entries'[p].row = Wanted(r)
           /\ entries'[p].lines = IF ReplacesItems(buy[r].op) THEN buy[r].lines ELSE LinesOf(p)
           /\ entries'[p] = [row |-> entries'[p].row, lines |-> entries'[p].lines]
           /\ Balanced(entries'[p].row, entries'[p].lines)
<1>1. /\ DOMAIN purchase' = DOMAIN purchase \cup {p}
      /\ p \in DOMAIN purchase <=> buy[r].op.kind # "create"
  BY CommitKeepsRows
<1>2. /\ DOMAIN entries = DOMAIN purchase /\ DOMAIN entries' = DOMAIN purchase'
      /\ \A q \in DOMAIN purchase : entries[q] = [row |-> purchase[q], lines |-> LinesOf(q)]
      /\ \A q \in DOMAIN purchase' : entries'[q] = [row |-> purchase'[q], lines |-> LinesOf(q)']
  BY DEF entries
<1>3. /\ purchase'[p] = Wanted(r)
      /\ LinesOf(p)' = IF ReplacesItems(buy[r].op) THEN buy[r].lines ELSE LinesOf(p)
      /\ Balanced(purchase'[p], LinesOf(p)')
  BY CommitTarget
<1>4. ASSUME NEW q \in DOMAIN purchase, q # p PROVE entries'[q] = entries[q]
  <2>1. q \in DOMAIN purchase' /\ purchase'[q] = purchase[q] /\ ItemsOf(q)' = ItemsOf(q)
    BY <1>4, CommitOthers
  <2>2. LinesOf(q)' = LinesOf(q)
    BY <2>1 DEF LinesOf
  <2> QED BY <1>2, <2>1, <2>2
<1>5. Ledger!Only(p)
  BY <1>1, <1>2, <1>4 DEF Ledger!Only
<1>6. p \in DOMAIN purchase' /\ entries'[p] = [row |-> purchase'[p], lines |-> LinesOf(p)']
  BY <1>1, <1>2
<1>7. entries'[p].row = purchase'[p] /\ entries'[p].lines = LinesOf(p)'
  BY <1>6
<1>8. entries'[p] = [row |-> entries'[p].row, lines |-> entries'[p].lines]
  BY <1>6, <1>7
<1>9. /\ p \in DOMAIN entries <=> buy[r].op.kind # "create"
      /\ p \in DOMAIN entries => entries[p] = [row |-> purchase[p], lines |-> LinesOf(p)]
      /\ p \in DOMAIN entries'
  BY <1>1, <1>2
<1>10. /\ entries'[p].row = Wanted(r)
       /\ entries'[p].lines = IF ReplacesItems(buy[r].op) THEN buy[r].lines ELSE LinesOf(p)
       /\ Balanced(entries'[p].row, entries'[p].lines)
  BY <1>3, <1>7
<1> QED
  BY <1>5, <1>8, <1>9, <1>10

\* Purchases implements the ledger of atomic requests: every commit is an Open,
\* an Amend or a Close of one entry, and nothing else touches the entries.
THEOREM LedgerImplemented == ASSUME ~Overlap PROVE Spec => ImplementsLedger
<1>1. TotalsMatchItems => Ledger!Init
  BY DEF TotalsMatchItems, Ledger!Init, entries
<1>2. ASSUME TypeOK, RequestsMatchRows, RequestsHoldTheirRows, NothingStale,
             ItemsUnderOwnCustomer, TotalsMatchItems, NoEmptyPurchase, [Next]_vars
      PROVE  [Ledger!Next]_entries
  <2>1. CASE UNCHANGED <<purchase, items>>
    BY <2>1 DEF entries, LinesOf, ItemsOf
  <2>2. ASSUME NEW r \in Buyers, Commit(r), Insertable(r) PROVE Ledger!Next
    <3> DEFINE o == buy[r].op
               p == Target(r)
    <3>1. /\ buy[r].pc = "ready" /\ Open(r) /\ PurchaseBody(o) /\ p \in PurchaseIds
          /\ PurchaseRowOK(Wanted(r)) /\ Wanted(r).customer_id = Owner(r)
          /\ o.kind = "create" => Wanted(r).is_active
          /\ o.kind = "update" => Wanted(r).is_active = buy[r].seen.is_active
      <4>1. buy[r].pc = "ready" /\ PurchaseBody(o)
        BY <1>2, <2>2, PurchaseOpsAssumption DEF Commit, TypeOK, BuyOK
      <4> QED
        BY <1>2, <4>1, WantedOK DEF Open, Target, PurchaseBody, PurchaseIds
    <3>2. o.kind # "create" => /\ buy[r].seen = purchase[p] /\ purchase[p].is_active
                               /\ p \in DOMAIN purchase /\ LinesOf(p) # {}
                               /\ Owner(r) = purchase[p].customer_id
      <4> SUFFICES ASSUME o.kind # "create" PROVE
                 /\ buy[r].seen = purchase[p] /\ purchase[p].is_active
                 /\ p \in DOMAIN purchase /\ LinesOf(p) # {}
                 /\ Owner(r) = purchase[p].customer_id
        OBVIOUS
      <4>1. /\ p = o.purchase /\ p \in DOMAIN purchase /\ buy[r].seen = purchase[p]
            /\ Owner(r) = buy[r].seen.customer_id
        BY <1>2, <3>1 DEF NothingStale, TypeOK, TargetExists, Target, Owner
      <4>2. purchase[p].is_active
        BY <1>2, <3>1, <4>1 DEF RequestsMatchRows
      <4>3. LinesOf(p) # {}
        BY <1>2, <4>1 DEF NoEmptyPurchase, LinesOf
      <4> QED BY <4>1, <4>2, <4>3
    <3>3. /\ Ledger!Only(p)
          /\ p \in DOMAIN entries <=> o.kind # "create"
          /\ p \in DOMAIN entries => entries[p] = [row |-> purchase[p], lines |-> LinesOf(p)]
          /\ p \in DOMAIN entries'
          /\ entries'[p].row = Wanted(r)
          /\ entries'[p].lines = IF ReplacesItems(o) THEN buy[r].lines ELSE LinesOf(p)
          /\ entries'[p] = [row |-> entries'[p].row, lines |-> entries'[p].lines]
          /\ Balanced(entries'[p].row, entries'[p].lines)
      BY <1>2, <2>2, CommitEntries
    <3>4. ReplacesItems(o) => buy[r].lines # {}
      BY <1>2, <2>2, CommitItems
    <3> HIDE DEF o, p
    <3>5. CASE o.kind = "create"
      <4>1. ReplacesItems(o)
        BY <3>5 DEF ReplacesItems
      <4>2. Ledger!Settled(p)
        BY <3>1, <3>3, <3>4, <3>5, <4>1 DEF Ledger!Settled
      <4>3. Ledger!Open(p)
        BY <3>3, <3>5, <4>2 DEF Ledger!Open
      <4> QED
        BY <3>1, <4>3 DEF Ledger!Next
    <3>6. CASE o.kind = "update"
      <4>1. Ledger!Settled(p)
        BY <3>1, <3>2, <3>3, <3>4, <3>6 DEF Ledger!Settled
      <4>2. /\ entries[p].row.is_active
            /\ entries'[p].row.customer_id = entries[p].row.customer_id
        BY <3>1, <3>2, <3>3, <3>6
      <4>3. Ledger!Amend(p)
        BY <3>3, <3>6, <4>1, <4>2 DEF Ledger!Amend
      <4> QED
        BY <3>1, <4>3 DEF Ledger!Next
    <3>7. CASE o.kind = "deactivate"
      <4>1. Wanted(r) = [purchase[p] EXCEPT !.is_active = FALSE] /\ ~ReplacesItems(o)
        BY <3>2, <3>7 DEF Wanted, ReplacesItems, o
      <4>2. entries'[p] = [entries[p] EXCEPT !.row.is_active = FALSE]
        BY <3>2, <3>3, <3>7, <4>1
      <4>3. Ledger!Close(p)
        BY <3>2, <3>3, <3>7, <4>2 DEF Ledger!Close
      <4> QED
        BY <3>1, <4>3 DEF Ledger!Next
    <3> QED
      BY <3>1, <3>5, <3>6, <3>7 DEF PurchaseBody
  <2> QED
    BY <1>2, <2>1, <2>2, TablesMove
<1> QED
  BY <1>1, <1>2, TypeCorrect, RowsMatch, RowsHeld, NotStale, ItemsOwned, TotalsExact,
     PurchasesNotEmpty, PTL DEF Spec, ImplementsLedger, Ledger!Spec
==============================================================================
