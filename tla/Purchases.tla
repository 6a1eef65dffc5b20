------------------------------ MODULE Purchases ------------------------------
(***************************************************************************)
(* Service purchases and the customer service configs they are priced      *)
(* from (src/app/modules/service_catalog/service.py).                      *)
(*                                                                         *)
(* Requests run in a thread pool, each with its own database session, so a *)
(* request is cut at its database calls: what it read before a call it     *)
(* still believes after it.  The database runs at READ COMMITTED; the two  *)
(* facts of it that matter are in StartDelete and Commit.                  *)
(*                                                                         *)
(* An operator named X_Defect before an operator X is X with a plausible   *)
(* bug.  Nothing uses it: TLC runs with it in place of X show that the     *)
(* properties of PurchaseProps notice the bug.                             *)
(***************************************************************************)
EXTENDS Integers, FiniteSets, FiniteSetsExt, Sequences, Functions, Orm

CONSTANTS
    NULL,          \* SQL NULL: a config may carry no sale price
    Customers, Services,
    Projects, Groups,   \* service projects and service groups
    Admin,         \* caller with the admin role and a local user row
    TokenAdmin,    \* caller with the admin role by its token only (id is None)
    Buyers,        \* requests to the purchase endpoints, each handled once
    Editors,       \* requests to the config endpoints, each handled once
    Seed,          \* stands for the request that wrote the initial rows
    PurchaseOps,   \* bodies a buyer may send
    ConfigOps,     \* bodies an editor may send
    Switched,      \* customers, services, projects and groups that get (de)activated
    Moved,         \* services that get moved to another project or group
    InitLineage,   \* the project and the group of every service at first
    InitConfig,    \* the configs that exist at first
    InitOwner, InitSelection,   \* the purchase that exists at first
    Overlap        \* may two requests work on one purchase at the same time

ConfigIds   == (Editors \cup {Seed}) \X Services
PurchaseIds == Buyers \cup {Seed}
Nodes       == Customers \cup Services \cup Projects \cup Groups

(***************************************************************************)
(* The arithmetic of a purchase.  A line is one selected config with the   *)
(* prices it had when it was selected; the four header columns of the      *)
(* purchase row are computed from the lines.                               *)
(***************************************************************************)

OrZero(price) == IF price = NULL THEN 0 ELSE price

\* CustomerServicePurchaseService._calculate_totals and the selected_count
\* assigned beside it.  The selection was checked for duplicates, so a set of
\* lines and the list it came from have the same sum and the same length.
Totals(lines) ==
    LET sale    == MapThenSumSet(LAMBDA l : OrZero(l.sale_price), lines)
        support == MapThenSumSet(LAMBDA l : l.support_price, lines)
    IN  [sale_total     |-> sale,
         support_total  |-> support,
         grand_total    |-> sale + support,
         selected_count |-> Cardinality(lines)]

\* The header columns of `row` are those of `lines`.
Balanced(row, lines) ==
    /\ row.sale_total     = Totals(lines).sale_total
    /\ row.support_total  = Totals(lines).support_total
    /\ row.grand_total    = Totals(lines).grand_total
    /\ row.selected_count = Totals(lines).selected_count

(***************************************************************************)
(* What the columns and the request bodies are like.                       *)
(***************************************************************************)

Price == Nat \cup {NULL}

ConfigColumns == {"customer_id", "service_id", "is_enabled", "sale_price", "support_price"}

ConfigRowOK(row) ==
    /\ DOMAIN row = ConfigColumns
    /\ row.customer_id \in Customers /\ row.service_id \in Services
    /\ row.is_enabled \in BOOLEAN
    /\ row.sale_price \in Price /\ row.support_price \in Nat

\* CustomerServicePurchaseCreate and -Update: the items are a list, empty here
\* for a body without items; a PATCH can set the notes and nothing else beside.
PurchaseBody(o) ==
    \/ /\ o.kind = "create"
       /\ o.customer \in Customers /\ o.items \in Seq(ConfigIds) \ {<<>>}
    \/ /\ o.kind = "update"
       /\ o.purchase \in PurchaseIds
       /\ DOMAIN o.set \subseteq {"notes"} /\ o.items \in Seq(ConfigIds)
    \/ o.kind = "deactivate" /\ o.purchase \in PurchaseIds

\* CustomerServiceConfigCreate and -Update.
ConfigBody(o) ==
    \/ /\ o.kind = "upsert"
       /\ o.customer \in Customers /\ DOMAIN o.rows \subseteq Services
       /\ \A s \in DOMAIN o.rows :
             o.rows[s] \in [is_enabled : BOOLEAN, sale_price : Price, support_price : Nat]
    \/ /\ o.kind = "update"
       /\ o.config \in ConfigIds
       /\ DOMAIN o.set \subseteq {"is_enabled", "sale_price", "support_price"}
       /\ "is_enabled" \in DOMAIN o.set => o.set.is_enabled \in BOOLEAN \cup {NULL}
       /\ "sale_price" \in DOMAIN o.set => o.set.sale_price \in Price
       /\ "support_price" \in DOMAIN o.set => o.set.support_price \in Price
    \/ o.kind = "delete" /\ o.config \in ConfigIds

ASSUME SeedAssumption == Seed \notin Buyers \cup Editors
ASSUME NullAssumption == NULL \notin Nat
ASSUME LineageAssumption == InitLineage \in [Services -> [project : Projects, group : Groups]]
ASSUME PurchaseOpsAssumption == \A o \in PurchaseOps : PurchaseBody(o)
ASSUME ConfigOpsAssumption == \A o \in ConfigOps : ConfigBody(o)
ASSUME SwitchedAssumption == Switched \subseteq Nodes /\ Moved \subseteq Services

\* The initial purchase is one that create() could have made.
ASSUME InitAssumption ==
    /\ DOMAIN InitConfig \subseteq {Seed} \X Services
    /\ \A id \in DOMAIN InitConfig : ConfigRowOK(InitConfig[id])
    /\ InitOwner \in Customers
    /\ InitSelection # {} /\ InitSelection \subseteq DOMAIN InitConfig
    /\ \A id \in InitSelection : /\ InitConfig[id].is_enabled
                                 /\ InitConfig[id].customer_id = InitOwner

VARIABLES
    isActive,   \* the is_active column of customers, services, projects, groups
    lineage,    \* the project_id and group_id columns of services
    config,     \* customer_service_configs: the rows, by id
    purchase,   \* customer_service_purchases: the rows, by id
    items,      \* customer_service_purchase_items
    buy,        \* what each purchase request has read and assigned so far
    edit,       \* the same for each config request
    offered     \* history: every (config, prices) that was ever purchasable

dbVars == <<isActive, lineage, config, purchase, items>>
vars   == <<isActive, lineage, config, purchase, items, buy, edit, offered>>

(***************************************************************************)
(* Rows.                                                                   *)
(***************************************************************************)

Line(id, cfg) == [config        |-> id,
                  sale_price    |-> cfg[id].sale_price,
                  support_price |-> cfg[id].support_price]

\* CustomerServicePurchaseSelectionPolicy: enabled, and the service, its group
\* and its project all active.
Purchasable(id, cfg, act, lin) ==
    /\ id \in DOMAIN cfg
    /\ cfg[id].is_enabled
    /\ act[cfg[id].service_id]
    /\ act[lin[cfg[id].service_id].project]
    /\ act[lin[cfg[id].service_id].group]

Offers(cfg, act, lin) ==
    {Line(id, cfg) : id \in {i \in DOMAIN cfg : Purchasable(i, cfg, act, lin)}}

\* The item rows a request inserts.  `by` tells the rows of two requests apart,
\* as their ids do in the table.
ItemRows(p, lines, by) ==
    {[purchase |-> p, by |-> by, config |-> l.config, sale_price |-> l.sale_price,
      support_price |-> l.support_price] : l \in lines}

ItemsOf(p) == {i \in items : i.purchase = p}

LineOf(i) == [config |-> i.config, sale_price |-> i.sale_price,
              support_price |-> i.support_price]

LinesOf(p) == {LineOf(i) : i \in ItemsOf(p)}

\* The row create() adds, once _replace_purchase_items has assigned the totals.
NewPurchase(customer, notes, lines) ==
    [customer_id    |-> customer,
     notes          |-> notes,
     sale_total     |-> Totals(lines).sale_total,
     support_total  |-> Totals(lines).support_total,
     grand_total    |-> Totals(lines).grand_total,
     selected_count |-> Totals(lines).selected_count,
     is_active      |-> TRUE]

Idle == [pc |-> "idle", op |-> NULL, seen |-> NULL, lines |-> {}, doomed |-> {},
         code |-> NULL]
Done(code) == [Idle EXCEPT !.pc = "done", !.code = code]

EditIdle == [pc |-> "idle", op |-> NULL, seen |-> <<>>, want |-> <<>>, code |-> NULL]
EditDone(code) == [EditIdle EXCEPT !.pc = "done", !.code = code]

Init ==
    LET lines == {Line(id, InitConfig) : id \in InitSelection} IN
    /\ isActive = [n \in Nodes |-> TRUE]
    /\ lineage = InitLineage
    /\ config = InitConfig
    /\ purchase = [p \in {Seed} |-> NewPurchase(InitOwner, NULL, lines)]
    /\ items = ItemRows(Seed, lines, Seed)
    /\ buy = [r \in Buyers |-> Idle]
    /\ edit = [e \in Editors |-> EditIdle]
    /\ offered = Offers(InitConfig, isActive, InitLineage)

(***************************************************************************)
(* Purchase requests.  The stages of one request, in order:                *)
(*   idle -> loaded -> resolved -> deleting -> ready -> committed -> done  *)
(* A PATCH without items and a DELETE go from idle to ready.               *)
(***************************************************************************)

Target(r) == IF buy[r].op.kind = "create" THEN r ELSE buy[r].op.purchase

\* The customer whose configs the selection is resolved against.
Owner(r) == IF buy[r].op.kind = "create" THEN buy[r].op.customer
                                         ELSE buy[r].seen.customer_id

\* The session of r is open: its transaction neither committed nor rolled back.
Open(r) == buy[r].pc \notin {"idle", "committed", "done"}

ReplacesItems_AlsoWithoutItems(o) == o.kind # "deactivate"
ReplacesItems(o) == o.kind = "create" \/ (o.kind = "update" /\ o.items # <<>>)

\* CustomerScopedAccessPolicy: admins, and the users of that customer.
MayAccess(caller, customer) == caller \in {Admin, TokenAdmin, customer}

\* _get_purchase_or_404 and the check of its customer.
Visible_Inactive(row) == isActive[row.customer_id]
Visible(row) == row.is_active /\ isActive[row.customer_id]

\* The early returns before anything is read of the catalog.
Refusal(o) ==
    IF o.kind = "create"
    THEN IF o.caller = TokenAdmin                           THEN 403
         ELSE IF ~isActive[o.customer]                      THEN 404
         ELSE IF ~MayAccess(o.caller, o.customer)           THEN 403
         ELSE NULL
    ELSE IF o.purchase \notin DOMAIN purchase               THEN 404
         ELSE LET row == purchase[o.purchase] IN
              IF ~Visible(row)                              THEN 404
              ELSE IF ~MayAccess(o.caller, row.customer_id) THEN 403
              ELSE NULL

\* The assumption under which the totals are exact: no other open request has
\* the purchase of this one as its target.
Alone(o) == o.kind # "create" => \A r \in Buyers : Open(r) => Target(r) # o.purchase

\* What a request holds once it is let through, and once it has committed.
Begin(o) == [Idle EXCEPT !.pc   = IF ReplacesItems(o) THEN "loaded" ELSE "ready",
                         !.op   = o,
                         !.seen = IF o.kind = "create" THEN NULL ELSE purchase[o.purchase]]
Committed(o) == [Idle EXCEPT !.pc = "committed", !.op = o]

\* A request arrives: it is refused, or it loads its purchase row.
Load(r, o) ==
    /\ buy[r].pc = "idle"
    /\ ~Overlap => Alone(o)
    /\ buy' = [buy EXCEPT ![r] =
                 IF Refusal(o) # NULL THEN Done(Refusal(o)) ELSE Begin(o)]
    /\ UNCHANGED <<dbVars, edit, offered>>

\* A config that request r may select: its customer's, and purchasable now.
Selectable_OfAnyCustomer(r, id) == Purchasable(id, config, isActive, lineage)
Selectable_NotForSale(r, id) == id \in DOMAIN config /\ config[id].customer_id = Owner(r)
Selectable(r, id) == /\ Purchasable(id, config, isActive, lineage)
                     /\ config[id].customer_id = Owner(r)

\* resolve_items, one SELECT: every selected config is named once and selectable,
\* or the request ends with 422 and its session is rolled back.
Resolve(r) ==
    LET ids == Range(buy[r].op.items)
        valid == /\ IsInjective(buy[r].op.items)
                 /\ \A id \in ids : Selectable(r, id)
    IN  /\ buy[r].pc = "loaded"
        /\ buy' = [buy EXCEPT ![r] =
                     IF valid THEN [@ EXCEPT !.pc = "resolved",
                                             !.lines = {Line(id, config) : id \in ids}]
                              ELSE Done(422)]
        /\ UNCHANGED <<dbVars, edit, offered>>

\* DELETE ... WHERE customer_service_purchase_id = p starts: its snapshot holds
\* the rows committed by now.
StartDelete_KeepsOldRows(r) ==
    /\ buy[r].pc = "resolved"
    /\ buy' = [buy EXCEPT ![r].pc = "deleting"]
    /\ UNCHANGED <<dbVars, edit, offered>>

StartDelete(r) ==
    /\ buy[r].pc = "resolved"
    /\ buy' = [buy EXCEPT ![r].pc = "deleting", ![r].doomed = ItemsOf(Target(r))]
    /\ UNCHANGED <<dbVars, edit, offered>>

\* It waits for every row of its snapshot that another open transaction has
\* deleted, then deletes what is left of the snapshot.  Rows inserted in the
\* meantime are not in the snapshot and stay.
FinishDelete(r) ==
    /\ buy[r].pc = "deleting"
    /\ \A s \in Buyers \ {r} : buy[s].pc = "ready" => buy[s].doomed \cap buy[r].doomed = {}
    /\ buy' = [buy EXCEPT ![r].pc = "ready", ![r].doomed = @ \cap items]
    /\ UNCHANGED <<dbVars, edit, offered>>

\* The purchase row as the session of r holds it when it commits.
Wanted(r) ==
    LET o == buy[r].op IN
    CASE o.kind = "create"     -> NewPurchase(o.customer, o.notes, buy[r].lines)
      [] o.kind = "update"     -> LET row == Assign(buy[r].seen, o.set) IN
                                  IF ReplacesItems(o) THEN Assign(row, Totals(buy[r].lines))
                                                      ELSE row
      [] o.kind = "deactivate" -> [buy[r].seen EXCEPT !.is_active = FALSE]

\* The foreign key to the config and the unique (purchase, config) key.
Insertable(r) ==
    \A l \in buy[r].lines :
        /\ l.config \in DOMAIN config
        /\ \A i \in ItemsOf(Target(r)) \ buy[r].doomed : i.config # l.config

\* Flush and commit; an integrity error rolls everything back and answers 409.
Commit(r) ==
    LET p == Target(r) IN
    /\ buy[r].pc = "ready"
    /\ \/ /\ Insertable(r)
          /\ purchase' = Put(purchase, p, IF buy[r].op.kind = "create" THEN Wanted(r)
                              ELSE Flush(purchase[p], buy[r].seen, Wanted(r)))
          /\ items' = (items \ buy[r].doomed) \cup ItemRows(p, buy[r].lines, r)
          /\ buy' = [buy EXCEPT ![r] = Committed(buy[r].op)]
       \/ /\ ~Insertable(r)
          /\ buy' = [buy EXCEPT ![r] = Done(409)]
          /\ UNCHANGED <<purchase, items>>
    /\ UNCHANGED <<isActive, lineage, config, edit, offered>>

\* The answer re-reads the purchase and checks its customer again, so a request
\* whose commit went through can still answer 404.
Respond(r) ==
    /\ buy[r].pc = "committed"
    /\ buy' = [buy EXCEPT ![r] =
                 Done(IF isActive[purchase[Target(r)].customer_id] THEN 200 ELSE 404)]
    /\ UNCHANGED <<dbVars, edit, offered>>

\* The process dies, the connection is lost or the database picks r as a
\* deadlock victim: the session closes without commit.
Abort(r) ==
    /\ Open(r)
    /\ buy' = [buy EXCEPT ![r] = Done(500)]
    /\ UNCHANGED <<dbVars, edit, offered>>

(***************************************************************************)
(* Config requests and (de)activation.                                     *)
(***************************************************************************)

ConfigsOf(customer, services) ==
    {id \in DOMAIN config : /\ config[id].customer_id = customer
                            /\ config[id].service_id \in services}

ConfigRow(customer, service, set) ==
    [customer_id   |-> customer,       service_id    |-> service,
     is_enabled    |-> set.is_enabled, sale_price    |-> set.sale_price,
     support_price |-> set.support_price]

\* bulk_upsert: reads the services and the customer's configs for them; assigns
\* the configs that exist, adds the others, whose service must be active.
LoadUpsert(e, o) ==
    LET services == DOMAIN o.rows
        old      == ConfigsOf(o.customer, services)
        new      == services \ {config[id].service_id : id \in old}
        wanted   == [id \in old \cup {<<e, s>> : s \in new} |->
                       IF id \in old THEN Assign(config[id], o.rows[config[id].service_id])
                       ELSE ConfigRow(o.customer, id[2], o.rows[id[2]])]
    IN  /\ o.kind = "upsert"
        /\ edit[e].pc = "idle"
        /\ edit' = [edit EXCEPT ![e] =
                      IF \A s \in new : isActive[s]
                      THEN [EditIdle EXCEPT !.pc = "loaded", !.op = o,
                              !.seen = [id \in old |-> config[id]], !.want = wanted]
                      ELSE EditDone(422)]
        /\ UNCHANGED <<dbVars, buy, offered>>

\* The request has read config `id` and will leave it as `row`.
Loaded(o, id, row) ==
    [EditIdle EXCEPT !.pc = "loaded", !.op = o, !.seen = [i \in {id} |-> config[i]],
                     !.want = [i \in {id} |-> row]]

\* The code a body is answered with for a null in a column that cannot be null:
\* the handler checks the support price, the database is_enabled.
NullCode_Unchecked(set) == NULL
NullCode(set) ==
    IF "support_price" \in DOMAIN set /\ set.support_price = NULL   THEN 422
    ELSE IF "is_enabled" \in DOMAIN set /\ set.is_enabled = NULL    THEN 409
    ELSE NULL

\* update_single: load one config.
LoadUpdate(e, o) ==
    /\ o.kind = "update"
    /\ edit[e].pc = "idle"
    /\ edit' = [edit EXCEPT ![e] =
                  IF o.config \notin DOMAIN config THEN EditDone(404)
                  ELSE IF NullCode(o.set) # NULL THEN EditDone(NullCode(o.set))
                  ELSE Loaded(o, o.config, Assign(config[o.config], o.set))]
    /\ UNCHANGED <<dbVars, buy, offered>>

\* delete_single: load one config.
LoadDelete(e, o) ==
    /\ o.kind = "delete"
    /\ edit[e].pc = "idle"
    /\ edit' = [edit EXCEPT ![e] = IF o.config \notin DOMAIN config THEN EditDone(404)
                                   ELSE Loaded(o, o.config, config[o.config])]
    /\ UNCHANGED <<dbVars, buy, offered>>

\* The ids of the rows that bulk_upsert adds.
Inserted(e) == DOMAIN edit[e].want \ DOMAIN edit[e].seen

\* An UPDATE of a row that is gone raises StaleDataError; a row without changed
\* columns gets no UPDATE.
StaleUpdate(e) == \E id \in DOMAIN edit[e].seen \ DOMAIN config :
    Dirty(edit[e].seen[id], edit[e].want[id]) # {}

\* The unique (customer, service) key of the rows to insert.
DuplicateInsert(e) == \E id \in Inserted(e) :
    ConfigsOf(edit[e].want[id].customer_id, {edit[e].want[id].service_id}) # {}

\* The table once the rows of e are inserted and the changed columns updated.
Upserted(e) ==
    [id \in DOMAIN config \cup Inserted(e) |->
        CASE id \in Inserted(e)          -> edit[e].want[id]
          [] id \in DOMAIN edit[e].seen  ->
                Flush(config[id], edit[e].seen[id], edit[e].want[id])
          [] OTHER                       -> config[id]]

\* The commit of bulk_upsert and update_single.
CommitConfigs(e) ==
    LET failed == StaleUpdate(e) \/ DuplicateInsert(e) IN
    /\ edit[e].pc = "loaded"
    /\ edit[e].op.kind \in {"upsert", "update"}
    /\ config' = IF failed THEN config ELSE Upserted(e)
    /\ edit' = [edit EXCEPT ![e] = EditDone(IF StaleUpdate(e) THEN 500
                                            ELSE IF DuplicateInsert(e) THEN 409
                                            ELSE 200)]
    /\ offered' = offered \cup Offers(config', isActive, lineage)
    /\ UNCHANGED <<isActive, lineage, purchase, items, buy>>

\* The commit of delete_single: purchase items keep the config (RESTRICT, 409).
CommitDelete(e) ==
    LET id     == edit[e].op.config
        in_use == \E i \in items : i.config = id
    IN  /\ edit[e].pc = "loaded"
        /\ edit[e].op.kind = "delete"
        /\ config' = IF in_use THEN config ELSE Drop(config, id)
        /\ edit' = [edit EXCEPT ![e] = EditDone(IF in_use THEN 409 ELSE 200)]
        /\ UNCHANGED <<isActive, lineage, purchase, items, buy, offered>>

\* PATCH is_active or DELETE of a customer, service, group or project: one row,
\* one column, nothing read that matters here, so one step.
SetActive(n) ==
    /\ isActive' = [isActive EXCEPT ![n] = ~@]
    /\ offered' = offered \cup Offers(config, isActive', lineage)
    /\ UNCHANGED <<lineage, config, purchase, items, buy, edit>>

\* PATCH project_id and group_id of a service.  Two overlapping ones can leave
\* the project of one and the group of the other, which is a pair like any other.
MoveService(s) ==
    /\ \E p \in Projects, g \in Groups :
          lineage' = [lineage EXCEPT ![s] = [project |-> p, group |-> g]]
    /\ offered' = offered \cup Offers(config, isActive, lineage')
    /\ UNCHANGED <<isActive, config, purchase, items, buy, edit>>

(***************************************************************************)
(* The specification.                                                      *)
(***************************************************************************)

Proceed(r) == Resolve(r) \/ StartDelete(r) \/ FinishDelete(r) \/ Commit(r) \/ Respond(r)

Finished == /\ \A r \in Buyers : buy[r].pc = "done"
            /\ \A e \in Editors : edit[e].pc = "done"

Terminated == Finished /\ UNCHANGED vars

Next ==
    \/ \E r \in Buyers : (\E o \in PurchaseOps : Load(r, o)) \/ Proceed(r) \/ Abort(r)
    \/ \E e \in Editors : \/ \E o \in ConfigOps : LoadUpsert(e, o) \/ LoadUpdate(e, o) \/ LoadDelete(e, o)
                          \/ CommitConfigs(e) \/ CommitDelete(e)
    \/ \E n \in Switched : SetActive(n)
    \/ \E s \in Moved : MoveService(s)
    \/ Terminated

Spec == Init /\ [][Next]_vars
==============================================================================
