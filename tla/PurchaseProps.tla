---------------------------- MODULE PurchaseProps ----------------------------
(***************************************************************************)
(* What is claimed of Purchases: the properties that hold whatever         *)
(* overlaps, and those that hold when requests on one purchase do not.     *)
(***************************************************************************)
EXTENDS Purchases

(***************************************************************************)
(* Types.                                                                  *)
(***************************************************************************)

Code  == {NULL, 200, 403, 404, 409, 422, 500}
Stage == {"idle", "loaded", "resolved", "deleting", "ready", "committed", "done"}

TotalColumns    == {"sale_total", "support_total", "grand_total", "selected_count"}
PurchaseColumns == {"customer_id", "notes", "is_active"} \cup TotalColumns

Lines      == [config : ConfigIds, sale_price : Price, support_price : Nat]
Items      == [purchase : PurchaseIds, by : PurchaseIds, config : ConfigIds,
               sale_price : Price, support_price : Nat]

PurchaseRowOK(row) ==
    /\ DOMAIN row = PurchaseColumns
    /\ row.customer_id \in Customers /\ row.is_active \in BOOLEAN

BuyOK(b) ==
    /\ DOMAIN b = DOMAIN Idle
    /\ b.pc \in Stage /\ b.code \in Code
    /\ b.lines \subseteq Lines /\ b.doomed \subseteq Items
    /\ b.pc \notin {"idle", "done"} =>
          /\ b.op \in PurchaseOps
          /\ b.op.kind # "create" /\ b.pc # "committed" => PurchaseRowOK(b.seen)

\* The purchase a PATCH or DELETE works on has a row: rows are never deleted.
TargetExists(b) ==
    b.pc \notin {"idle", "done"} /\ b.op.kind # "create" => b.op.purchase \in DOMAIN purchase

EditOK(x) ==
    /\ DOMAIN x = DOMAIN EditIdle
    /\ x.pc \in {"idle", "loaded", "done"} /\ x.code \in Code
    /\ x.pc = "loaded" =>
          /\ x.op \in ConfigOps
          /\ DOMAIN x.seen \subseteq DOMAIN x.want /\ DOMAIN x.want \subseteq ConfigIds
          /\ \A id \in DOMAIN x.seen : ConfigRowOK(x.seen[id])
          /\ \A id \in DOMAIN x.want : ConfigRowOK(x.want[id])

\* Every table holds rows of its columns' types, and every request is at one of
\* its stages with rows and lines of those types in hand.
TypeOK ==
    /\ isActive \in [Nodes -> BOOLEAN]
    /\ lineage \in [Services -> [project : Projects, group : Groups]]
    /\ DOMAIN config \subseteq ConfigIds
    /\ \A id \in DOMAIN config : ConfigRowOK(config[id])
    /\ DOMAIN purchase \subseteq PurchaseIds
    /\ \A p \in DOMAIN purchase : PurchaseRowOK(purchase[p])
    /\ items \subseteq Items
    /\ DOMAIN buy = Buyers /\ \A r \in Buyers : BuyOK(buy[r]) /\ TargetExists(buy[r])
    /\ DOMAIN edit = Editors /\ \A e \in Editors : EditOK(edit[e])
    /\ offered \subseteq Lines

(***************************************************************************)
(* What holds however requests overlap.                                    *)
(***************************************************************************)

\* A purchase only ever lists configs that exist and belong to its own customer,
\* although configs are deleted while selections are in flight (resolve_items
\* filters by customer, the foreign key is checked at commit).
ItemsUnderOwnCustomer ==
    \A i \in items : /\ i.purchase \in DOMAIN purchase
                     /\ i.config \in DOMAIN config
                     /\ config[i.config].customer_id = purchase[i.purchase].customer_id

\* Deactivation is final: no PATCH that loaded the purchase while it was active
\* brings it back, because the flush writes changed columns only.
DeactivationIsFinal ==
    [][\A p \in DOMAIN purchase : ~purchase[p].is_active
          => p \in DOMAIN purchase' /\ ~purchase'[p].is_active]_vars

\* No purchase is ever left without a line, whichever of two replacements of its
\* items deletes the rows of the other.
NoEmptyPurchase == \A p \in DOMAIN purchase : ItemsOf(p) # {}

\* A line charges prices at which its config really was for sale at some time:
\* enabled, with its service, group and project active.
LinesWereOffered == \A i \in items : LineOf(i) \in offered

(***************************************************************************)
(* What holds when requests on one purchase do not overlap.                *)
(***************************************************************************)

\* The header columns of every purchase are the sums over its item rows
\* ("purchase totals are persisted from the selected config prices").
TotalsMatchItems ==
    \A p \in DOMAIN purchase : Balanced(purchase[p], LinesOf(p))

\* The purchases as the ledger's entries.
entries == [p \in DOMAIN purchase |-> [row |-> purchase[p], lines |-> LinesOf(p)]]

Ledger == INSTANCE PurchaseLedger WITH ledger <- entries

\* Purchases implements the ledger of atomic requests.
ImplementsLedger == Ledger!Spec

(***************************************************************************)
(* What makes those properties inductive.                                  *)
(***************************************************************************)

\* A purchase row appears under the id of the request that creates it, when that
\* request commits; a request that works on another purchase found it active,
\* and its owner never changes.
RequestsMatchRows ==
    \A r \in Buyers :
        /\ r \in DOMAIN purchase => buy[r].pc \in {"committed", "done"}
        /\ Open(r) /\ buy[r].op.kind # "create" =>
              /\ buy[r].seen.is_active
              /\ buy[r].seen.customer_id = purchase[buy[r].op.purchase].customer_id

\* The id of a config belongs to the request that inserts it, so an id somebody
\* has seen is not inserted later.
Known(id) == id[1] \in Editors => edit[id[1]].pc = "done"

\* Configs keep their customer: the lines in hand of a request name configs of
\* its customer or configs deleted since, and no config request assigns the
\* customer of a row.
ConfigsKeepCustomer ==
    /\ \A id \in DOMAIN config : Known(id)
    /\ \A r \in Buyers : \A l \in buy[r].lines :
          /\ Known(l.config)
          /\ l.config \in DOMAIN config => config[l.config].customer_id = Owner(r)
    /\ \A e \in Editors : edit[e].pc = "loaded" =>
          /\ \A id \in DOMAIN edit[e].seen :
                edit[e].want[id].customer_id = edit[e].seen[id].customer_id
          /\ \A id \in Inserted(e) : id[1] = e

\* A request holds lines and doomed rows only while it replaces items, and then
\* at least one line and rows of its own purchase only.
RequestsHoldTheirRows ==
    \A r \in Buyers :
        /\ buy[r].pc \in {"idle", "committed", "done"} => buy[r].lines = {}
        /\ Open(r) /\ ~ReplacesItems(buy[r].op) =>
              buy[r].pc = "ready" /\ buy[r].lines = {} /\ buy[r].doomed = {}
        /\ buy[r].pc \in {"resolved", "deleting", "ready"} /\ ReplacesItems(buy[r].op) =>
              buy[r].lines # {}
        /\ \A i \in buy[r].doomed : i.purchase = Target(r)

\* What is purchasable now has been offered, and so have the lines in hand.
OffersRemembered ==
    /\ Offers(config, isActive, lineage) \subseteq offered
    /\ \A r \in Buyers : buy[r].lines \subseteq offered

\* Without overlap, a request sees its purchase as it is until it commits, and
\* its DELETE gets every row.
NothingStale ==
    /\ \A r, s \in Buyers : Open(r) /\ Open(s) /\ r # s => Target(r) # Target(s)
    /\ \A r \in Buyers : Open(r) =>
          /\ buy[r].op.kind # "create" => buy[r].seen = purchase[Target(r)]
          /\ buy[r].pc \in {"deleting", "ready"} /\ ReplacesItems(buy[r].op) =>
                buy[r].doomed = ItemsOf(Target(r))
==============================================================================
