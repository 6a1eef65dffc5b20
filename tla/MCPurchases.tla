----------------------------- MODULE MCPurchases -----------------------------
(***************************************************************************)
(* Instances of Purchases for TLC, and the properties the runs check.      *)
(* Customer k1 owns a purchase of its config C(s1) and may select C(s2);   *)
(* C(s3) belongs to customer k2, so an upsert of service s3 for k1 inserts *)
(* a row while one of s1 changes the price of the config in use.           *)
(***************************************************************************)
EXTENDS PurchaseProps, TLC

CONSTANTS k1, k2, s1, s2, s3, pr, g1, g2

MCCustomers == {k1, k2}
MCServices  == {s1, s2, s3}
MCLineage   == [s \in MCServices |-> [project |-> pr, group |-> g1]]

C(s) == <<Seed, s>>
Cfg(k, s, on, sale, support) ==
    [customer_id |-> k, service_id |-> s, is_enabled |-> on, sale_price |-> sale,
     support_price |-> support]

MCInitConfig == [id \in {C(s1), C(s2), C(s3)} |->
    CASE id = C(s1) -> Cfg(k1, s1, TRUE, NULL, 1)
      [] id = C(s2) -> Cfg(k1, s2, TRUE, 2, 1)
      [] id = C(s3) -> Cfg(k2, s3, TRUE, 1, 1)]
MCInitSelection == {C(s1)}

Create(caller, list) ==
    [kind |-> "create", caller |-> caller, customer |-> k1, notes |-> "n", items |-> list]
Patch(caller, set, list) ==
    [kind |-> "update", caller |-> caller, purchase |-> Seed, set |-> set, items |-> list]
Remove(caller) == [kind |-> "deactivate", caller |-> caller, purchase |-> Seed]

MCPurchaseOps == {
    Create(k1, <<C(s1)>>),
    Create(k2, <<C(s1)>>),
    Create(TokenAdmin, <<C(s2)>>),
    Patch(Admin, <<>>, <<C(s2)>>),
    Patch(k1, <<>>, <<C(s1), C(s2)>>),
    Patch(k1, <<>>, <<C(s1), C(s1)>>),
    Patch(Admin, [notes |-> "n"], <<C(s3)>>),
    Patch(TokenAdmin, [notes |-> "m"], <<>>),
    Remove(Admin)}

Terms(on, sale, support) ==
    [is_enabled |-> on, sale_price |-> sale, support_price |-> support]

MCConfigOps == {
    [kind |-> "upsert", customer |-> k1,
     rows |-> [s \in {s1, s3} |-> Terms(s = s3, 1, 1)]],
    [kind |-> "update", config |-> C(s2), set |-> [sale_price |-> 1]],
    [kind |-> "update", config |-> C(s2), set |-> [support_price |-> NULL]],
    [kind |-> "update", config |-> C(s2), set |-> [is_enabled |-> NULL]],
    [kind |-> "delete", config |-> C(s2)]}

Symmetry == Permutations(Buyers)
==============================================================================
