--------------------------- MODULE PurchaseLedger ----------------------------
(***************************************************************************)
(* What the purchase endpoints promise, with every request done at once:   *)
(* an entry is opened with its lines, amended while it is active, and      *)
(* closed for good, and at all times its header is the sum of its lines.   *)
(* Module Purchases is shown to implement this when two requests never     *)
(* work on one purchase at the same time.                                  *)
(***************************************************************************)
CONSTANTS
    PurchaseIds,
    Balanced(_, _)     \* is this header the sum of these lines

\* The entries that exist, by id: [row : the header, lines : the selected lines].
VARIABLE ledger

Init == \A p \in DOMAIN ledger : Balanced(ledger[p].row, ledger[p].lines)

\* Only entry p changes.
Only(p) == /\ DOMAIN ledger' = DOMAIN ledger \cup {p}
           /\ \A q \in DOMAIN ledger \ {p} : ledger'[q] = ledger[q]

\* Entry p is now active, with at least one line and its header in balance.
Settled(p) == /\ ledger'[p].row.is_active
              /\ ledger'[p].lines # {}
              /\ Balanced(ledger'[p].row, ledger'[p].lines)

\* POST: a new entry.
Open(p) == p \notin DOMAIN ledger /\ Only(p) /\ Settled(p)

\* PATCH: new notes, new lines, or both; the entry is active and stays so, and
\* its owner does not change.
Amend(p) ==
    /\ p \in DOMAIN ledger
    /\ Only(p)
    /\ ledger[p].row.is_active
    /\ ledger'[p].row.customer_id = ledger[p].row.customer_id
    /\ Settled(p)

\* DELETE: the entry is kept as it is, inactive.
Close(p) ==
    /\ p \in DOMAIN ledger
    /\ ledger[p].row.is_active
    /\ ledger'[p] = [ledger[p] EXCEPT !.row.is_active = FALSE]
    /\ Only(p)

Next == \E p \in PurchaseIds : Open(p) \/ Amend(p) \/ Close(p)

Spec == Init /\ [][Next]_ledger
==============================================================================
