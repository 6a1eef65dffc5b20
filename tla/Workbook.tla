------------------------------ MODULE Workbook -------------------------------
(***************************************************************************)
(* How an income workbook is read (customers/service.py,                   *)
(* CustomerIncomeImportService).  Its first sheet has one row for a        *)
(* customer; its second one has blocks of rows, in which the name of the   *)
(* customer stands once and a blank row ends it.  Cells are what the       *)
(* normalisation of text and numbers makes of them, NULL for none.         *)
(***************************************************************************)
EXTENDS Naturals, Sequences

CONSTANTS NULL, Header

Blank == [code |-> NULL, label |-> NULL, amount |-> NULL, name |-> NULL]

\* The loop of _parse_bucket_sheet: the customer that row n is counted for.  It starts
\* with the one of the first row.
Current_KeepsOwner(rows) ==
    LET current[n \in 0..Len(rows)] ==
            IF n = 0 THEN IF rows = <<>> THEN NULL ELSE rows[1].name
            ELSE IF rows[n].name # NULL THEN rows[n].name ELSE current[n-1]
    IN  current
Current(rows) ==
    LET current[n \in 0..Len(rows)] ==
            IF n = 0                     THEN IF rows = <<>> THEN NULL ELSE rows[1].name
            ELSE IF rows[n] = Blank      THEN NULL
            ELSE IF rows[n].name # NULL  THEN rows[n].name
            ELSE current[n-1]
    IN  current

\* The rows that count.
Data(rows) ==
    {n \in 1..Len(rows) : rows[n].code \notin {NULL, Header} /\ Current(rows)[n] # NULL}

\* _build_canonical_bucket_names, _resolve_bucket_name: a label that is missing or a
\* number is replaced by the first proper one that its code has anywhere.
Numeric(label) == label \in Nat

Proper(rows, code) ==
    {n \in Data(rows) : rows[n].code = code /\ rows[n].label # NULL /\ ~Numeric(rows[n].label)}

Label(rows, n) ==
    LET proper == Proper(rows, rows[n].code) IN
    IF rows[n].label # NULL /\ ~Numeric(rows[n].label) THEN rows[n].label
    ELSE IF proper = {} THEN rows[n].label
    ELSE rows[CHOOSE m \in proper : \A k \in proper : m <= k].label

\* By the number of the row.
Buckets(rows, name) ==
    [n \in {m \in Data(rows) : Current(rows)[m] = name} |->
        [code |-> rows[n].code, label |-> Label(rows, n), amount |-> rows[n].amount]]

\* import_workbook keeps the last summary row of a name.
Summary(sums, name) ==
    LET mine == {n \in 1..Len(sums) : sums[n].name = name}
    IN  IF mine = {} THEN [amount |-> NULL, bills |-> NULL]
        ELSE LET n == CHOOSE m \in mine : \A k \in mine : k <= m
             IN  [amount |-> sums[n].amount, bills |-> sums[n].bills]

\* The names of both sheets.
NamesOf(sums, rows) ==
    ({sums[n].name : n \in 1..Len(sums)} \ {NULL}) \cup {Current(rows)[n] : n \in Data(rows)}
==============================================================================
