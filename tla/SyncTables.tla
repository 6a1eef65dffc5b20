----------------------------- MODULE SyncTables ------------------------------
(***************************************************************************)
(* What the rows of a file do to one table of a target database            *)
(* (sqlserver_reference_sync.py): which columns are written, by which key  *)
(* rows are matched, and what one MERGE inserts and updates.  A schema     *)
(* maps the columns of a table, those that can be written, to              *)
(*    [key, identity, required : BOOLEAN, default]                         *)
(* required: it takes no NULL; `default` is what a row has that is         *)
(* inserted without the column, NULL if nothing is declared.  A table maps *)
(* positions to rows, and a row maps columns to values; the rows to write  *)
(* map their numbers in the file to rows.                                  *)
(***************************************************************************)
EXTENDS Naturals, Sequences, FiniteSetsExt, Functions

CONSTANT NULL

TableOK(schema, table) ==
    /\ IsFiniteSet(DOMAIN table) /\ DOMAIN table \subseteq Nat
    /\ table = [i \in DOMAIN table |-> table[i]]
    /\ \A i \in DOMAIN table : DOMAIN table[i] = DOMAIN schema

\* SqlServerMetadataLoader: the table is there and has a primary key.
Loaded(schema) == \E c \in DOMAIN schema : schema[c].key

\* The columns of the first row that the target has; without rows, all of them.
Given(schema, rows) ==
    IF DOMAIN rows = {} THEN DOMAIN schema ELSE DOMAIN schema \cap DOMAIN rows[Min(DOMAIN rows)]

Selected(given, override) == IF override = NULL THEN given ELSE override.columns

KeysOf(schema, columns, override) ==
    IF override = NULL THEN {c \in columns : schema[c].key} ELSE override.keys

\* SqlServerSyncPlanBuilder.build, NULL for its SqlServerMetadataError.
Plan(schema, rows, override) ==
    LET given   == Given(schema, rows)
        columns == Selected(given, override)
        keys    == KeysOf(schema, columns, override)
    IN  IF Loaded(schema) /\ given # {} /\ columns \subseteq given /\ keys \subseteq columns /\ keys # {}
        THEN [columns |-> columns, keys |-> keys]
        ELSE NULL

\* ON target.key = source.key: NULL equals nothing.
Matches(plan, row, x) == \A k \in plan.keys : row[k] # NULL /\ row[k] = x[k]

\* A row that is matched is written when one of the other columns differs.
Differs(plan, row, x) == \E c \in plan.columns \ plan.keys : row[c] # x[c]

Changing_AnyMatch(plan, row, stage) == {n \in DOMAIN stage : Matches(plan, row, stage[n])}
Changing(plan, row, stage) ==
    {n \in DOMAIN stage : Matches(plan, row, stage[n]) /\ Differs(plan, row, stage[n])}

Unmatched(plan, table, stage) ==
    {n \in DOMAIN stage : \A i \in DOMAIN table : ~Matches(plan, table[i], stage[n])}

Largest(s) == Max(s \cup {0})

\* The nth row that is inserted: what the plan leaves out is numbered or has its default.
Inserted(schema, plan, table, x, nth) ==
    [c \in DOMAIN schema |->
        IF c \in plan.columns      THEN x[c]
        ELSE IF schema[c].identity THEN Largest({table[i][c] : i \in DOMAIN table}) + nth
        ELSE schema[c].default]

\* WHEN MATCHED AND it differs THEN UPDATE, WHEN NOT MATCHED THEN INSERT.
Merged(schema, plan, table, stage) ==
    LET new   == Unmatched(plan, table, stage)
        nth(n) == Cardinality({m \in new : m <= n})
        top   == Largest(DOMAIN table)
    IN  [i \in DOMAIN table \cup {top + nth(n) : n \in new} |->
            IF i > top
            THEN LET n == CHOOSE m \in new : top + nth(m) = i
                 IN  Inserted(schema, plan, table, stage[n], nth(n))
            ELSE LET by == Changing(plan, table[i], stage)
                 IN  IF by = {} THEN table[i]
                     ELSE [c \in DOMAIN schema |->
                             IF c \in plan.columns THEN stage[CHOOSE n \in by : TRUE][c] ELSE table[i][c]]]

\* Why the MERGE itself is refused: a NULL where none may be, default or not, two rows of the file that
\* change one row, a written identity column that is no key and so not switched off.
Refuses(schema, plan, table, stage) ==
    \/ \E n \in DOMAIN stage : \E c \in plan.columns : schema[c].required /\ stage[n][c] = NULL
    \/ \E i \in DOMAIN table : Cardinality(Changing(plan, table[i], stage)) > 1
    \/ \E c \in plan.columns \ plan.keys : schema[c].identity

\* The constraints of a table: what may be NULL, and the primary key.
Holds(schema, table) ==
    \A i \in DOMAIN table :
        /\ \A c \in DOMAIN schema : schema[c].required => table[i][c] # NULL
        /\ \A j \in DOMAIN table :
              (\A c \in DOMAIN schema : schema[c].key => table[i][c] = table[j][c]) => i = j
==============================================================================
