---------------------------- MODULE ReferenceSync ----------------------------
(***************************************************************************)
(* The command that writes reference data from files into the SQL Server   *)
(* databases of many servers (sync_sqlserver_reference_data.py): target by *)
(* target, database by database and table by table.  A table is written in *)
(* one transaction; what went wrong is put in a report that is saved when  *)
(* all is done, and the remedy is to run the command again.  The           *)
(* applications that own the databases go on writing to them.              *)
(***************************************************************************)
EXTENDS SyncTables, SequencesExt

CONSTANTS
    Targets,        \* the rows of the input: a server, or NULL where a field is missing
    DatabasesOf,    \* server -> sequence of its databases
    Schemas,        \* database -> table -> schema, which is empty if there is no table
    Enforced,       \* databases with foreign keys
    Initial,        \* database -> table -> rows
    Commands,       \* set of [flags, files: table -> rows of the file]
    Others,         \* what others write: [db, table, at, row], row = NULL deletes
    MaxRuns, MaxOthers, MaxFaults

VARIABLES
    tables,     \* database -> table -> rows
    run,        \* the run of the command
    report,     \* what it reports so far; a cell is <<target, database, table>>
    runs,       \* how many there were
    others,     \* how often others wrote
    faults,     \* how often something broke: a connection, the process, the report's file
    saved,      \* the last report
    last        \* history: database -> table -> what the last run of it did, if that still
                \* is how the database stands

vars == <<tables, run, report, runs, others, faults, saved, last>>

\* SyncPlanBuilder._GROUPS, in order.
Tables == <<"TransportTariffs", "TransportTariffLocals", "TransportYearAmounts", "TransportYearAmountLocals">>

Group(t) == IF t \in {"TransportTariffs", "TransportTariffLocals"} THEN "tariffs" ELSE "amounts"

Override(t) ==
    IF t = "TransportYearAmounts"
    THEN [columns |-> {"Amount", "Year", "IsDeleted", "TransportTariffId"},
          keys    |-> {"Year", "TransportTariffId"}]
    ELSE NULL

\* _MISSING_REFERENCE_SKIP_RULES: the column, and the table whose id it holds.
Rules == [TransportYearAmounts      |-> [column |-> "TransportTariffId", table |-> "TransportTariffs"],
          TransportYearAmountLocals |-> [column |-> "TransportTariffLocalId", table |-> "TransportTariffLocals"]]

HasRule(t) == t \in DOMAIN Rules

\* SyncDbPayload.apply_transport_dependencies.
Flags(cmd) == cmd.flags \cup (IF "amounts" \in cmd.flags THEN {"tariffs"} ELSE {})

\* SyncPlanBuilder.build: the tables to write, in the order of Tables.
Plans(cmd)   == {t \in Range(Tables) : Group(t) \in Flags(cmd) /\ t \in DOMAIN cmd.files}
First(plans) == Tables[Min({k \in DOMAIN Tables : Tables[k] \in plans})]

IdsOf(table) == {table[i]["id"] : i \in DOMAIN table}
Ids(db, t)   == IdsOf(tables[db][t])

PlanOf(db, t, rows) == Plan(Schemas[db][t], rows, Override(t))

\* The constraints of a database that has these tables.
Valid(db, of) ==
    \A t \in DOMAIN of :
        /\ Holds(Schemas[db][t], of[t])
        /\ HasRule(t) /\ db \in Enforced =>
              \A i \in DOMAIN of[t] : of[t][i][Rules[t].column] \in IdsOf(of[Rules[t].table]) \cup {NULL}

\* What the table is when the database has taken these rows, NULL if it refuses.
Try(db, t, rows) ==
    LET schema == Schemas[db][t]
        plan   == PlanOf(db, t, rows)
        to     == Merged(schema, plan, tables[db][t], rows)
    IN  IF plan # NULL /\ ~Refuses(schema, plan, tables[db][t], rows) /\ Valid(db, [tables[db] EXCEPT ![t] = to])
        THEN to ELSE NULL

\* Servers list their databases by name, each once; every table has a place in every
\* database, if only an empty one; the rows of a file have the columns of its header; and
\* the databases are valid at first.
ASSUME TargetsAssumption ==
    /\ NULL \notin DOMAIN DatabasesOf /\ NULL \notin DOMAIN Initial /\ NULL \notin Range(Tables) /\ NULL \notin Commands
    /\ Targets \in Seq(DOMAIN DatabasesOf \cup {NULL})
    /\ \A s \in DOMAIN DatabasesOf : DatabasesOf[s] \in Seq(DOMAIN Initial) /\ IsInjective(DatabasesOf[s])

ASSUME InitialAssumption ==
    /\ Initial = [db \in DOMAIN Initial |-> [t \in Range(Tables) |-> Initial[db][t]]]
    /\ \A db \in DOMAIN Initial :
          /\ \A t \in Range(Tables) : TableOK(Schemas[db][t], Initial[db][t])
          /\ Valid(db, Initial[db])

ASSUME CommandsAssumption ==
    \A cmd \in Commands : \A t \in DOMAIN cmd.files :
        /\ cmd.files[t] \in Seq(Range(cmd.files[t]))
        /\ \A n, m \in DOMAIN cmd.files[t] : DOMAIN cmd.files[t][n] = DOMAIN cmd.files[t][m]

ASSUME OthersAssumption ==
    \A w \in Others : /\ w.db \in DOMAIN Initial /\ w.table \in Range(Tables) /\ w.at \in Nat
                      /\ w.row # NULL => DOMAIN w.row = DOMAIN Schemas[w.db][w.table]

ASSUME BoundsAssumption == MaxRuns \in Nat /\ MaxOthers \in Nat /\ MaxFaults \in Nat

Breaks == faults < MaxFaults /\ faults' = faults + 1
Works  == UNCHANGED faults

(***************************************************************************)
(* A run.                                                                  *)
(***************************************************************************)

NoRun    == [pc |-> "none", cmd |-> NULL, at |-> 0, dbs |-> <<>>, plans |-> {}, skipped |-> {}, wrote |-> 0]
NoReport == [results |-> <<>>, errors |-> <<>>, skipped |-> <<>>, attempted |-> 0]

\* The rows of the current file, and those that are not skipped, by number.
File          == run.cmd.files[First(run.plans)]
Kept(skipped) == Restrict(File, DOMAIN File \ skipped)

Cell      == <<run.at, Head(run.dbs), First(run.plans)>>
Whole(at) == <<at, NULL, NULL>>

\* The next target; the next plan, of the next database when there is none left.
NextTarget(q) == [q EXCEPT !.pc = "target", !.at = @ + 1]
NextPlan_KeepsPlans ==
    LET plans == run.plans \ {First(run.plans)}
        dbs   == IF plans = {} THEN Tail(run.dbs) ELSE run.dbs
        on    == [run EXCEPT !.plans = plans, !.dbs = dbs, !.skipped = {}]
    IN  IF dbs = <<>> THEN NextTarget(on) ELSE [on EXCEPT !.pc = "table"]
NextPlan ==
    LET plans == run.plans \ {First(run.plans)}
        dbs   == IF plans = {} THEN Tail(run.dbs) ELSE run.dbs
        on    == [run EXCEPT !.plans = IF plans = {} THEN Plans(run.cmd) ELSE plans, !.dbs = dbs, !.skipped = {}]
    IN  IF dbs = <<>> THEN NextTarget(on) ELSE [on EXCEPT !.pc = "table"]

\* TargetServerInputReader.read, SyncPlanBuilder.build and ReferenceDataFileReader.read:
\* rows of the input that lack a field are errors before anything else.
Incomplete == SetToSeq({n \in DOMAIN Targets : Targets[n] = NULL})

Start(cmd) ==
    /\ run.pc = "none" /\ runs < MaxRuns
    /\ runs' = runs + 1 /\ Works
    /\ run' = [NoRun EXCEPT !.pc = "target", !.cmd = cmd, !.at = 1, !.plans = Plans(cmd)]
    /\ report' = [NoReport EXCEPT !.errors =
                     [n \in DOMAIN Incomplete |-> [cell |-> Whole(Incomplete[n]), rows |-> {}]]]
    /\ UNCHANGED <<tables, others, saved, last>>

Skip ==
    /\ run.pc = "target" /\ run.at <= Len(Targets) /\ Targets[run.at] = NULL
    /\ run' = NextTarget(run) /\ Works
    /\ UNCHANGED <<tables, report, runs, others, saved, last>>

\* check_target_connection and discover_target_databases.
Connect ==
    /\ run.pc = "target" /\ run.at <= Len(Targets) /\ Targets[run.at] # NULL
    /\ LET dbs == DatabasesOf[Targets[run.at]] IN
       \/ /\ run' = IF dbs = <<>> \/ run.plans = {} THEN NextTarget(run)
                    ELSE [run EXCEPT !.pc = "table", !.dbs = dbs]
          /\ UNCHANGED report /\ Works
       \/ /\ run' = NextTarget(run)
          /\ report' = [report EXCEPT !.errors = Append(@, [cell |-> Whole(run.at), rows |-> {}])]
          /\ Breaks
    /\ UNCHANGED <<tables, runs, others, saved, last>>

\* A table fails, for these rows of its file.
Failed_NextTarget(rep, rows) ==
    /\ run' = NextTarget(run)
    /\ report' = [rep EXCEPT !.errors = Append(@, [cell |-> Cell, rows |-> rows])]
Failed(rep, rows) ==
    /\ run' = NextPlan
    /\ report' = [rep EXCEPT !.errors = Append(@, [cell |-> Cell, rows |-> rows])]

\* _split_skipped_rows: the rows whose reference is not there.  A row without one is kept.
Missing_OfFirst(db, t, file) ==
    IF ~HasRule(t) THEN {}
    ELSE LET first == DatabasesOf[Targets[run.at]][1]
         IN  {n \in DOMAIN file : file[n][Rules[t].column] \notin Ids(first, Rules[t].table) \cup {NULL}}
Missing(db, t, file) ==
    IF ~HasRule(t) THEN {}
    ELSE {n \in DOMAIN file : LET ref == IF Rules[t].column \in DOMAIN file[n] THEN file[n][Rules[t].column] ELSE NULL
                              IN  ref # NULL /\ ref \notin Ids(db, Rules[t].table)}

\* The references are read in a transaction of their own, if that can be done.
Split ==
    LET db   == Head(run.dbs)
        t    == First(run.plans)
        out  == Missing(db, t, File)
        tried == [report EXCEPT !.attempted = @ + 1]
    IN
    /\ run.pc = "table"
    /\ \/ /\ HasRule(t) => "id" \in DOMAIN Schemas[db][Rules[t].table]
          /\ run' = [run EXCEPT !.pc = "merge", !.skipped = out, !.wrote = others] /\ Works
          /\ report' = [tried EXCEPT !.skipped =
                           @ \o [k \in 1..Cardinality(out) |-> [cell |-> Cell, row |-> SetToSeq(out)[k]]]]
       \/ /\ HasRule(t)
          /\ IF "id" \in DOMAIN Schemas[db][Rules[t].table] THEN Breaks ELSE Works
          /\ Failed(tried, {})
    /\ UNCHANGED <<tables, runs, others, saved, last>>

\* execute_from_rows: one transaction.  What was done last is forgotten of the tables
\* that refer to a table that changes.
Merge ==
    LET db   == Head(run.dbs)
        t    == First(run.plans)
        rows == Kept(run.skipped)
        to   == Try(db, t, rows)
        from == tables[db][t]
        done == [file |-> File, skipped |-> run.skipped, calm |-> run.wrote = others]
    IN
    /\ run.pc = "merge"
    /\ to # NULL /\ Works
    /\ tables' = [tables EXCEPT ![db][t] = to]
    /\ run' = NextPlan
    /\ report' = [report EXCEPT !.results = Append(@,
                     [cell     |-> Cell,
                      inserted |-> Cardinality(DOMAIN to \ DOMAIN from),
                      updated  |-> Cardinality({i \in DOMAIN from : Changing(PlanOf(db, t, rows), from[i], rows) # {}}),
                      skipped  |-> Cardinality(run.skipped),
                      rows     |-> Cardinality(DOMAIN rows)])]
    /\ last' = [last EXCEPT ![db] = [s \in DOMAIN @ |->
                  IF s = t THEN done
                  ELSE IF HasRule(s) /\ to # from /\ Rules[s].table = t THEN NULL ELSE @[s]]]
    /\ UNCHANGED <<runs, others, saved>>

\* The transaction fails, for what it does or for the connection.
Fail ==
    /\ run.pc = "merge"
    /\ IF Try(Head(run.dbs), First(run.plans), Kept(run.skipped)) = NULL THEN Works ELSE Breaks
    /\ run' = [run EXCEPT !.pc = "diagnose"]
    /\ UNCHANGED <<tables, report, runs, others, saved, last>>

\* _diagnose_row_failures: each row alone, in a transaction that is rolled back.  Without
\* a connection every row fails.
Diagnose ==
    LET rows == Kept(run.skipped)
        bad  == {n \in DOMAIN rows : Try(Head(run.dbs), First(run.plans), <<rows[n]>>) = NULL}
    IN
    /\ run.pc = "diagnose"
    /\ \/ Failed(report, bad) /\ Works
       \/ Failed(report, DOMAIN rows) /\ Breaks
    /\ UNCHANGED <<tables, runs, others, saved, last>>

\* SyncReportWriter.save; the report is lost if that fails.
Save ==
    /\ run.pc = "target" /\ run.at > Len(Targets)
    /\ \/ saved' = [cmd |-> run.cmd, report |-> report] /\ Works
       \/ UNCHANGED saved /\ Breaks
    /\ run' = NoRun /\ report' = NoReport
    /\ UNCHANGED <<tables, runs, others, last>>

\* The process ends: what is committed stays, the report is lost.
Crash ==
    /\ run.pc # "none"
    /\ run' = NoRun /\ report' = NoReport /\ Breaks
    /\ UNCHANGED <<tables, runs, others, saved, last>>

(***************************************************************************)
(* The others, who write what their database takes.                        *)
(***************************************************************************)

Written(w) ==
    LET table == tables[w.db][w.table]
    IN  IF w.row # NULL THEN [i \in DOMAIN table \cup {w.at} |-> IF i = w.at THEN w.row ELSE table[i]]
        ELSE Restrict(table, DOMAIN table \ {w.at})

Write(w) ==
    /\ others < MaxOthers
    /\ others' = others + 1
    /\ w.row = NULL => w.at \in DOMAIN tables[w.db][w.table]
    /\ Valid(w.db, [tables[w.db] EXCEPT ![w.table] = Written(w)])
    /\ tables' = [tables EXCEPT ![w.db][w.table] = Written(w)]
    /\ last' = [last EXCEPT ![w.db] = [s \in DOMAIN @ |-> NULL]]
    /\ UNCHANGED <<run, report, runs, faults, saved>>

Init ==
    /\ tables = Initial
    /\ run = NoRun /\ report = NoReport
    /\ runs = 0 /\ others = 0 /\ faults = 0
    /\ saved = NULL
    /\ last = [db \in DOMAIN Initial |-> [t \in DOMAIN Initial[db] |-> NULL]]

Step == Skip \/ Connect \/ Split \/ Merge \/ Fail \/ Diagnose \/ Save

Terminated == run.pc = "none" /\ runs = MaxRuns /\ others = MaxOthers /\ UNCHANGED vars

Next ==
    \/ \E cmd \in Commands : Start(cmd)
    \/ Step
    \/ Crash
    \/ \E w \in Others : Write(w)
    \/ Terminated

Spec == Init /\ [][Next]_vars
==============================================================================
