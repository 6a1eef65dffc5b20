------------------------------ MODULE SyncProps ------------------------------
(***************************************************************************)
(* What is claimed of ReferenceSync.                                       *)
(***************************************************************************)
EXTENDS ReferenceSync

Positions == 1..Len(Targets)
Databases == DOMAIN Initial
TableSet  == Range(Tables)

Working == run.pc \in {"table", "merge", "diagnose"}

\* A run stands at one table of one database of one target, with the tables and the
\* databases that are left.
RunOK ==
    /\ run \in [pc : {"none", "target", "table", "merge", "diagnose"}, cmd : Commands \cup {NULL}, at : Nat,
                dbs : Seq(Databases), plans : SUBSET TableSet, skipped : SUBSET Nat, wrote : Nat]
    /\ run.wrote <= others
    /\ run.pc # "none" => run.cmd \in Commands /\ run.at \in 1..(Len(Targets) + 1)
    /\ run.pc = "target" => run.plans = Plans(run.cmd)
    /\ Working =>
          /\ run.at \in Positions /\ Targets[run.at] # NULL
          /\ run.dbs # <<>> /\ IsInjective(run.dbs) /\ Range(run.dbs) \subseteq Range(DatabasesOf[Targets[run.at]])
          /\ run.plans # {} /\ run.plans \subseteq Plans(run.cmd)
    /\ run.pc \in {"merge", "diagnose"} => run.skipped \subseteq DOMAIN File

ReportOK(r) ==
    LET cells == Positions \X Databases \X TableSet IN
    r \in [results : Seq([cell : cells, inserted : Nat, updated : Nat, skipped : Nat, rows : Nat]),
           errors  : Seq([cell : cells \cup {Whole(at) : at \in Positions}, rows : SUBSET Nat]),
           skipped : Seq([cell : cells, row : Nat]), attempted : Nat]

TablesOK ==
    /\ tables = [db \in Databases |-> [t \in TableSet |-> tables[db][t]]]
    /\ \A db \in Databases : Valid(db, tables[db]) /\ \A t \in TableSet : TableOK(Schemas[db][t], tables[db][t])
    /\ DOMAIN last = Databases /\ \A db \in Databases : DOMAIN last[db] = TableSet

CountsOK == runs \in 0..MaxRuns /\ others \in 0..MaxOthers /\ faults \in 0..MaxFaults

\* Rows have the columns of their table, no required one is NULL, primary keys are
\* unique and enforced references are there, whatever the command and others write;
\* and a run knows where it is.
TypeOK ==
    /\ TablesOK
    /\ RunOK
    /\ ReportOK(report)
    /\ CountsOK
    /\ saved # NULL => saved.cmd \in Commands /\ ReportOK(saved.report)

Alone(plan, file, rows, n) ==
    \A m \in rows : (\A k \in plan.keys : file[m][k] = file[n][k]) => m = n

\* As long as nobody else writes to a database, a table that the last run of it calls
\* successful holds every row of the file that is alone in its key and not skipped, and
\* the id that a skipped row refers to is not there.
RowsStored ==
    \A db \in DOMAIN last : \A t \in DOMAIN last[db] :
        last[db][t] # NULL =>
            LET file == last[db][t].file
                plan == PlanOf(db, t, file)
                kept == DOMAIN file \ last[db][t].skipped
            IN  /\ \A n \in kept :
                      Alone(plan, file, kept, n) =>
                         \E i \in DOMAIN tables[db][t] :
                            \A c \in plan.columns : tables[db][t][i][c] = file[n][c]
                /\ last[db][t].calm =>
                      \A n \in last[db][t].skipped :
                         file[n][Rules[t].column] \notin Ids(db, Rules[t].table)

\* What RowsStored rests on: every row that such a row of the file matches is as the
\* file says, and a calm run has skipped what would be skipped now.
Stands(db, t) ==
    last[db][t] # NULL =>
        LET file == last[db][t].file
            plan == PlanOf(db, t, file)
            kept == DOMAIN file \ last[db][t].skipped
        IN  /\ \E cmd \in Commands : t \in DOMAIN cmd.files /\ file = cmd.files[t]
            /\ kept # {} => plan # NULL
            /\ \A n \in kept :
                  Alone(plan, file, kept, n) =>
                     /\ \E i \in DOMAIN tables[db][t] :
                           \A c \in plan.columns : tables[db][t][i][c] = file[n][c]
                     /\ \A i \in DOMAIN tables[db][t] :
                           Matches(plan, tables[db][t][i], file[n]) => ~Differs(plan, tables[db][t][i], file[n])
            /\ last[db][t].calm => last[db][t].skipped = Missing(db, t, file)
LastStands == \A db \in Databases : \A t \in TableSet : Stands(db, t)

\* What a run is about to merge skips what is missing, unless others have written to the
\* database in the meantime.
SkipsMissing ==
    /\ run.pc \in {"merge", "diagnose"}
    /\ run.wrote = others \/ \E t \in TableSet : last[Head(run.dbs)][t] # NULL
    => run.skipped = Missing(Head(run.dbs), First(run.plans), File)

\* Keys that identify: none is NULL and none occurs twice.
Identified(plan, rows) ==
    \A n \in DOMAIN rows : (\A k \in plan.keys : rows[n][k] # NULL) /\ Alone(plan, rows, DOMAIN rows, n)

\* To run the command again is a remedy that does no harm: a table that already had
\* this file, and to which nobody else has written, does not change and is reported
\* with nothing inserted and nothing updated.
RerunChangesNothing ==
    [][\A db \in DOMAIN last : \A t \in DOMAIN last[db] :
          /\ Merge /\ db = Head(run.dbs) /\ t = First(run.plans)
          /\ last[db][t] # NULL /\ last[db][t].file = File /\ last[db][t].calm
          /\ Identified(PlanOf(db, t, File), Kept(run.skipped))
          => /\ UNCHANGED tables
             /\ LET x == Last(report'.results) IN x.inserted = 0 /\ x.updated = 0]_vars

Count(seq, cell)    == Cardinality({i \in DOMAIN seq : seq[i].cell = cell})
Outcomes(rep, cell) == Count(rep.results, cell) + Count(rep.errors, cell)

\* What there is to report of a target.
Cells(at, cmd) ==
    IF Targets[at] = NULL THEN {}
    ELSE {<<at, db, t>> : db \in Range(DatabasesOf[Targets[at]]), t \in Plans(cmd)}

\* A target is in the report with one error, or with one outcome for each cell.
Complete(rep, cmd, at) ==
    \/ Outcomes(rep, Whole(at)) = 1 /\ \A x \in Cells(at, cmd) : Outcomes(rep, x) = 0
    \/ /\ Targets[at] # NULL
       /\ Outcomes(rep, Whole(at)) = 0
       /\ \A x \in Cells(at, cmd) : Outcomes(rep, x) = 1

\* Every row of the file of a table that was written is written or among the skipped ones.
Accounted(rep, cmd, x)    == /\ x.rows + x.skipped = Len(cmd.files[x.cell[3]])
                             /\ x.skipped = Count(rep.skipped, x.cell)
AccountsForRows(rep, cmd) == \A i \in DOMAIN rep.results : Accounted(rep, cmd, rep.results[i])

\* A report that is saved leaves nothing out: no target, no database, no table, no row.
ReportComplete ==
    saved # NULL => /\ \A at \in Positions : Complete(saved.report, saved.cmd, at)
                    /\ AccountsForRows(saved.report, saved.cmd)

\* The cells of the current target that have no outcome yet.
Left ==
    {x \in Cells(run.at, run.cmd) :
        Working => \/ x[2] = Head(run.dbs) /\ x[3] \in run.plans
                   \/ x[2] \in Range(Tail(run.dbs))}

\* The report of a run that is at this target, with these cells of it left and so many
\* rows of one cell skipped: the targets that are done are complete, and of the others
\* there is nothing but what is done of this one.
SoFar(rep, cmd, at, left, cell, out) ==
    /\ \A p \in Positions :
          /\ p < at => Complete(rep, cmd, p)
          /\ p >= at => Outcomes(rep, Whole(p)) = IF Targets[p] = NULL THEN 1 ELSE 0
          /\ p > at => \A x \in Cells(p, cmd) : Outcomes(rep, x) = 0 /\ Count(rep.skipped, x) = 0
    /\ at \in Positions =>
          \A x \in Cells(at, cmd) :
             IF x \in left
             THEN Outcomes(rep, x) = 0 /\ Count(rep.skipped, x) = IF x = cell THEN out ELSE 0
             ELSE Outcomes(rep, x) = 1
    /\ AccountsForRows(rep, cmd)

\* What ReportComplete rests on.
Current == IF Working THEN Cell ELSE Whole(run.at)
Out     == IF run.pc \in {"merge", "diagnose"} THEN Cardinality(run.skipped) ELSE 0

ReportSoFar == run.pc # "none" => SoFar(report, run.cmd, run.at, Left, Current, Out)
==============================================================================
