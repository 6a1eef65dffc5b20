------------------------------- MODULE Metadata -------------------------------
(***************************************************************************)
(* The metadata registry (src/app/metadata): an application, a source,     *)
(* sends what models and fields it has, and the registry becomes that: new *)
(* rows are inserted, changed ones updated, missing ones made inactive.    *)
(* One sync is one transaction; all but the registration of the source and *)
(* the run is in a savepoint, so that a failure is on record.              *)
(*                                                                         *)
(* X_Defect before an operator X is X with a plausible bug, see Purchases. *)
(***************************************************************************)
EXTENDS Naturals, SequencesExt, Orm

CONSTANTS
    NULL,
    SourceKeys,
    Words,        \* what a column of a source may hold
    ModelLabels,
    FieldNames,
    Texts,        \* what a column may hold
    Requests,     \* numbers: syncs, each run once; the id of the run it inserts
    Ops,          \* by request, the payloads it may have
    InitSources,  \* the rows that exist at first, and the runs before
    InitRows,
    InitRuns

\* An entity is known by its source and its model label, a field by these and its
\* name: both are unique, and no row is ever deleted.
RowKeys == (SourceKeys \X ModelLabels) \cup (SourceKeys \X ModelLabels \X FieldNames)

\* Two columns stand for all those that are hashed.
Hash(i) == <<i.type, i.text>>
RowOK(row) ==
    /\ DOMAIN row = {"type", "text", "hash", "is_active"}
    /\ {row.type, row.text} \subseteq Texts /\ row.hash \in Texts \X Texts /\ row.is_active \in BOOLEAN

\* What a payload says of its source; every column is assigned and flushed by itself.
InfoColumns == {"source_name", "organization_code", "app_name", "app_version"}
Infos == [InfoColumns -> Words]

SourceOK(row) == DOMAIN row = {"info", "last"} /\ row.info \in Infos /\ row.last \in Nat \cup {NULL}

\* What a payload says, in the order in which it is handled: a model, its fields,
\* the next model.
ModelItems(o, m) ==
    <<[key |-> <<o.source, m.label>>, type |-> m.type, text |-> m.text]>>
      \o [k \in DOMAIN m.fields |-> [key  |-> <<o.source, m.label, m.fields[k].name>>,
                                     type |-> m.fields[k].type, text |-> m.fields[k].text]]
Items(o) == FlattenSeq([k \in DOMAIN o.models |-> ModelItems(o, o.models[k])])

KeysIn(items) == {items[k].key : k \in DOMAIN items}

Payload(o) ==
    /\ o.models \in Seq(Range(o.models)) /\ \A m \in Range(o.models) : m.fields \in Seq(Range(m.fields))
    /\ o.source \in SourceKeys /\ o.info \in Infos
    /\ KeysIn(Items(o)) \subseteq RowKeys /\ IsInjective([k \in DOMAIN Items(o) |-> Items(o)[k].key])
    /\ \A k \in DOMAIN Items(o) : Hash(Items(o)[k]) \in Texts \X Texts

RunOK(row) ==
    /\ Payload(row.snapshot) /\ row.source = row.snapshot.source
    /\ row.status \in {"success", "failed"}
    /\ row.models \in Nat /\ row.fields \in Nat
    /\ row.models + row.fields = (IF row.status = "success" THEN Len(Items(row.snapshot)) ELSE 0)

\* The last sync of a source is one of its runs that succeeded.
LastOK(rs, s, last) == last # NULL => last \in DOMAIN rs /\ rs[last].source = s /\ rs[last].status = "success"

ASSUME NullAssumption == NULL \notin SourceKeys \cup Nat \cup [info : Infos, last : Nat \cup {NULL}]
ASSUME RequestsAssumption ==
    /\ Requests \cup DOMAIN InitRuns \subseteq Nat /\ IsFiniteSet(DOMAIN InitRuns)
    /\ \A n \in DOMAIN InitRuns : \A r \in Requests : n < r
ASSUME OpsAssumption == \A r \in Requests : \A o \in Ops[r] : Payload(o)
ASSUME InitAssumption ==
    /\ DOMAIN InitSources \subseteq SourceKeys
    /\ \A s \in DOMAIN InitSources : SourceOK(InitSources[s]) /\ LastOK(InitRuns, s, InitSources[s].last)
    /\ IsFiniteSet(DOMAIN InitRows) /\ DOMAIN InitRows \subseteq RowKeys
    /\ \A k \in DOMAIN InitRows :
          /\ k[1] \in DOMAIN InitSources /\ (Len(k) = 3 => <<k[1], k[2]>> \in DOMAIN InitRows)
          /\ RowOK(InitRows[k]) /\ InitRows[k].hash = Hash(InitRows[k])
    /\ \A n \in DOMAIN InitRuns : RunOK(InitRuns[n]) /\ InitRuns[n].source \in DOMAIN InitSources

VARIABLES
    sources,    \* metadata_sources: [info, last], `last` the sync of last_sync_at
    rows,       \* metadata_entities and metadata_fields
    runs,       \* metadata_sync_runs, each with its metadata_snapshots row
    req,        \* the syncs and what their transactions hold
    raced,      \* history: a sync has succeeded on reads older than another's commit
    calm        \* history: what the queries answered before that

tables == <<sources, rows, runs>>
vars == <<sources, rows, runs, req, raced, calm>>

Nothing == [x \in {} |-> NULL]

Idle == [pc |-> "idle", op |-> NULL, found |-> NULL, held |-> NULL, seen |-> Nothing,
         at |-> 0, ups |-> Nothing, tx |-> Nothing, late |-> FALSE, code |-> NULL]
Done(code) == [Idle EXCEPT !.pc = "done", !.code = code]

Open(r) == req[r].pc \notin {"idle", "done"}
Others(r) == {s \in Requests \ {r} : Open(s)}

Goes(r, q) == req' = [req EXCEPT ![r] = q] /\ UNCHANGED <<sources, rows, runs, raced, calm>>

(***************************************************************************)
(* What the query service answers.                                         *)
(***************************************************************************)

Active(t, s, size) == {k \in DOMAIN t : k[1] = s /\ Len(k) = size /\ t[k].is_active}

Columns(row) == [type |-> row.type, text |-> row.text, hash |-> row.hash]

\* list_active_entities_for_source, and get_active_entity_detail of each of them.
Detail(t, e) == [columns |-> Columns(t[e]),
                 fields  |-> {<<k[3], Columns(t[k])>> : k \in {j \in Active(t, e[1], 3) : j[2] = e[2]}}]
Listed(t, s) == {<<e[2], Detail(t, e)>> : e \in Active(t, s, 2)}

\* get_source_summary: the counts of what is active in what is active, and the run
\* that was begun last.
Latest(t, s) ==
    LET mine == {n \in DOMAIN t : t[n].source = s} IN
    IF mine = {} THEN NULL
    ELSE LET n == CHOOSE m \in mine : \A l \in mine : l <= m
         IN  [status |-> t[n].status, snapshot |-> t[n].snapshot]

Shown(t, s) == {k \in Active(t, s, 3) : t[<<s, k[2]>>].is_active}

Summary(ss, t, rs, s) ==
    [info |-> ss[s].info, last |-> ss[s].last,
     entities |-> Cardinality(Active(t, s, 2)),
     fields   |-> Cardinality(Shown(t, s)),
     latest   |-> Latest(rs, s)]

Answers(ss, t, rs) ==
    [s \in DOMAIN ss |-> [summary |-> Summary(ss, t, rs, s), listed |-> Listed(t, s)]]

Init ==
    /\ sources = InitSources
    /\ rows = InitRows
    /\ runs = InitRuns
    /\ req = [r \in Requests |-> Idle]
    /\ raced = FALSE
    /\ calm = Answers(sources, rows, runs)

(***************************************************************************)
(* The source and the run.                                                 *)
(***************************************************************************)

\* get_source_by_key.  Syncs are numbered in the order in which they do this, which
\* is that of their started_at.
Find(r, o) ==
    /\ req[r].pc = "idle"
    /\ \A s \in Requests : s < r => req[s].pc # "idle"
    /\ Goes(r, [Idle EXCEPT !.pc = "entering", !.op = o,
                            !.found = IF o.source \in DOMAIN sources THEN sources[o.source] ELSE NULL])

\* Somebody has written the row of the source and not committed: it is waited for.
SourceHeld(r) == \E s \in Others(r) : req[s].op.source = req[r].op.source /\ req[s].held # NULL

\* create_source.
Created(o) == [info |-> o.info, last |-> NULL]

\* update_source as the sync begins: of the columns, those that differ from the row
\* that was found are written, over what the row holds by now.
Renamed(row, found, o) ==
    [info |-> Assign(row.info, [c \in Dirty(found.info, o.info) |-> o.info[c]]), last |-> row.last]

\* create_source or update_source, create_sync_run and create_snapshot.  Another may
\* have inserted the source meanwhile; nothing is stored then.
Enter(r) ==
    LET o == req[r].op
        in == [req[r] EXCEPT !.pc = "reading"]
    IN
    /\ req[r].pc = "entering"
    /\ \/ /\ req[r].found = NULL
          /\ ~SourceHeld(r)
          /\ IF o.source \in DOMAIN sources THEN Goes(r, Done(500))
             ELSE Goes(r, [in EXCEPT !.held = Created(o)])
       \/ /\ req[r].found # NULL
          /\ IF req[r].found.info = o.info THEN Goes(r, in)
             ELSE ~SourceHeld(r) /\ Goes(r, [in EXCEPT !.held = Renamed(sources[o.source], req[r].found, o)])

(***************************************************************************)
(* _run_full_sync.                                                         *)
(***************************************************************************)

\* What the transaction sees of the rows: what it has flushed, over what is committed.
Over(t, u) == [k \in DOMAIN t \cup DOMAIN u |-> IF k \in DOMAIN t THEN t[k] ELSE u[k]]
View(r)    == Over(req[r].tx, rows)

Of(t, keys) == [k \in DOMAIN t \cap keys |-> t[k]]

\* get_entities_by_source_id.
ReadEntities(r) ==
    /\ req[r].pc = "reading"
    /\ Goes(r, [req[r] EXCEPT !.pc = "readingFields",
                              !.seen = Of(rows, {req[r].op.source} \X ModelLabels)])

\* get_fields_by_entity_ids: the fields of the entities that were read.
ReadFields(r) ==
    /\ req[r].pc = "readingFields"
    /\ Goes(r, [req[r] EXCEPT !.pc = "upserting",
                              !.seen = Over(@, Of(rows, {k \in RowKeys : Len(k) = 3 /\ <<k[1], k[2]>> \in DOMAIN @}))])

\* The row that an item asks for.
Wanted(i) == [type |-> i.type, text |-> i.text, hash |-> Hash(i), is_active |-> TRUE]

\* upsert_entity and upsert_field leave such a row alone.
Unchanged_Inactive(row, i) == row.hash = Hash(i)
Unchanged(row, i) == row.hash = Hash(i) /\ row.is_active

\* What they assign of the other rows: a flush writes no more than what differs
\* from what the session has read.
Updates(seen, items) ==
    LET item(k) == CHOOSE i \in items : i.key = k
    IN  [k \in {i.key : i \in {j \in items : ~Unchanged(seen[j.key], j)}} |->
            [c \in Dirty(seen[k], Wanted(item(k))) |-> Wanted(item(k))[c]]]

\* Rows, or the keys of new ones, that others have written are waited for.
Free(r, keys) == \A s \in Others(r) : keys \cap DOMAIN req[s].tx = {}

Written(view, ups) == [k \in DOMAIN ups |-> Assign(view[k], ups[k])]

\* Of the items that are left, the first whose row the session has not read, and
\* those before it.
NextNew(r) ==
    LET items == Items(req[r].op)
        new   == {k \in DOMAIN items : k > req[r].at /\ items[k].key \notin DOMAIN req[r].seen}
    IN  IF new = {} THEN Len(items) + 1 ELSE CHOOSE k \in new : \A l \in new : k <= l
Before(r, n) == {Items(req[r].op)[k] : k \in req[r].at + 1 .. n - 1}

\* How many of the items are models, or fields.
Sized(items, size) == Cardinality({k \in DOMAIN items : Len(items[k].key) = size})

\* A row of metadata_sync_runs and of metadata_snapshots, as the transaction ends.
Run(r, status, items) ==
    [source |-> req[r].op.source, snapshot |-> req[r].op, status |-> status,
     models |-> Sized(items, 2), fields |-> Sized(items, 3)]

\* Others that are open have read what is now the past.
Answer(r, code) ==
    [s \in Requests |-> IF s = r THEN Done(code)
                        ELSE IF Open(s) THEN [req[s] EXCEPT !.late = TRUE] ELSE req[s]]

\* The savepoint is rolled back, finish_sync_run_failure, and the commit.
Failed_LeftOpen(r) ==
    /\ runs' = Put(runs, r, Run(r, "in_progress", <<>>))
    /\ sources' = IF req[r].held = NULL THEN sources ELSE Put(sources, req[r].op.source, req[r].held)
    /\ req' = Answer(r, 500)
    /\ calm' = IF raced THEN calm ELSE Answers(sources', rows, runs')
    /\ UNCHANGED <<rows, raced>>
Failed(r) ==
    /\ runs' = Put(runs, r, Run(r, "failed", <<>>))
    /\ sources' = IF req[r].held = NULL THEN sources ELSE Put(sources, req[r].op.source, req[r].held)
    /\ req' = Answer(r, 500)
    /\ calm' = IF raced THEN calm ELSE Answers(sources', rows, runs')
    /\ UNCHANGED <<rows, raced>>

\* The loop over the items up to the next that is new, which is inserted with a
\* flush of all that was assigned: another may have inserted it meanwhile.
Upsert(r) ==
    LET n    == NextNew(r)
        item == Items(req[r].op)[n]
        ups  == Updates(req[r].seen, Before(r, n))
        made == [k \in {item.key} |-> Wanted(item)]
    IN
    /\ req[r].pc = "upserting"
    /\ n <= Len(Items(req[r].op))
    /\ Free(r, DOMAIN ups \cup {item.key})
    /\ IF item.key \in DOMAIN rows THEN Failed(r)
       ELSE Goes(r, [req[r] EXCEPT !.at = n, !.seen = Over(made, @),
                                   !.tx = Over(made, Over(Written(View(r), ups), @))])

\* The rest of the loop, which inserts nothing, and mark_missing_entities_inactive:
\* the rows are those that are active by now, and one that the session has
\* read before as inactive is inactive for it still.
Off(r, keys) == [k \in {j \in keys : j \notin DOMAIN req[r].seen \/ req[r].seen[j].is_active} |->
                    [is_active |-> FALSE]]

MissEntities(r) ==
    LET o == req[r].op
        missing == {k \in Active(View(r), o.source, 2) : k \notin KeysIn(Items(o))}
    IN
    /\ req[r].pc = "upserting"
    /\ NextNew(r) > Len(Items(o))
    /\ Goes(r, [req[r] EXCEPT !.pc = "sweeping",
                              !.ups = Over(Updates(req[r].seen, Before(r, NextNew(r))), Off(r, missing))])

\* mark_missing_fields_inactive: those of the models of the payload.
MissFields(r) ==
    LET o == req[r].op
        missing == {k \in Active(View(r), o.source, 3) :
                       <<k[1], k[2]>> \in KeysIn(Items(o)) /\ k \notin KeysIn(Items(o))}
    IN
    /\ req[r].pc = "sweeping"
    /\ Goes(r, [req[r] EXCEPT !.pc = "closing", !.ups = Over(@, Off(r, missing))])

\* last_sync_at, finish_sync_run_success, the last flush and the commit.
Finish(r) ==
    LET o   == req[r].op
        row == IF req[r].held = NULL THEN sources[o.source] ELSE req[r].held
    IN
    /\ req[r].pc = "closing"
    /\ Free(r, DOMAIN req[r].ups) /\ ~SourceHeld(r)
    /\ rows' = Over(Written(View(r), req[r].ups), View(r))
    /\ sources' = Put(sources, o.source, Assign(row, [last |-> r]))
    /\ runs' = Put(runs, r, Run(r, "success", Items(o)))
    /\ req' = Answer(r, 200)
    /\ raced' = (raced \/ req[r].late)
    /\ calm' = IF raced' THEN calm ELSE Answers(sources', rows', runs')

\* A statement of the savepoint fails: a value that its column does not hold, a
\* deadlock that the database ends at this transaction's expense.
Fail(r) ==
    /\ req[r].pc \in {"reading", "readingFields", "upserting", "sweeping", "closing"}
    /\ Failed(r)

\* The process or its connection dies, or a deadlock is ended before the savepoint.
Abort(r) == Open(r) /\ Goes(r, Done(500))

Terminated == (\A r \in Requests : req[r].pc = "done") /\ UNCHANGED vars

Next ==
    \/ \E r \in Requests :
          \/ \E o \in Ops[r] : Find(r, o)
          \/ Enter(r) \/ ReadEntities(r) \/ ReadFields(r) \/ Upsert(r)
          \/ MissEntities(r) \/ MissFields(r) \/ Finish(r)
          \/ Fail(r) \/ Abort(r)
    \/ Terminated

Spec == Init /\ [][Next]_vars
==============================================================================
