----------------------------- MODULE MetadataProps ----------------------------
(***************************************************************************)
(* What is claimed of Metadata.                                            *)
(***************************************************************************)
EXTENDS Metadata

Stages == {"idle", "entering", "reading", "readingFields", "upserting", "sweeping", "closing", "done"}

Posts == UNION {Ops[r] : r \in Requests}

\* Columns of a row that are assigned.
SetOK(set) ==
    /\ DOMAIN set \subseteq {"type", "text", "hash", "is_active"}
    /\ \A c \in DOMAIN set : set[c] \in (IF c = "hash" THEN Texts \X Texts
                                        ELSE IF c = "is_active" THEN BOOLEAN ELSE Texts)

\* What a request holds in its hands, and where it is.
ReqOK(q) ==
    /\ DOMAIN q = DOMAIN Idle /\ q.pc \in Stages /\ q.code \in {NULL, 200, 500} /\ q.late \in BOOLEAN
    /\ q.pc \notin {"idle", "done"} => q.op \in Posts
    /\ q.found # NULL => SourceOK(q.found)
    /\ q.held # NULL => SourceOK(q.held) /\ LastOK(runs, q.op.source, q.held.last)
    /\ q.at \in 0..(IF q.pc \in {"idle", "done"} THEN 0 ELSE Len(Items(q.op)))
    /\ DOMAIN q.seen \cup DOMAIN q.tx \cup DOMAIN q.ups \subseteq RowKeys
    /\ \A k \in DOMAIN q.seen : RowOK(q.seen[k])
    /\ \A k \in DOMAIN q.tx : RowOK(q.tx[k])
    /\ \A k \in DOMAIN q.ups : SetOK(q.ups[k])

SourcesOK ==
    /\ DOMAIN sources \subseteq SourceKeys
    /\ \A s \in DOMAIN sources : SourceOK(sources[s]) /\ LastOK(runs, s, sources[s].last)

RowsOK ==
    /\ DOMAIN rows \subseteq RowKeys
    /\ \A k \in DOMAIN rows :
          RowOK(rows[k]) /\ k[1] \in DOMAIN sources /\ (Len(k) = 3 => <<k[1], k[2]>> \in DOMAIN rows)

RunsOK ==
    /\ DOMAIN runs \subseteq Requests \cup DOMAIN InitRuns
    /\ \A n \in DOMAIN runs : RunOK(runs[n]) /\ runs[n].source \in DOMAIN sources

\* Rows hold values of their columns' types; a field has its model and a model its
\* source; what is seen of a run is its end, with the counts of its payload if it is a
\* success and none if it failed; and the last sync of a source is one of its runs that
\* succeeded.
TypeOK ==
    /\ SourcesOK /\ RowsOK /\ RunsOK
    /\ DOMAIN req = Requests /\ \A r \in Requests : ReqOK(req[r])
    /\ raced \in BOOLEAN

\* The models and fields of a payload, as a query lists them.
Cells(i) == [type |-> i.type, text |-> i.text, hash |-> Hash(i)]
Asked(o) ==
    LET all == ToSet(Items(o)) IN
    {<<e.key[2], [columns |-> Cells(e),
                  fields  |-> {<<f.key[3], Cells(f)>> :
                                  f \in {g \in all : Len(g.key) = 3 /\ g.key[2] = e.key[2]}}]>> :
        e \in {g \in all : Len(g.key) = 2}}

Payloads == {[source |-> o.source, info |-> o.info, snapshot |-> o, listed |-> Asked(o)] :
                o \in Posts}

Book == INSTANCE MetadataBook WITH book <- calm

\* What the queries answer of a source is, as long as no sync has succeeded on reads
\* that another has overtaken, the last snapshot that succeeded: its models and
\* fields, no others, each with the columns of the snapshot, back again if they had
\* been away, and counted right; a sync that fails, at whatever statement, changes
\* none of it.
FollowsBook == Book!Spec

(***************************************************************************)
(* What these rest on.                                                     *)
(***************************************************************************)

\* A run is stored with the commit of its sync.
EndedOnce == IsFiniteSet(DOMAIN runs) /\ \A n \in DOMAIN runs \cap Requests : req[n].pc = "done"

\* Syncs are numbered as they begin.
InOrder == \A r, s \in Requests : s < r /\ req[r].pc # "idle" => req[s].pc # "idle"

\* A sync knows its source, has begun with its models, and flushes nothing but rows of
\* its source that it will see: t and ss are what is committed.
HandsFit(q, t, ss) ==
    LET items == Items(q.op)
        view  == Over(q.tx, t)
    IN
    /\ q.pc = "entering" => q.found = NULL \/ q.op.source \in DOMAIN ss
    /\ q.pc # "entering" => q.held # NULL \/ q.op.source \in DOMAIN ss
    /\ q.pc \in {"entering", "reading", "readingFields"} => q.tx = Nothing
    /\ q.pc \in {"entering", "reading", "readingFields", "upserting"} => q.ups = Nothing
    /\ q.pc \in {"entering", "reading"} => q.seen = Nothing
    /\ q.pc \in {"entering", "reading", "readingFields"} => q.at = 0
    /\ q.pc = "entering" => q.held = NULL
    /\ DOMAIN q.seen \cup DOMAIN q.ups \subseteq DOMAIN view
    /\ \A k \in DOMAIN q.seen \cup DOMAIN q.tx \cup DOMAIN q.ups :
          k[1] = q.op.source /\ (Len(k) = 3 => <<k[1], k[2]>> \in DOMAIN view)
    /\ \A k \in 1..q.at : items[k].key \in DOMAIN q.seen

Fitting == \A r \in Requests : Open(r) => HandsFit(req[r], rows, sources)

\* The row of a source that a sync has written and not committed is the stored one but
\* for the columns that were not as it asks, and no other has written it.
HeldIsCurrent ==
    \A r \in Requests : Open(r) /\ req[r].held # NULL =>
        /\ \A s \in Others(r) : req[s].op.source = req[r].op.source => req[s].held = NULL
        /\ req[r].held = IF req[r].op.source \in DOMAIN sources
                         THEN Renamed(sources[req[r].op.source], req[r].found, req[r].op) ELSE Created(req[r].op)

\* A row is as an item asks.
AsAsked(row, i) == row.type = i.type /\ row.text = i.text /\ row.hash = Hash(i) /\ row.is_active = TRUE

\* How far a sync has come that nobody has overtaken: the rows it has read are the stored
\* ones, the items it has handled are as it asks, and at last nothing else is active.
Progress(q, t) ==
    LET items   == Items(q.op)
        view    == Over(q.tx, t)
        flushed == Over(Written(view, q.ups), view)
        handled == IF q.pc = "upserting" THEN {items[k].key : k \in 1..q.at} ELSE KeysIn(items)
    IN
    /\ q.pc = "readingFields" => q.seen = Of(t, {q.op.source} \X ModelLabels)
    /\ q.pc = "upserting" =>
          /\ DOMAIN q.seen = {k \in DOMAIN view : k[1] = q.op.source}
          /\ \A k \in 1..q.at : AsAsked(view[items[k].key], items[k])
    /\ q.pc \in {"upserting", "sweeping", "closing"} =>
          /\ DOMAIN q.tx \subseteq handled
          /\ \A k \in DOMAIN q.ups \ handled : DOMAIN q.ups[k] = {"is_active"}
    /\ q.pc \in {"upserting", "sweeping"} =>
          \A k \in {j \in DOMAIN t \ handled : j[1] = q.op.source} :
              /\ k \in DOMAIN q.seen /\ q.seen[k] = t[k]
              /\ Len(k) = 3 => k \notin DOMAIN q.ups
    /\ q.pc \in {"sweeping", "closing"} =>
          /\ \A k \in DOMAIN items : items[k].key \in DOMAIN view /\ AsAsked(flushed[items[k].key], items[k])
          /\ Active(flushed, q.op.source, 2) \subseteq KeysIn(items)
    /\ q.pc = "closing" =>
          \A k \in Active(flushed, q.op.source, 3) : <<k[1], k[2]>> \in KeysIn(items) => k \in KeysIn(items)

UpToDate(r, q) ==
    /\ \A n \in DOMAIN runs : n < r
    /\ q.pc = "entering" => q.found = IF q.op.source \in DOMAIN sources THEN sources[q.op.source] ELSE NULL
    /\ q.pc # "entering" => (IF q.held = NULL THEN sources[q.op.source] ELSE q.held).info = q.op.info
    /\ ~raced => Progress(q, rows)

\* What a sync has in hand is still so, and none that began after it is through before.
NotOvertaken == \A r \in Requests : Open(r) /\ ~req[r].late => UpToDate(r, req[r])

\* Until a sync succeeds on reads that another has overtaken, the book is what the
\* queries answer, and a row's hash is that of its columns.
CalmIsCurrent ==
    ~raced => /\ calm = Answers(sources, rows, runs)
              /\ IsFiniteSet(DOMAIN rows) /\ \A k \in DOMAIN rows : rows[k].hash = Hash(rows[k])
==============================================================================
