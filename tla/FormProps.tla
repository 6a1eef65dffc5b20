------------------------------ MODULE FormProps ------------------------------
(***************************************************************************)
(* What is claimed of Forms.                                               *)
(***************************************************************************)
EXTENDS Forms

CONSTANT MaxNodes     \* how many nodes a payload has at most

(***************************************************************************)
(* Types.                                                                  *)
(***************************************************************************)

Stages == {"idle", "walking", "flushing", "moving", "syncing", "closing", "done"}

ReqOK(q) ==
    /\ DOMAIN q = DOMAIN Idle
    /\ q.pc \in Stages
    /\ q.code \in {NULL, 200, 404, 409, 422, 500}
    /\ q.pc \notin {"idle", "done"} => \E r \in Requests : q.op \in Ops[r]
    /\ q.made \in Nat
    /\ DOMAIN q.tx \subseteq FieldIds /\ \A i \in DOMAIN q.tx : FieldOK(q.tx[i])
    /\ DOMAIN q.ftx \subseteq FormIds /\ \A i \in DOMAIN q.ftx : FormOK(q.ftx[i])
    /\ q.gone \subseteq FieldIds \ DOMAIN q.tx
    /\ q.doomed \cup q.moved \cup q.visit \subseteq FieldIds
    /\ q.pc = "syncing" <=> q.stack # <<>>
    /\ q.pc = "moving" <=> q.visit # {}
    /\ q.pc = "walking" <=> q.up # NULL

FormsOK(fs) ==
    /\ DOMAIN fs \subseteq FormIds /\ \A g \in DOMAIN fs : FormOK(fs[g])
    /\ \A g, h \in DOMAIN fs : fs[h].name = fs[g].name => g = h

FieldsOK(t, fs) ==
    /\ DOMAIN t \subseteq FieldIds
    /\ \A f \in DOMAIN t :
          /\ FieldOK(t[f]) /\ t[f].form \in DOMAIN fs /\ t[f].parent \in DOMAIN t \cup {NULL}
          /\ \A e \in DOMAIN t : FormKey(t[e]) = FormKey(t[f]) => e = f

\* Rows hold values of their columns' types and refer to rows that exist, no two
\* fields of a form and no two forms have one key, and every request is at one of
\* its stages.
TypeOK ==
    /\ FormsOK(forms) /\ FieldsOK(fields, forms)
    /\ DOMAIN req = Requests /\ \A r \in Requests : ReqOK(req[r])
    /\ raced \in BOOLEAN

(***************************************************************************)
(* What holds however requests overlap.                                    *)
(***************************************************************************)

Cyclic(table) == Below(table, {f \in DOMAIN table : table[f].parent = NULL}) # DOMAIN table

\* Fields are moved below each other only past the walk up the parents: when a
\* commit closes a cycle, a field that was walked has since got another parent.
CyclesNeedRaces ==
    [][~Cyclic(fields) /\ Cyclic(fields') =>
          \E r \in Requests :
              /\ req[r].pc = "closing" /\ req'[r].code = 200
              /\ \E i \in DOMAIN req[r].walked :
                    /\ i \in DOMAIN fields
                    /\ fields[i].parent # req[r].walked[i].parent]_vars

\* The loop of the walk has come back to a field it has seen: it will not end.
Stuck(r) == req[r].pc = "walking" /\ req[r].up \in DOMAIN req[r].walked

\* The walk up the parents comes to its end, but for one that has met a cycle, which
\* takes a race to make.
WalksEnd == \A r \in Requests : req[r].pc = "walking" ~> (req[r].pc # "walking" \/ (Stuck(r) /\ raced))

(***************************************************************************)
(* What holds of requests whose reads nobody has overtaken.                *)
(***************************************************************************)

\* The nodes of a payload, each with the key of the node above it.
Nested(nodes) ==
    LET level[n \in 0..MaxNodes] ==
            IF n = 0 THEN {<<NULL, nodes[k]>> : k \in 1..Len(nodes)}
            ELSE UNION {{<<x[2].key, x[2].subs[k]>> : k \in 1..Len(x[2].subs)} : x \in level[n-1]}
    IN  UNION {level[n] : n \in 0..MaxNodes}

Tree(nodes) == {<<x[1], x[2].key, x[2].label>> : x \in Nested(nodes)}

StoredTree(table, form, top) ==
    {<<IF table[f].parent = top THEN NULL ELSE table[table[f].parent].key, table[f].key, table[f].label>> :
        f \in Shown(table, form, top)}

OnFields(q) == q.op.kind \in {"newField", "editField", "seed"}

Payload(o) ==
    CASE o.kind = "newField" -> o.node.subs
      [] o.kind = "editField" -> o.subs
      [] o.kind = "seed" -> o.fields

\* No payload is deeper than the levels of Nested.
ASSUME MaxNodesAssumption == MaxNodes \in Nat
ASSUME PayloadAssumption ==
    \A r \in Requests : \A o \in Ops[r] :
        o.kind \in {"newField", "seed"} \/ (o.kind = "editField" /\ o.subs # NULL) =>
            \A x \in Nested(Payload(o)) : \A k \in 1..Len(x[2].subs) :
                <<x[2].key, x[2].subs[k]>> \in Nested(Payload(o))

\* Children of one node have keys of their own.
KeysDiffer(nodes) == \A j, k \in 1..Len(nodes) : nodes[j].key = nodes[k].key => j = k
Unambiguous(nodes) == KeysDiffer(nodes) /\ \A x \in Nested(nodes) : KeysDiffer(x[2].subs)

\* A payload is to replace what is below the field of the request, or in its form.
Replaces(q) ==
    /\ OnFields(q)
    /\ q.op.kind = "editField" => q.op.subs # NULL /\ q.seen.form = Assign(q.seen, q.op.set).form
    /\ Unambiguous(Payload(q.op))

\* Until a request has overtaken another, what is shown after an answered request below
\* its field, or in its form, is its payload and nothing else: what the payload does not
\* name is gone.  An update that moves its field to another form is not in this, nor is a
\* payload that gives two children of one field one key: see the README.
PayloadStored ==
    [][\A r \in Requests :
          /\ req[r].pc = "closing" /\ req'[r].pc = "done" /\ req'[r].code = 200
          /\ ~raced /\ ~req[r].late /\ Replaces(req[r])
          => LET o == req[r].op IN
             /\ o.kind = "newField" =>
                   StoredTree(fields', o.form, req[r].field) = Tree(o.node.subs)
             /\ o.kind = "editField" =>
                   StoredTree(fields', fields'[o.field].form, o.field) = Tree(o.subs)
             /\ o.kind = "seed" =>
                   \E g \in DOMAIN forms' :
                      forms'[g].name = o.row.name /\ StoredTree(fields', g, NULL) = Tree(o.fields)]_vars

Book == INSTANCE FormBook WITH book <- calm

\* Up to the first race the fields are a forest within each form, and a request
\* changes what is below one field, or in one form, and nothing else.
FollowsBook == Book!Spec

(***************************************************************************)
(* What the types rest on: how transactions are kept apart.                *)
(***************************************************************************)

\* A frame of the stack has its payload.
StackOK(q) ==
    /\ q.stack \in Seq({q.stack[k] : k \in DOMAIN q.stack})
    /\ \A k \in DOMAIN q.stack : "rest" \in DOMAIN q.stack[k] /\ q.stack[k].rest \in Seq(Nodes)

\* What a request has done by the stage it is at.
AtWork(q) ==
    /\ q.pc \in {"idle", "done"} => q.tx = Nothing /\ q.gone = {} /\ q.ftx = Nothing
    /\ q.pc \in {"walking", "flushing"} => q.ftx = Nothing
    /\ q.pc = "moving" => q.op.kind = "editField"
    /\ q.pc \notin {"idle", "done"} =>
          /\ q.op.kind \in {"newForm", "editForm", "dropForm"} =>
                q.pc = "closing" /\ q.tx = Nothing /\ q.gone = {} /\ q.ftx = Nothing
          /\ q.op.kind = "editForm"  => FormOK(q.seen)
          /\ q.op.kind = "editField" => FieldOK(q.seen)

\* The constraints of form_fields hold of what a transaction sees, t being committed.
FieldsFit(q, t) ==
    LET view == Over(t, q.tx, q.gone) IN
    /\ q.gone \subseteq DOMAIN t /\ DOMAIN q.tx \cap q.gone = {}
    /\ \A i \in DOMAIN view : view[i].parent \in DOMAIN view \cup {NULL}
    /\ \A i \in DOMAIN q.tx : \A j \in DOMAIN view \ {i} : FormKey(view[j]) # FormKey(q.tx[i])

\* So do those of form_schemas, fs being committed.
FormsFit(q, fs) ==
    LET view == Over(fs, q.ftx, {}) IN
    /\ \A i \in DOMAIN q.tx : q.tx[i].form \in DOMAIN view
    /\ \A g \in DOMAIN q.ftx : \A h \in DOMAIN view \ {g} : view[h].name # q.ftx[g].name

\* The ids of the fields that r inserts.
NewOf(r) == {r} \X (Nat \ {0})

\* What request r, as q, has in its hands fits to the tables t and fs.  What it has
\* inserted appears with its commit.
Fits(r, q, t, fs) ==
    /\ IsFiniteSet(DOMAIN q.tx) /\ DOMAIN q.tx \subseteq DOMAIN t \cup NewOf(r)
    /\ q.pc # "done" => DOMAIN t \cap NewOf(r) = {}
    /\ FieldsFit(q, t) /\ FormsFit(q, fs)
    /\ StackOK(q) /\ AtWork(q)

\* The rows that tx refers to and t does not.
Refs(tx, t) == {tx[j].parent : j \in {i \in DOMAIN tx : i \in DOMAIN t => t[i].parent # tx[i].parent}}

\* Neither of two transactions has a row or a key of the other, or refers to what the
\* other deletes.
Apart(p, q, t) ==
    /\ (DOMAIN p.tx \cup p.gone) \cap (DOMAIN q.tx \cup q.gone) = {}
    /\ \A i \in DOMAIN p.tx : \A j \in DOMAIN q.tx : FormKey(p.tx[i]) # FormKey(q.tx[j])
    /\ Refs(p.tx, t) \cap q.gone = {} /\ Refs(q.tx, t) \cap p.gone = {}
    /\ \A g \in DOMAIN p.ftx : \A h \in DOMAIN q.ftx : g # h /\ p.ftx[g].name # q.ftx[h].name

Isolated ==
    /\ IsFiniteSet(DOMAIN fields)
    /\ \A r \in Requests : Fits(r, req[r], fields, forms)
    /\ \A r, s \in Requests : r # s => Apart(req[r], req[s], fields)

\* Whatever the payloads and however requests overlap, transactions stay apart, and what
\* each has in its hands could be committed as it is: the keys are unique and the
\* references whole in what it sees, no other transaction has its rows or takes its keys,
\* and none deletes what it refers to.
IInv == TypeOK /\ Isolated

(***************************************************************************)
(* What cycles would take: the edges of the tree that a transaction        *)
(* changes.                                                                *)
(***************************************************************************)

Live == {s \in Requests : req[s].pc # "done"}

\* No request will insert a field i.
Settled(i, live) == \A s \in live : i \notin NewOf(s)

\* The parent that an update gives to its field.
Target(q) == Assign(q.seen, q.op.set).parent

\* The walk goes from the new parent up to a root, or to a row that has vanished for
\* good, and has not met the field.
Climbed(q, t, live) ==
    q.op.kind = "editField" =>
        /\ Settled(q.op.field, live) /\ q.op.field \notin DOMAIN q.walked
        /\ \A i \in DOMAIN q.walked :
              LET p == q.walked[i].parent IN
              /\ Settled(i, live)
              /\ \/ p \in DOMAIN q.walked \cup {NULL}
                 \/ q.pc = "walking" /\ p = q.up
                 \/ Settled(p, live) /\ p \notin DOMAIN t
        /\ q.pc = "walking" => \/ q.walked = Nothing /\ q.up = Target(q)
                               \/ Target(q) \in DOMAIN q.walked /\ Settled(q.up, live)
        /\ q.pc # "walking" => Target(q) \in DOMAIN q.walked \cup {NULL}
        /\ q.pc = "moving" => q.field = q.op.field

\* If r inserts i, it does so before the k-th.
Older(r, i, k) == i \in NewOf(r) => i[2] < k

\* Of the rows that exist only an update's own gets another parent, and what is
\* inserted is hung below what is older.
Edges(r, q, t) ==
    /\ \A i \in DOMAIN q.tx \cap DOMAIN t : q.tx[i].parent # t[i].parent =>
          q.op.kind = "editField" /\ i = q.op.field /\ q.tx[i].parent = Target(q)
    /\ \A i \in DOMAIN q.tx \ DOMAIN t : Older(r, i, q.made + 1) /\ Older(r, q.tx[i].parent, i[2])

\* The rows that a frame of the stack names are older than the k-th that r inserts.
FrameOlder(r, f, k) ==
    /\ {"parent", "existing"} \subseteq DOMAIN f
    /\ Older(r, f.parent, k) /\ \A i \in DOMAIN f.existing : Older(r, i, k)

Stacked(r, q) == \A k \in DOMAIN q.stack : FrameOlder(r, q.stack[k], q.made + 1)

Traces(r, q, t, live) ==
    /\ Climbed(q, t, live) /\ Edges(r, q, t) /\ Stacked(r, q)
    /\ q.op.kind = "newField" => Settled(q.op.parent, live)

Traced == \A r \in Requests : Open(r) => Traces(r, req[r], fields, Live)

(***************************************************************************)
(* What the refinement takes: a request whose reads nobody has overtaken   *)
(* writes within a tree, or a form, of the fields that are stored.         *)
(***************************************************************************)

\* The fields that exist at first are what requests leave that come one after another.
ASSUME InitForestAssumption ==
    Book!Forest(InitFields) /\ InitFields = [f \in DOMAIN InitFields |-> InitFields[f]]

\* The form of what is written.
To(r, q) ==
    CASE q.op.kind = "editField" -> Assign(q.seen, q.op.set).form
      [] q.op.kind = "seed"      -> IF q.seen = NULL THEN r ELSE q.seen.id
      [] OTHER                   -> q.op.form

\* The field that all that is written is below.
Root(q) ==
    CASE q.op.kind = "editField" -> {q.op.field}
      [] q.op.kind = "newField"  -> {q.field}
      [] OTHER                   -> {}

\* The rows that may be written, t being stored.
Plot(r, q, t) ==
    NewOf(r) \cup CASE q.op.kind = "editField" -> Below(t, {q.op.field})
                    [] q.op.kind = "seed"      -> {i \in DOMAIN t : t[i].form = To(r, q)}
                    [] OTHER                   -> {}

Inner(r, q, t) == Plot(r, q, t) \ Root(q)

\* What has been read is stored still.
Current(r, q, t) ==
    /\ q.op.kind = "newField" /\ q.op.parent # NULL => q.op.parent \in DOMAIN t /\ t[q.op.parent].form = q.op.form
    /\ \A i \in DOMAIN q.walked : i \in DOMAIN t /\ q.walked[i] = t[i]
    /\ q.op.kind = "editField" =>
          /\ q.op.field \in DOMAIN t /\ q.seen = t[q.op.field]
          /\ Target(q) \in DOMAIN q.walked => q.walked[Target(q)].form = To(r, q)
    /\ q.op.kind = "dropField" => q.op.field \in DOMAIN t /\ q.doomed = Below(t, {q.op.field})
    /\ q.op.kind = "dropForm"  => q.doomed = Below(t, {i \in DOMAIN t : t[i].form = q.op.form})

\* Nothing is written before the first flush, nor by an operation that has only one.
Unwritten(q) ==
    /\ ~OnFields(q) \/ q.pc \in {"walking", "flushing"} =>
          q.tx = Nothing /\ q.gone = {} /\ q.moved = {} /\ q.visit = {} /\ q.stack = <<>>
    /\ q.pc \in {"walking", "flushing"} => q.doomed = {}

\* The rows of a request are of its tree: neither its root nor others are deleted.
Within(r, q, t) ==
    LET plot == Plot(r, q, t)
        inner == Inner(r, q, t)
    IN  /\ DOMAIN q.tx \cup q.visit \subseteq plot /\ q.gone \cup q.doomed \cup q.moved \subseteq inner
        /\ \A k \in DOMAIN q.stack :
              /\ DOMAIN q.stack[k].existing \subseteq inner
              /\ q.stack[k].parent \in plot \/ (q.op.kind = "seed" /\ q.stack[k].parent = NULL)
        /\ \A i \in DOMAIN q.tx \ DOMAIN t :
              IF i \in Root(q) THEN q.tx[i].parent = q.op.parent
              ELSE q.tx[i].parent \in plot \/ (q.op.kind = "seed" /\ q.tx[i].parent = NULL)

\* The form of row i of the table once what is assigned is flushed.
After(r, q, table, i) == IF i \in q.moved THEN To(r, q) ELSE table[i].form

\* Rows that hang together are of one form, or about to be.
Formed(r, q, t) ==
    LET view == Over(t, q.tx, q.gone) IN
    /\ \A i \in DOMAIN q.tx : q.tx[i].form = To(r, q) \/ (i \in DOMAIN t /\ q.tx[i].form = t[i].form)
    /\ \A i \in DOMAIN view : view[i].parent # NULL =>
          \/ After(r, q, view, i) = After(r, q, view, view[i].parent)
          \/ view[i].parent \in q.visit
    /\ q.visit # {} => q.pc = "moving"
    /\ q.pc = "moving" => DOMAIN q.tx \subseteq Root(q) /\ q.seen.form # To(r, q)
    /\ \A i \in q.visit : i \in DOMAIN view /\ After(r, q, view, i) = To(r, q)
    /\ \A i \in q.moved : i \in DOMAIN view /\ view[i].form # To(r, q)
    /\ q.pc \notin {"walking", "flushing"} =>
          \A i \in Root(q) : i \in DOMAIN view \cap Plot(r, q, t) /\ view[i].form = To(r, q)
    /\ \A k \in DOMAIN q.stack :
          /\ q.stack[k].form = To(r, q)
          /\ q.stack[k].parent \in DOMAIN view => After(r, q, view, q.stack[k].parent) = To(r, q)
          /\ \A i \in DOMAIN q.stack[k].existing \cap DOMAIN view : view[i].form = To(r, q)

InTime(r, q, t) == Current(r, q, t) /\ Unwritten(q) /\ (OnFields(q) => Within(r, q, t) /\ Formed(r, q, t))

\* Until a request has overtaken another the fields are a forest with one form to a tree, what is
\* committed is what the calm keeps, and every transaction is in time: sync_direct_children and
\* _sync_children write below the field their request is about (service.py:163-174, :205-258).
Calm ==
    ~raced => /\ calm = fields /\ Book!Forest(fields) /\ fields = [i \in DOMAIN fields |-> fields[i]]
              /\ \A r \in Requests : Open(r) /\ ~req[r].late => InTime(r, req[r], fields)

(***************************************************************************)
(* What the payload takes: which row has been matched with which node.     *)
(***************************************************************************)

\* The field that the payload goes below; the roots of a form are below NULL.
Top(q) == CASE q.op.kind = "editField" -> q.op.field
            [] q.op.kind = "newField"  -> q.field
            [] OTHER                   -> NULL

\* What the payload, by m, has below row p.
SubsOf(q, m, p) == IF p = Top(q) THEN Payload(q.op) ELSE m[p].subs

Owners(q, m) == DOMAIN m \cup {Top(q)}

\* The first n nodes below p are matched, and no others.
Through(q, view, m, p, n) ==
    /\ \A k \in 1..n : \E i \in DOMAIN m : view[i].parent = p /\ m[i] = SubsOf(q, m, p)[k]
    /\ \A i \in DOMAIN m : view[i].parent = p => \E k \in 1..n : m[i] = SubsOf(q, m, p)[k]

Children(r, q, view, p) == {i \in ChildrenOf(view, p) : view[i].form = To(r, q)}

\* A row is as the node says, and where it says.
Matched(r, q, view, m, i) ==
    /\ view[i].form = To(r, q) /\ view[i].key = m[i].key /\ view[i].label = m[i].label
    /\ view[i].parent \in Owners(q, m)
    /\ <<IF view[i].parent = Top(q) THEN NULL ELSE view[view[i].parent].key, m[i]>> \in Nested(Payload(q.op))

KeysOf(nodes) == {nodes[k].key : k \in 1..Len(nodes)}

\* The payload of frame f is through but for what is left in it.
LeftOf(q, view, m, f) ==
    LET subs == SubsOf(q, m, f.parent)
        n    == Len(subs) - Len(f.rest)
    IN  /\ Len(f.rest) <= Len(subs) /\ \A k \in 1..Len(f.rest) : f.rest[k] = subs[n + k]
        /\ f.expected = KeysOf(subs)
        /\ Through(q, view, m, f.parent, n)

\* The children that frame f has read and not matched are as they were read.
ReadOf(r, q, view, m, f) ==
    /\ Children(r, q, view, f.parent) \subseteq DOMAIN m \cup DOMAIN f.existing
    /\ DOMAIN f.existing \subseteq Children(r, q, view, f.parent)
    /\ \A i \in DOMAIN f.existing :
          f.existing[i].key = view[i].key /\ (i \notin DOMAIN m => f.existing[i].label = view[i].label)

Framed(r, q, view, m, f) ==
    /\ f.parent \in Owners(q, m) /\ LeftOf(q, view, m, f)
    /\ ReadOf(r, q, view, m, f) /\ DOMAIN f.existing \cap q.doomed = {}

\* The payload is through below p, and what it does not name is about to be deleted.
Finished(r, q, view, m, p) ==
    /\ Through(q, view, m, p, Len(SubsOf(q, m, p)))
    /\ Children(r, q, view, p) \subseteq DOMAIN m \cup q.doomed

Matching(r, q, view, m) ==
    /\ q.moved = {} /\ q.doomed \subseteq DOMAIN view /\ q.doomed \cap Owners(q, m) = {}
    /\ \A i \in DOMAIN view : view[i].parent \in q.doomed => i \in q.doomed
    /\ Top(q) \notin DOMAIN m /\ \A i \in DOMAIN m : Matched(r, q, view, m, i)
    /\ \A k \in DOMAIN q.stack : Framed(r, q, view, m, q.stack[k])
    /\ \A j, k \in DOMAIN q.stack : q.stack[j].parent = q.stack[k].parent => j = k
    /\ \A p \in Owners(q, m) : (\A k \in DOMAIN q.stack : q.stack[k].parent # p) => Finished(r, q, view, m, p)

\* What request r, as q, has of its payload, t and fs being committed.
Replacing(r, q, t, fs) ==
    LET view   == Over(t, q.tx, q.gone)
        fsview == Over(fs, q.ftx, {})
    IN  /\ q.pc = "closing" => q.stack = <<>>
        /\ q.op.kind = "seed" => To(r, q) \in DOMAIN fsview /\ fsview[To(r, q)].name = q.op.row.name
        /\ \E S \in SUBSET DOMAIN view : \E m \in [S -> {x[2] : x \in Nested(Payload(q.op))}] : Matching(r, q, view, m)

\* Until a request has overtaken another, one that nobody has overtaken has matched rows
\* with the nodes of its payload so far, as _sync_children goes (service.py:205-258).
Matches ==
    ~raced => \A r \in Requests : req[r].pc \in {"syncing", "closing"} /\ ~req[r].late /\ Replaces(req[r]) =>
                 Replacing(r, req[r], fields, forms)

(***************************************************************************)
(* Words for the proofs: levels of a tree, and what a request writes.      *)
(***************************************************************************)

\* What is one level further down a tree.
Add(table, above) == above \cup {i \in DOMAIN table : table[i].parent \in above}

\* The levels of the rows below S, up to the n-th.
IsLevel(table, S, n, f) ==
    f = [m \in 0..n |-> IF m = 0 THEN S \cap DOMAIN table ELSE Add(table, f[m-1])]

Levels(table, S) ==
    CHOOSE f : f = [m \in 0..Cardinality(DOMAIN table) |->
                       IF m = 0 THEN S \cap DOMAIN table ELSE Add(table, f[m-1])]

\* The rows of D hang below each other.
Loops(table, D) == /\ D \subseteq DOMAIN table /\ NULL \notin D
                   /\ \A i \in D : table[i].parent \in D

\* The rows of `table` that are in S.
RowsIn(table, S) == [i \in S |-> table[i]]

\* `new` is what the transaction q sees with `written` rows written, `dead` what is
\* deleted then.
FlushOf(t, q, new, written, dead, p) ==
    /\ written \subseteq DOMAIN new /\ DOMAIN new = DOMAIN Over(t, q.tx, q.gone) \cup written
    /\ \A i \in DOMAIN new \ written : new[i] = Over(t, q.tx, q.gone)[i]
    /\ written \cap q.gone = {}
    /\ \A i \in written : /\ new[i].parent \in DOMAIN new \cup {NULL}
                          /\ \A j \in DOMAIN new \ {i} : FormKey(new[j]) # FormKey(new[i])
    /\ dead \subseteq DOMAIN new /\ \A i \in DOMAIN new : new[i].parent \in dead => i \in dead
    /\ p.tx = [i \in (DOMAIN q.tx \cup written) \ dead |-> new[i]]
    /\ p.gone = q.gone \cup (dead \cap DOMAIN t)

\* Nothing has been written.
IdleRows(q) == q.tx = Nothing /\ q.gone = {} /\ q.ftx = Nothing

\* Request r goes on as q.
Goes(r, q) == req' = [req EXCEPT ![r] = q] /\ UNCHANGED <<forms, fields, raced>>

\* What a row, and an assignment of columns, may say.
RowShape(row) == /\ DOMAIN row = {"form", "parent", "key", "label"}
                 /\ row.key \in Keys \cup {NULL} /\ row.label \in Labels \cup {NULL}
SetShape(set) == /\ "key" \in DOMAIN set => set.key \in Keys \cup {NULL}
                 /\ "label" \in DOMAIN set => set.label \in Labels \cup {NULL}

\* `ins` and `ups` are what r may write.
Writes(r, ins, ups) ==
    /\ IsFiniteSet(DOMAIN ins) /\ DOMAIN ins \subseteq NewOf(r) /\ \A i \in DOMAIN ins : RowShape(ins[i])
    /\ \A i \in DOMAIN ups : SetShape(ups[i])

\* What a body that is not refused begins with.
LoadOK(o) ==
    /\ Refusal(o) \in {NULL, 404, 422} /\ FirstStage(o) \in {"walking", "flushing", "closing"}
    /\ FirstStage(o) = "walking" => Assign(fields[o.field], o.set).parent # NULL
    /\ o.kind \in {"newForm", "editForm", "dropForm"} => FirstStage(o) = "closing"
    /\ Refusal(o) = NULL /\ o.kind = "editForm"  => FormOK(Seen(o))
    /\ Refusal(o) = NULL /\ o.kind = "editField" => FieldOK(Seen(o))
    /\ Reached(o) \subseteq FieldIds

\* q has loaded what o needs, and done nothing yet.
Loaded(o, q) ==
    /\ DOMAIN q = DOMAIN Idle /\ q.pc = FirstStage(o) /\ q.op = o /\ q.seen = Seen(o) /\ q.doomed = Reached(o)
    /\ FirstStage(o) = "walking" => q.up = Assign(fields[o.field], o.set).parent
    /\ FirstStage(o) # "walking" => q.up = NULL
    /\ q.tx = Nothing /\ q.gone = {} /\ q.ftx = Nothing /\ q.stack = <<>> /\ q.visit = {} /\ q.moved = {}
    /\ q.made = 0 /\ q.code = NULL /\ q.walked = Nothing

\* What a step of the walk adds, to the rows p has walked: the row it looks at, or
\* nothing where that is gone.
Climbs(p, t, live, row, q) ==
    /\ q.op = p.op /\ q.seen = p.seen /\ q.tx = p.tx /\ q.made = p.made /\ q.stack = p.stack
    /\ \/ /\ q.walked = Put(p.walked, p.up, row) /\ p.up # p.op.field
          /\ p.up \in DOMAIN p.walked => row = p.walked[p.up]
          /\ p.up \notin DOMAIN p.walked => row.parent = NULL \/ Settled(row.parent, live)
          /\ Settled(p.up, live)
          /\ \/ q.pc = "walking" /\ q.up = row.parent /\ row.parent # NULL
             \/ q.pc = "flushing" /\ row.parent = NULL
       \/ q.walked = p.walked /\ p.walked # Nothing /\ q.pc = "flushing" /\ p.up \notin DOMAIN t

(***************************************************************************)
(* Words for the proofs: a request in time, and what its steps do.         *)
(***************************************************************************)

\* What p has in its hands is what r has after the flush.
HasFlushed(r, ins, ups, del, p) ==
    LET new  == Saved(r, ins, ups)
        dead == Below(new, del)
    IN  /\ p.tx = [i \in (DOMAIN req[r].tx \cup Written(r, ins, ups)) \ dead |-> new[i]]
        /\ p.gone = req[r].gone \cup (dead \cap DOMAIN fields)
        /\ p.ftx = req[r].ftx

\* p is where a payload is written.
Writing(p) == ReqOK(p) /\ AtWork(p) /\ p.pc \in {"flushing", "moving", "syncing"}

\* Rows that hang together are of one form.
SameForms(t) == \A f \in DOMAIN t : t[f].parent # NULL => t[t[f].parent].form = t[f].form

\* A table that is stored while nobody has raced.
Wood(t) ==
    /\ IsFiniteSet(DOMAIN t) /\ NULL \notin DOMAIN t
    /\ \A i \in DOMAIN t : t[i].parent \in DOMAIN t \cup {NULL}
    /\ ~Cyclic(t) /\ SameForms(t)

\* What is known of request q when it writes, t being stored.
Base(r, q, t) ==
    /\ Wood(t) /\ DOMAIN t \cap NewOf(r) = {} /\ NULL \notin NewOf(r)
    /\ OnFields(q) /\ Current(r, q, t)
    /\ q.op.kind = "editField" =>
          /\ q.op.field \notin DOMAIN q.walked
          /\ \A i \in DOMAIN q.walked : t[i].parent \in DOMAIN q.walked \cup {NULL}
          /\ Target(q) \in DOMAIN q.walked \cup {NULL}

\* The edges of a table v that q has changed or is changing.
EdgesIn(r, q, t, v) ==
    \A i \in DOMAIN v :
       \/ i \in DOMAIN t /\ v[i].parent = t[i].parent
       \/ q.op.kind = "editField" /\ i = q.op.field /\ v[i].parent = Target(q)
       \/ i \in NewOf(r) /\ (q.op.kind = "newField" /\ i = q.field => v[i].parent = q.op.parent)

\* z means to do what q does.
Plan(q, z) == z.op = q.op /\ z.seen = q.seen /\ z.walked = q.walked /\ z.field = q.field

\* A row that is inserted: it hangs below a row of the tree whose form it has.
Hangs(r, q, t, view, i, row) ==
    /\ i \in NewOf(r) \ Root(q) /\ row.form = To(r, q)
    /\ row.parent \in Plot(r, q, t) \/ (q.op.kind = "seed" /\ row.parent = NULL)
    /\ row.parent \in DOMAIN view => After(r, q, view, row.parent) = To(r, q)

\* Where nobody has raced, and r has not been overtaken.
InTimeNow(r) == ~raced /\ ~req[r].late

\* Before the first flush there is nothing.
Fresh(q) ==
    /\ q.tx = Nothing /\ q.gone = {} /\ q.moved = {} /\ q.visit = {} /\ q.stack = <<>> /\ q.doomed = {}
    /\ q.pc \in {"walking", "flushing"}

\* z has of q all that is not the stage.
SameWork(q, z) ==
    /\ Plan(q, z) /\ z.tx = q.tx /\ z.gone = q.gone /\ z.moved = q.moved /\ z.visit = q.visit /\ z.doomed = q.doomed

\* z has of q all but the forms it has written.
SameButForms(q, z) ==
    /\ DOMAIN z = DOMAIN Idle /\ SameWork(q, z) /\ z.pc = q.pc /\ z.code = q.code /\ z.late = q.late
    /\ z.made = q.made /\ z.up = q.up /\ z.stack = q.stack

\* What z has of form_schemas where q is about to flush the form of a seed: it is as the
\* seed says when it was read, or it is inserted or assigned.
FormWritten(r, q, z) ==
    LET id == To(r, q) IN
    \/ q.seen # NULL /\ q.seen.row = q.op.row /\ z.ftx = q.ftx
    \/ /\ q.seen = NULL \/ id \in DOMAIN forms
       /\ DOMAIN z.ftx = {id}
       /\ z.ftx[id] = IF q.seen = NULL THEN q.op.row ELSE Flush(forms[id], q.seen.row, q.op.row)
       /\ FormFree(r, id, z.ftx[id].name) /\ FormStorable(id, z.ftx[id])

\* What a flush, or its payload, leaves of what is known at the stages after it.
Settles(q) == q.visit = {} /\ q.pc \in {"syncing", "closing"}

\* The tree of the root is under way.
Rooted(r, q, t) ==
    LET view == Over(t, q.tx, q.gone) IN
    \A i \in Root(q) : i \in DOMAIN view \cap Plot(r, q, t) /\ view[i].form = To(r, q)

\* A frame of the stack that fits to the tree.
FrameIn(r, q, t, f) ==
    LET view == Over(t, q.tx, q.gone) IN
    /\ DOMAIN f.existing \subseteq Inner(r, q, t)
    /\ f.parent \in Plot(r, q, t) \/ (q.op.kind = "seed" /\ f.parent = NULL)
    /\ f.form = To(r, q)
    /\ f.parent \in DOMAIN view => After(r, q, view, f.parent) = To(r, q)
    /\ \A i \in DOMAIN f.existing \cap DOMAIN view : view[i].form = To(r, q)

\* Where the form changes the walk down the tree begins at its root.
Starts(r, q) ==
    \/ q.seen.form # To(r, q) /\ q.pc = "moving" /\ q.visit = {q.op.field}
    \/ q.seen.form = To(r, q) /\ q.pc # "moving" /\ q.visit = {}

\* What q has in its hands after the first flush of a request, t being stored.
FirstRows(t, ins, ups, q, new) ==
    /\ DOMAIN new = DOMAIN t \cup DOMAIN ins /\ q.gone = {}
    /\ DOMAIN q.tx = DOMAIN ins \cup (DOMAIN ups \cap DOMAIN t)
    /\ \A i \in DOMAIN q.tx : q.tx[i] = new[i]
    /\ \A i \in DOMAIN new :
          new[i] = IF i \in DOMAIN ins THEN ins[i]
                   ELSE IF i \in DOMAIN ups THEN Assign(t[i], ups[i]) ELSE t[i]
Changed(to, seen) == {c \in DOMAIN to : to[c] # seen[c]}

\* `ups` assigns the columns that change of field f, and z moves its tree if its form does.
Assigns(ups, f, to, changed) ==
    \/ changed = {} /\ ups = Nothing
    \/ changed # {} /\ DOMAIN ups = {f} /\ ups[f] = [c \in changed |-> to[c]]
Turns(z, f, changed) ==
    \/ "form" \in changed /\ z.pc = "moving" /\ z.visit = {f}
    \/ "form" \notin changed /\ z.pc # "moving" /\ z.visit = {}

\* What a flush makes of the rows that are seen.
SavedIs(view, ins, ups, new, written) ==
    /\ DOMAIN ups \subseteq DOMAIN view /\ DOMAIN new = DOMAIN view \cup DOMAIN ins
    /\ written = DOMAIN ins \cup DOMAIN ups
    /\ \A i \in DOMAIN new : new[i] = IF i \in DOMAIN ins THEN ins[i]
                                      ELSE IF i \in DOMAIN ups THEN Assign(view[i], ups[i]) ELSE view[i]

\* What the updates of a flush assign: the form of the moved rows, and labels of others.
Tends(r, q, t, ups) ==
    /\ q.moved \subseteq DOMAIN ups /\ DOMAIN ups \subseteq Inner(r, q, t)
    /\ \A i \in DOMAIN ups : "parent" \notin DOMAIN ups[i]
    /\ \A i \in q.moved : "form" \in DOMAIN ups[i] /\ ups[i].form = q.op.set.form
    /\ \A i \in DOMAIN ups \ q.moved : "form" \notin DOMAIN ups[i]

\* What is written of a node whose parent's frame is `top`: a row is inserted, or a
\* label is assigned.
NodeWrites(r, top, id, ins, ups) ==
    \/ /\ id = NewId(r) /\ DOMAIN ins = {id} /\ ups = Pending(r)
       /\ ins[id].form = top.form /\ ins[id].parent = top.parent
    \/ /\ id \in DOMAIN top.existing /\ ins = Nothing
       /\ ups = Pending(r) \/ \E label : ups = Put(Pending(r), id, [label |-> label])

\* q is request r further on, with the same in its hands.
Onward(p, q) ==
    /\ DOMAIN q = DOMAIN Idle /\ q.op = p.op /\ q.seen = p.seen /\ q.code = p.code /\ q.made \in Nat
    /\ q.pc \in Stages \ {"idle", "done"}
    /\ q.doomed \cup q.moved \cup q.visit \subseteq FieldIds
    /\ (q.pc = "syncing" <=> q.stack # <<>>) /\ (q.pc = "moving" <=> q.visit # {})
    /\ (q.pc = "walking" <=> q.up # NULL)
    /\ StackOK(q) /\ AtWork(q)

SameRows(p, q) == q.tx = p.tx /\ q.gone = p.gone /\ q.ftx = p.ftx

\* q is p but for its stage and its stack.
Alike(p, q) ==
    /\ DOMAIN q = DOMAIN Idle /\ q.op = p.op /\ q.seen = p.seen /\ q.code = p.code /\ q.made = p.made
    /\ q.doomed = p.doomed /\ q.moved = p.moved /\ q.visit = p.visit /\ q.up = p.up
    /\ q.tx = p.tx /\ q.gone = p.gone /\ q.ftx = p.ftx

\* q has flushed what p was to, and is p but for the rows.
FlushedAs(p, r, ins, ups, del, q) ==
    /\ DOMAIN q = DOMAIN Idle /\ q.pc = p.pc /\ q.op = p.op /\ q.seen = p.seen /\ q.code = p.code
    /\ q.made \in Nat /\ q.doomed = {} /\ q.moved = {} /\ q.visit = p.visit /\ q.up = p.up
    /\ q.stack = p.stack /\ HasFlushed(r, ins, ups, del, q)

\* q is ready to go on from p, where it has flushed or has nothing to flush.
Ready(p, q) ==
    /\ DOMAIN q = DOMAIN Idle /\ q.op = p.op /\ q.seen = p.seen /\ q.code = p.code /\ q.made \in Nat
    /\ q.doomed \cup q.moved \subseteq FieldIds /\ q.visit = {} /\ q.up = NULL /\ StackOK(q)

\* q goes on as z, past its walk, and with the rows that it has.
Past(q, z) ==
    /\ z.op = q.op /\ z.seen = q.seen /\ z.walked = q.walked
    /\ q.pc # "walking" /\ z.pc # "walking" /\ (z.pc = "moving" => z.field = q.op.field)

Onto(q, z) == Past(q, z) /\ z.tx = q.tx /\ z.made = q.made

(***************************************************************************)
(* Words for the proofs: what a commit does to the book.                   *)
(***************************************************************************)

\* From t to u: only S changes, and is T then.
Only(t, u, S, T) ==
    /\ \A f \in DOMAIN t \ S : f \in DOMAIN u /\ u[f] = t[f]
    /\ DOMAIN u \ DOMAIN t \subseteq T
    /\ T \cap DOMAIN t \subseteq S
OfForm(t, g) == {f \in DOMAIN t : t[f].form = g}

\* A step of the book from t to u, or none.
Turned(t, u) ==
    \/ u = t
    \/ \E f \in DOMAIN u \ DOMAIN t : Only(t, u, {}, Below(u, {f}))
    \/ \E f \in DOMAIN t \cap DOMAIN u : Only(t, u, Below(t, {f}), Below(u, {f}))
    \/ /\ DOMAIN u \subseteq DOMAIN t
       /\ \E f \in DOMAIN t : /\ Only(t, u, DOMAIN t \ DOMAIN u, {})
                              /\ DOMAIN t \ DOMAIN u = Below(t, {f})
    \/ \E g \in {t[f].form : f \in DOMAIN t} \cup {u[f].form : f \in DOMAIN u} :
          Only(t, u, OfForm(t, g), OfForm(u, g))

\* The rows that q leaves when it commits all that it has.
Settling(r, q, t, u) ==
    /\ Base(r, q, t) /\ FieldsFit(q, t) /\ Within(r, q, t) /\ Formed(r, q, t) /\ EdgesIn(r, q, t, u)
    /\ q.moved = {} /\ q.visit = {} /\ q.pc = "closing"
    /\ u = Over(t, q.tx, q.gone) /\ Wood(u)

\* What a commit in time leaves is a forest, and a step of the book.
Leaves == /\ Turned(fields, fields') /\ Book!Forest(fields') /\ fields' = [i \in DOMAIN fields' |-> fields'[i]]

\* What a commit of fields, or the deletion of a form, does to the book: it is a step of
\* it, unless somebody has raced.
Turn == \/ calm' = calm
        \/ ~raced /\ ~raced' /\ calm' = fields' /\ Leaves

(***************************************************************************)
(* Words for the proofs: what becomes of a payload.                        *)
(***************************************************************************)

Beneath(level) == UNION {{<<x[2].key, x[2].subs[k]>> : k \in 1..Len(x[2].subs)} : x \in level}
Uppermost(nodes) == {<<NULL, nodes[k]>> : k \in 1..Len(nodes)}
IsNesting(nodes, n, f) == f = [m \in 0..n |-> IF m = 0 THEN Uppermost(nodes) ELSE Beneath(f[m-1])]
Nesting(nodes) ==
    CHOOSE f : f = [n \in 0..MaxNodes |-> IF n = 0 THEN Uppermost(nodes) ELSE Beneath(f[n-1])]

\* The payload of a body: what is beneath its nodes is of it.
PayloadIn(P) ==
    /\ P \in Seq(Nodes) /\ \A k \in 1..Len(P) : <<NULL, P[k]>> \in Nested(P)
    /\ \A x \in Nested(P) : /\ x[2] \in Nodes
                            /\ \A k \in 1..Len(x[2].subs) : <<x[2].key, x[2].subs[k]>> \in Nested(P)

\* What is said of the payload is the same of z.
SaysSame(r, q, z) ==
    /\ Top(z) = Top(q) /\ To(r, z) = To(r, q) /\ Payload(z.op) = Payload(q.op)
    /\ \A m : Owners(z, m) = Owners(q, m)
    /\ \A m, p : SubsOf(z, m, p) = SubsOf(q, m, p)
    /\ \A view, p : Children(r, z, view, p) = Children(r, q, view, p)
    /\ \A view, m, p, n : Through(z, view, m, p, n) <=> Through(q, view, m, p, n)
    /\ \A view, m, f : /\ LeftOf(z, view, m, f) <=> LeftOf(q, view, m, f)
                       /\ ReadOf(r, z, view, m, f) <=> ReadOf(r, q, view, m, f)

\* Row id comes to node, and what was about to be deleted is gone: from view to u.
NodeStep(r, q, view, top, id, node, u) ==
    /\ DOMAIN u = (DOMAIN view \cup {id}) \ q.doomed /\ id \in DOMAIN u
    /\ \A i \in DOMAIN u \ {id} : u[i] = view[i]
    /\ u[id].form = To(r, q) /\ u[id].parent = top.parent /\ u[id].key = node.key /\ u[id].label = node.label
    /\ id \in DOMAIN view => view[id].parent = top.parent /\ view[id].form = To(r, q) /\ view[id].key = node.key
With(m, id, node) == [i \in DOMAIN m \cup {id} |-> IF i = id THEN node ELSE m[i]]

\* The frame of a row, and one that is a node further.
FrameOf(r, q, u, f, id, nodes) ==
    /\ f.parent = id /\ f.rest = nodes /\ f.expected = KeysOf(nodes)
    /\ DOMAIN f.existing = Children(r, q, u, id) /\ \A i \in DOMAIN f.existing : f.existing[i] = u[i]
Shifted(top, f) ==
    f.parent = top.parent /\ f.existing = top.existing /\ f.expected = top.expected /\ f.rest = Tail(top.rest)

\* What holds before a node is flushed.
Reads(r, q, view, m, top, node) ==
    /\ PayloadIn(Payload(q.op)) /\ DOMAIN m \subseteq DOMAIN view /\ Matching(r, q, view, m)
    /\ \E k \in DOMAIN q.stack : top = q.stack[k]
    /\ top.rest # <<>> /\ top.rest \in Seq(Nodes) /\ node = Head(top.rest)
Before(r, q, view, m, top, id, node) == Reads(r, q, view, m, top, node) /\ id \notin Owners(q, m)

\* The next node of a frame is the next of what its row has beneath it.
Comes(top, subs, n, node) ==
    /\ subs \in Seq(Nodes) /\ n \in Nat /\ n + 1 \in 1..Len(subs) /\ node = subs[n + 1]
    /\ Len(Tail(top.rest)) = Len(top.rest) - 1
    /\ \A k \in 1..Len(Tail(top.rest)) : Tail(top.rest)[k] = subs[n + 1 + k]

\* What stays of the rows and their nodes.
Stays(r, q, view, m, top, id, node, u, m2) ==
    /\ DOMAIN m2 \subseteq DOMAIN u /\ DOMAIN m2 = DOMAIN m \cup {id} /\ m2[id] = node
    /\ \A i \in DOMAIN m : i # id /\ m2[i] = m[i] /\ u[i] = view[i] /\ u[i].parent \in Owners(q, m)
    /\ Owners(q, m2) = Owners(q, m) \cup {id} /\ id \notin Owners(q, m)
    /\ \A p \in Owners(q, m) : SubsOf(q, m2, p) = SubsOf(q, m, p) /\ (p # Top(q) => u[p].key = view[p].key)
    /\ SubsOf(q, m2, id) = node.subs
    /\ u[id].parent = top.parent /\ top.parent \in Owners(q, m)
    /\ \A p : /\ Children(r, q, u, p) \cap q.doomed = {}
              /\ Children(r, q, u, p) \subseteq Children(r, q, view, p) \cup {i \in {id} : p = top.parent}
              /\ Children(r, q, view, p) \ q.doomed \subseteq Children(r, q, u, p)

\* Further on, with what the payload goes below and nothing about to be deleted.
Cleared(q, z) == Plan(q, z) /\ z.moved = {} /\ z.doomed = {}

\* The frame of the new row is on the stack, and the one below it has moved on.
Pushed(r, q, z, u, top, id, nodes) ==
    /\ DOMAIN q.stack \subseteq Nat \ {0} /\ DOMAIN z.stack \subseteq Nat
    /\ 1 \in DOMAIN q.stack /\ top = q.stack[1]
    /\ {1, 2} \subseteq DOMAIN z.stack /\ FrameOf(r, q, u, z.stack[1], id, nodes) /\ Shifted(top, z.stack[2])
    /\ \A k \in DOMAIN q.stack \ {1} : k + 1 \in DOMAIN z.stack
    /\ \A k \in DOMAIN z.stack \ {1, 2} : k - 1 \in DOMAIN q.stack \ {1} /\ z.stack[k] = q.stack[k-1]

\* What is flushed of a node: its row is inserted, or the label of a child is assigned if
\* it is another.
NodeFlush(r, q, view, top, id, node, ins, ups) ==
    \/ /\ id \notin DOMAIN view /\ DOMAIN ins = {id} /\ DOMAIN ups = {}
       /\ ins[id] = NodeRow(node, To(r, q), top.parent)
    \/ /\ id \in DOMAIN top.existing /\ top.existing[id].key = node.key /\ DOMAIN ins = {}
       /\ \/ DOMAIN ups = {} /\ view[id].label = node.label
          \/ DOMAIN ups = {id} /\ ups[id] = [label |-> node.label]

\* A request whose payload is to be stored.
Wants(q) == q.pc \in {"syncing", "closing"} /\ ~q.late /\ Replaces(q)

\* The form of a seed, as its transaction sees it.
Seeded(r, q, fs) ==
    LET fsview == Over(fs, q.ftx, {}) IN
    q.op.kind = "seed" => To(r, q) \in DOMAIN fsview /\ fsview[To(r, q)].name = q.op.row.name

\* The form that a seed has found is still as it was read.
Found(q, fs) ==
    q.pc \notin {"idle", "done"} /\ q.op.kind = "seed" /\ q.seen # NULL /\ ~q.late =>
        q.seen.id \in DOMAIN fs /\ fs[q.seen.id] = q.seen.row
FormsFound == \A r \in Requests : Found(req[r], forms)

\* z is q further on, or through.
Continues(q, z) == z.pc = "done" \/ (z.op = q.op /\ z.seen = q.seen /\ z.late = q.late)

\* No two rows that a transaction sees have one key.
KeysApart(view) == \A i, j \in DOMAIN view : FormKey(view[i]) = FormKey(view[j]) => i = j

\* The frame on top is taken off.
Popped(q, z) ==
    /\ 1 \in DOMAIN q.stack /\ DOMAIN q.stack \subseteq Nat /\ DOMAIN z.stack \subseteq Nat \ {0}
    /\ \A k \in DOMAIN z.stack : k + 1 \in DOMAIN q.stack /\ z.stack[k] = q.stack[k+1]
    /\ \A k \in DOMAIN q.stack \ {1} : k - 1 \in DOMAIN z.stack /\ z.stack[k-1] = q.stack[k]

\* The payload of the frame on top is through, and S is what it has read and does not name.
Ends(r, q, view, m, top, S) ==
    /\ PayloadIn(Payload(q.op)) /\ DOMAIN m \subseteq DOMAIN view /\ Matching(r, q, view, m)
    /\ IsFiniteSet(DOMAIN view) /\ KeysApart(view)
    /\ 1 \in DOMAIN q.stack /\ top = q.stack[1] /\ top.rest = <<>>
    /\ S \subseteq DOMAIN top.existing
    /\ \A i \in DOMAIN top.existing : i \in S <=> top.existing[i].key \notin top.expected

\* The payload is through, and what it does not name is deleted: from view to u.
Completed(r, q, view, m, u) ==
    /\ PayloadIn(Payload(q.op)) /\ DOMAIN m \subseteq DOMAIN view /\ Matching(r, q, view, m) /\ q.stack = <<>>
    /\ DOMAIN u = DOMAIN view \ q.doomed /\ \A i \in DOMAIN u : u[i] = view[i]
    /\ IsFiniteSet(DOMAIN u) /\ NULL \notin DOMAIN u /\ ~Cyclic(u)

\* The key of the row above.
Above(t, top, i) == IF t[i].parent = top THEN NULL ELSE t[t[i].parent].key
Nodal(t, top, m, i) == <<Above(t, top, i), m[i]>>

\* What PayloadStored says of the commit of request r.
Stores(r) ==
    LET o == req[r].op IN
    /\ o.kind = "newField" => StoredTree(fields', o.form, req[r].field) = Tree(o.node.subs)
    /\ o.kind = "editField" => StoredTree(fields', fields'[o.field].form, o.field) = Tree(o.subs)
    /\ o.kind = "seed" => \E g \in DOMAIN forms' :
                             forms'[g].name = o.row.name /\ StoredTree(fields', g, NULL) = Tree(o.fields)
==============================================================================
