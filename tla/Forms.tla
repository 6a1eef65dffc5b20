-------------------------------- MODULE Forms --------------------------------
(***************************************************************************)
(* Forms and their fields, which form a tree (src/app/modules/forms/       *)
(* service.py).  A request flushes as it goes: what it has written is seen *)
(* by itself at once and by others from its commit on, and the rows it has *)
(* written are locked until then.                                          *)
(*                                                                         *)
(* X_Defect before an operator X is X with a plausible bug, see Purchases. *)
(***************************************************************************)
EXTENDS Naturals, FiniteSets, Sequences, Orm

CONSTANTS
    NULL,
    Names,         \* what is unique of a form: its key, scope and version
    Keys,          \* keys of fields
    Labels,        \* everything else of a field
    Nodes,         \* nodes of payloads: [key, label, subs], `subs` a sequence of nodes
    Requests,      \* 1..N: requests, each handled once; the id of the form it inserts
    Ops,           \* by request, the bodies it may have
    InitForms,     \* the rows that exist at first, by id
    InitFields

FormIds  == DOMAIN InitForms \cup Requests
FieldIds == DOMAIN InitFields \cup (Requests \X (Nat \ {0}))

FormOK(row)  == /\ DOMAIN row = {"name", "is_active"}
                /\ row.name \in Names /\ row.is_active \in BOOLEAN
FieldOK(row) == /\ DOMAIN row = {"form", "parent", "key", "label"}
                /\ row.form \in FormIds /\ row.parent \in FieldIds \cup {NULL}
                /\ row.key \in Keys /\ row.label \in Labels

\* A body that sets the columns of a field may set any of them; one that has no
\* `subs` has NULL.
Body(o) ==
    \/ o.kind = "newForm" /\ DOMAIN o.row = {"name", "is_active"} /\ o.row.is_active \in BOOLEAN
    \/ /\ o.kind = "editForm" /\ o.form \in FormIds /\ DOMAIN o.set \subseteq {"name", "is_active"}
       /\ "is_active" \in DOMAIN o.set => o.set.is_active \in BOOLEAN \cup {NULL}
    \/ o.kind = "dropForm" /\ o.form \in FormIds
    \/ o.kind = "newField" /\ o.form \in FormIds /\ o.parent \in FieldIds \cup {NULL} /\ o.node \in Nodes
    \/ /\ o.kind = "editField"
       /\ o.field \in FieldIds /\ DOMAIN o.set \subseteq {"form", "parent", "key", "label"}
       /\ "key" \in DOMAIN o.set => o.set.key \in Keys \cup {NULL}
       /\ "label" \in DOMAIN o.set => o.set.label \in Labels \cup {NULL}
       /\ o.subs # NULL => o.subs \in Seq(Nodes)
    \/ o.kind = "dropField" /\ o.field \in FieldIds
    \/ o.kind = "seed" /\ FormOK(o.row) /\ o.fields \in Seq(Nodes)

FormKey(row) == <<row.form, row.key>>

ASSUME NullAssumption ==
    NULL \notin Names \cup Keys \cup Labels \cup FormIds \cup FieldIds \cup Nat /\ NULL \notin {"stale", "integrity"}
ASSUME IdsAssumption ==
    /\ Requests \subseteq Nat /\ DOMAIN InitForms \cap Requests = {}
    /\ \A f \in DOMAIN InitFields : f \notin Requests \X (Nat \ {0})
ASSUME NodesAssumption == \A n \in Nodes : n.key \in Keys /\ n.label \in Labels /\ n.subs \in Seq(Nodes)
ASSUME OpsAssumption == \A r \in Requests : \A o \in Ops[r] : Body(o)
ASSUME InitAssumption ==
    /\ \A g \in DOMAIN InitForms : FormOK(InitForms[g])
    /\ \A g, h \in DOMAIN InitForms : InitForms[g].name = InitForms[h].name => g = h
    /\ IsFiniteSet(DOMAIN InitFields)
    /\ \A f \in DOMAIN InitFields :
          /\ FieldOK(InitFields[f])
          /\ InitFields[f].form \in DOMAIN InitForms /\ InitFields[f].parent \in DOMAIN InitFields \cup {NULL}
          /\ \A e \in DOMAIN InitFields : FormKey(InitFields[e]) = FormKey(InitFields[f]) => e = f

VARIABLES
    forms,      \* form_schemas: the committed rows, by id
    fields,     \* form_fields
    req,        \* the requests and what their transactions hold
    raced,      \* history: somebody has committed on reads older than another's commit
    calm        \* history: the fields before that

vars == <<forms, fields, req, raced, calm>>

Nothing == [x \in {} |-> NULL]

Idle == [pc |-> "idle", op |-> NULL, field |-> NULL, seen |-> NULL,
         up |-> NULL, walked |-> Nothing, visit |-> {}, moved |-> {}, stack |-> <<>>,
         tx |-> Nothing, gone |-> {}, ftx |-> Nothing, doomed |-> {}, made |-> 0,
         late |-> FALSE, code |-> NULL]
Done(code) == [Idle EXCEPT !.pc = "done", !.code = code]

Init ==
    /\ forms = InitForms
    /\ fields = InitFields
    /\ req = [r \in Requests |-> Idle]
    /\ raced = FALSE
    /\ calm = InitFields

Open(r) == req[r].pc \notin {"idle", "done"}

(***************************************************************************)
(* What a transaction sees and what a flush does.                          *)
(***************************************************************************)

Over(table, tx, gone) ==
    [i \in (DOMAIN table \ gone) \cup DOMAIN tx |-> IF i \in DOMAIN tx THEN tx[i] ELSE table[i]]

View(r)      == Over(fields, req[r].tx, req[r].gone)
FormsView(r) == Over(forms, req[r].ftx, {})

ChildrenOf(table, p) == {i \in DOMAIN table : table[i].parent = p}

\* The rows of `table` in S and everything below them: the cascade of the
\* relationship sub_fields, and of the foreign key.
Below(table, S) ==
    LET level[n \in 0..Cardinality(DOMAIN table)] ==
            IF n = 0 THEN S \cap DOMAIN table
            ELSE LET above == level[n-1]
                 IN  above \cup {i \in DOMAIN table : table[i].parent \in above}
    IN  level[Cardinality(DOMAIN table)]

\* What an answer shows below a field, or in a form: the rows of that form only.
Shown(table, form, top) ==
    LET mine == [i \in {j \in DOMAIN table : table[j].form = form} |-> table[i]]
    IN  Below(mine, ChildrenOf(mine, top))

\* A flush of the rows `ins`, of the assignments `ups` and of the deletions `del`:
\* saved first, and then deleted with everything below.
Saved(r, ins, ups) ==
    [i \in DOMAIN View(r) \cup DOMAIN ins |->
        IF i \in DOMAIN ins THEN ins[i]
        ELSE IF i \in DOMAIN ups THEN Assign(View(r)[i], ups[i]) ELSE View(r)[i]]

Written(r, ins, ups) == DOMAIN ins \cup (DOMAIN ups \cap DOMAIN View(r))

\* The constraints of form_fields.
Sound_NoForeignKeys(r, table, written) ==
    \A i \in written :
        /\ table[i].key # NULL /\ table[i].label # NULL
        /\ \A j \in DOMAIN table \ {i} : FormKey(table[j]) # FormKey(table[i])
Sound(r, table, written) ==
    \A i \in written :
        /\ table[i].key # NULL /\ table[i].label # NULL
        /\ table[i].form \in DOMAIN FormsView(r)
        /\ table[i].parent \in DOMAIN table \cup {NULL}
        /\ \A j \in DOMAIN table \ {i} : FormKey(table[j]) # FormKey(table[i])

\* An UPDATE of a row that is gone matches none, and the session refuses it.
Failure(r, ins, ups) ==
    IF ~(DOMAIN ups \subseteq DOMAIN View(r))                  THEN "stale"
    ELSE IF ~Sound(r, Saved(r, ins, ups), Written(r, ins, ups)) THEN "integrity"
    ELSE NULL

\* The rows another transaction refers to by a foreign key that it has written.
Referred(s) == {req[s].tx[j].parent : j \in {i \in DOMAIN req[s].tx :
                   i \in DOMAIN fields => fields[i].parent # req[s].tx[i].parent}}

\* The rows of `table` whose unique key differs from the committed one.
Rekeyed(table) == {i \in DOMAIN table \cap DOMAIN fields : FormKey(table[i]) # FormKey(fields[i])}

\* The flush waits for no transaction: none holds one of its rows, a key that it
\* writes, a row it refers to, or refers to a row that it deletes or gives a new key.
Free(r, ins, ups, del) ==
    LET new     == Saved(r, ins, ups)
        written == Written(r, ins, ups)
        dead    == Below(new, del)
    IN  \A s \in Requests \ {r} : Open(s) =>
        /\ (written \cup dead) \cap (DOMAIN req[s].tx \cup req[s].gone) = {}
        /\ {FormKey(new[i]) : i \in written} \cap
             ({FormKey(req[s].tx[j]) : j \in DOMAIN req[s].tx}
                \cup {FormKey(fields[j]) : j \in (req[s].gone \cup Rekeyed(req[s].tx)) \cap DOMAIN fields}) = {}
        /\ {new[i].parent : i \in {j \in written : j \in DOMAIN fields => fields[j].parent # new[j].parent}}
             \cap (req[s].gone \cup Rekeyed(req[s].tx)) = {}
        /\ Referred(s) \cap (dead \cup (Rekeyed(new) \cap written)) = {}

Flushed(q, r, ins, ups, del) ==
    LET new  == Saved(r, ins, ups)
        dead == Below(new, del)
        keep == (DOMAIN req[r].tx \cup Written(r, ins, ups)) \ dead
    IN  [q EXCEPT !.tx = [i \in keep |-> new[i]], !.gone = @ \cup (dead \cap DOMAIN fields),
                  !.made = @ + Cardinality(DOMAIN ins), !.moved = {}, !.doomed = {}]

\* What is assigned and not yet flushed: the form of the moved fields.
Pending(r) == [i \in req[r].moved |-> [form |-> req[r].op.set.form]]

\* IntegrityError of a flush in the middle is nowhere caught.
Refused(failure, guarded) == Done(IF failure = "integrity" /\ guarded THEN 409 ELSE 500)

(***************************************************************************)
(* Loading and checking.                                                   *)
(***************************************************************************)

\* FormLookupService.get_form_or_404, get_field_or_404, and the first checks of
\* validate_parent_assignment; an update checks its parent while it walks.
Refusal(o) ==
    CASE o.kind \in {"newForm", "seed"} -> NULL
      [] o.kind \in {"editForm", "dropForm"} -> IF o.form \in DOMAIN forms THEN NULL ELSE 404
      [] o.kind = "dropField" -> IF o.field \in DOMAIN fields THEN NULL ELSE 404
      [] o.kind = "newField" ->
            IF o.form \notin DOMAIN forms                           THEN 404
            ELSE IF o.parent = NULL                                 THEN NULL
            ELSE IF o.parent \notin DOMAIN fields                   THEN 404
            ELSE IF fields[o.parent].form # o.form                  THEN 422
            ELSE NULL
      [] o.kind = "editField" ->
            IF o.field \notin DOMAIN fields                         THEN 404
            ELSE IF Assign(fields[o.field], o.set).form \notin DOMAIN forms THEN 404
            ELSE NULL

\* session.delete loads what its cascade reaches.
Reached(o) ==
    CASE o.kind = "dropField" -> Below(fields, {o.field})
      [] o.kind = "dropForm"  -> Below(fields, {f \in DOMAIN fields : fields[f].form = o.form})
      [] OTHER                -> {}

\* The form that a definition of the seed is about.
Same(o) == {g \in DOMAIN forms : forms[g].name = o.row.name}

Seen(o) ==
    CASE o.kind = "editForm"  -> forms[o.form]
      [] o.kind = "editField" -> fields[o.field]
      [] o.kind = "seed" /\ Same(o) # {} ->
            LET form == CHOOSE g \in Same(o) : TRUE IN [id |-> form, row |-> forms[form]]
      [] OTHER                -> NULL

FirstStage(o) ==
    CASE o.kind \in {"newForm", "editForm", "dropForm", "dropField"} -> "closing"
      [] o.kind = "editField" /\ Assign(fields[o.field], o.set).parent # NULL -> "walking"
      [] OTHER -> "flushing"

\* Requests are numbered in the order in which they arrive.
Load(r, o) ==
    /\ req[r].pc = "idle"
    /\ \A s \in Requests : s < r => req[s].pc # "idle"
    /\ req' = [req EXCEPT ![r] =
          IF Refusal(o) # NULL THEN Done(Refusal(o))
          ELSE [Idle EXCEPT !.pc = FirstStage(o), !.op = o, !.seen = Seen(o), !.doomed = Reached(o),
                            !.up = IF FirstStage(o) = "walking"
                                   THEN Assign(fields[o.field], o.set).parent ELSE NULL]]
    /\ UNCHANGED <<forms, fields, raced, calm>>

\* The row of the ancestor that is looked at: from the session, if it has been
\* loaded before.
Ancestor(r) ==
    IF req[r].up \in DOMAIN req[r].walked THEN req[r].walked[req[r].up] ELSE fields[req[r].up]

\* The loop of validate_parent_assignment, one ancestor at a time, the field itself
\* included: first that the parent exists and is of the form, then the way up.  A row
\* that vanished ends it.
Walk_ParentOnly(r) ==
    LET o == req[r].op
        first == req[r].walked = Nothing
        there == req[r].up \in DOMAIN req[r].walked \cup DOMAIN fields
    IN
    /\ req[r].pc = "walking"
    /\ req' = [req EXCEPT ![r] =
          IF first /\ ~there THEN Done(404)
          ELSE IF first /\ Ancestor(r).form # Assign(req[r].seen, o.set).form THEN Done(422)
          ELSE IF there /\ req[r].up = o.field THEN Done(422)
          ELSE [@ EXCEPT !.pc = "flushing", !.up = NULL,
                         !.walked = IF there THEN Put(@, req[r].up, Ancestor(r)) ELSE @]]
    /\ UNCHANGED <<forms, fields, raced, calm>>
Walk_StaysThere(r) ==
    /\ req[r].pc = "walking"
    /\ req[r].up \in DOMAIN fields
    /\ req' = [req EXCEPT ![r].walked = Put(@, req[r].up, Ancestor(r))]
    /\ UNCHANGED <<forms, fields, raced, calm>>
Walk(r) ==
    LET o == req[r].op
        first == req[r].walked = Nothing
        there == req[r].up \in DOMAIN req[r].walked \cup DOMAIN fields
        walked == IF there THEN Put(req[r].walked, req[r].up, Ancestor(r)) ELSE req[r].walked
    IN
    /\ req[r].pc = "walking"
    /\ req' = [req EXCEPT ![r] =
          IF first /\ ~there THEN Done(404)
          ELSE IF first /\ Ancestor(r).form # Assign(req[r].seen, o.set).form THEN Done(422)
          ELSE IF there /\ req[r].up = o.field THEN Done(422)
          ELSE IF ~there \/ Ancestor(r).parent = NULL
          THEN [@ EXCEPT !.pc = "flushing", !.up = NULL, !.walked = walked]
          ELSE [@ EXCEPT !.up = Ancestor(r).parent, !.walked = walked]]
    /\ UNCHANGED <<forms, fields, raced, calm>>

(***************************************************************************)
(* Writing a tree of fields.                                               *)
(***************************************************************************)

\* _sync_children begins: the children as they are read, what is left of the
\* payload, and the keys that are expected.
Frame(r, q, form, parent, nodes) ==
    LET table == Over(fields, q.tx, q.gone)
        there == {i \in ChildrenOf(table, parent) : table[i].form = form}
    IN  [form |-> form, parent |-> parent, existing |-> [i \in there |-> table[i]], rest |-> nodes,
         expected |-> {nodes[k].key : k \in 1..Len(nodes)}]

Sync(r, q, form, parent, nodes) ==
    [q EXCEPT !.pc = "syncing", !.stack = <<Frame(r, q, form, parent, nodes)>> \o @]

NewId(r) == <<r, req[r].made + 1>>

NodeRow(node, form, parent) ==
    [form |-> form, parent |-> parent, key |-> node.key, label |-> node.label]

\* The flush of a new field, or of what an update assigns to its field.
FlushField(r) ==
    LET o   == req[r].op
        new == o.kind = "newField"
        id  == IF new THEN NewId(r) ELSE o.field
        to  == IF new THEN NodeRow(o.node, o.form, o.parent) ELSE Assign(req[r].seen, o.set)
        ins == IF new THEN [i \in {id} |-> to] ELSE Nothing
        changed == {c \in DOMAIN to : ~new /\ to[c] # req[r].seen[c]}
        ups == IF changed = {} THEN Nothing ELSE [i \in {id} |-> [c \in changed |-> to[c]]]
        q   == [Flushed(req[r], r, ins, ups, {}) EXCEPT !.field = id]
    IN
    /\ req[r].pc = "flushing"
    /\ o.kind \in {"newField", "editField"}
    /\ Free(r, ins, ups, {})
    /\ req' = [req EXCEPT ![r] =
          IF Failure(r, ins, ups) # NULL THEN Refused(Failure(r, ins, ups), FALSE)
          ELSE IF new THEN Sync(r, q, o.form, id, o.node.subs)
          ELSE IF "form" \in changed THEN [q EXCEPT !.pc = "moving", !.visit = {id}]
          ELSE IF o.subs # NULL THEN Sync(r, q, to.form, id, o.subs)
          ELSE [q EXCEPT !.pc = "closing"]]
    /\ UNCHANGED <<forms, fields, raced, calm>>

\* A form that another transaction has written, and its name, are waited for.
FormFree(r, id, name) ==
    \A s \in Requests \ {r} : Open(s) =>
        id \notin DOMAIN req[s].ftx /\ \A g \in DOMAIN req[s].ftx : req[s].ftx[g].name # name

\* The unique index and the checks of form_schemas.
FormStorable(id, row) ==
    row.name \in Names /\ row.is_active # NULL /\ \A g \in DOMAIN forms \ {id} : forms[g].name # row.name

\* _upsert_form: the form of the definition is inserted, or given what the definition
\* says and the session read otherwise, and flushed.
FlushForm(r) ==
    LET o     == req[r].op
        seen  == req[r].seen
        id    == IF seen = NULL THEN r ELSE seen.id
        row   == IF seen = NULL THEN o.row ELSE Flush(forms[id], seen.row, o.row)
        clean == seen # NULL /\ seen.row = o.row
        there == seen = NULL \/ id \in DOMAIN forms
        q     == IF clean THEN req[r] ELSE [req[r] EXCEPT !.ftx = [g \in {id} |-> row]]
    IN
    /\ req[r].pc = "flushing"
    /\ o.kind = "seed"
    /\ ~clean /\ there => FormFree(r, id, row.name)
    /\ req' = [req EXCEPT ![r] = IF clean \/ (there /\ FormStorable(id, row))
                                 THEN Sync(r, q, id, NULL, o.fields) ELSE Done(500)]
    /\ UNCHANGED <<forms, fields, raced, calm>>

\* _move_subtree_to_form, one SELECT at a time.  What it assigns is not flushed here.
Move_Shallow(r) ==
    LET o == req[r].op
        q == [req[r] EXCEPT !.visit = {}, !.moved = ChildrenOf(View(r), req[r].field)]
    IN
    /\ req[r].pc = "moving"
    /\ req' = [req EXCEPT ![r] = IF o.subs # NULL THEN Sync(r, q, o.set.form, q.field, o.subs)
                                 ELSE [q EXCEPT !.pc = "closing"]]
    /\ UNCHANGED <<forms, fields, raced, calm>>
Move(r) ==
    /\ req[r].pc = "moving"
    /\ \E i \in req[r].visit :
          LET o    == req[r].op
              kids == ChildrenOf(View(r), i) \ req[r].moved
              q    == [req[r] EXCEPT !.visit = (@ \ {i}) \cup kids, !.moved = @ \cup kids]
          IN  req' = [req EXCEPT ![r] = IF q.visit # {} THEN q
                        ELSE IF o.subs # NULL THEN Sync(r, q, o.set.form, q.field, o.subs)
                        ELSE [q EXCEPT !.pc = "closing"]]
    /\ UNCHANGED <<forms, fields, raced, calm>>

\* The label of a child that was read, as the session has it.
Known(r, top, id) == IF id \in DOMAIN req[r].tx THEN req[r].tx[id].label ELSE top.existing[id].label

\* The next node of the payload: matched by its key with a child that was read,
\* assigned or inserted, flushed; then its own children.
SyncNode(r) ==
    LET top  == Head(req[r].stack)
        node == Head(top.rest)
        same == {i \in DOMAIN top.existing : top.existing[i].key = node.key}
        id   == IF same = {} THEN NewId(r) ELSE CHOOSE i \in same : TRUE
        ins  == IF same = {} THEN [i \in {id} |-> NodeRow(node, top.form, top.parent)] ELSE Nothing
        ups  == IF same = {} \/ Known(r, top, id) = node.label THEN Pending(r)
                ELSE Put(Pending(r), id, [label |-> node.label])
        q    == [Flushed(req[r], r, ins, ups, req[r].doomed) EXCEPT !.stack[1].rest = Tail(@)]
    IN
    /\ req[r].pc = "syncing"
    /\ top.rest # <<>>
    /\ Free(r, ins, ups, req[r].doomed)
    /\ req' = [req EXCEPT ![r] =
          IF Failure(r, ins, ups) # NULL THEN Refused(Failure(r, ins, ups), FALSE)
          ELSE Sync(r, q, top.form, id, node.subs)]
    /\ UNCHANGED <<forms, fields, raced, calm>>

\* The payload of a node is through: children that it does not name are deleted
\* with what is below them, at the next flush.
SyncEnd_KeepsObsolete(r) ==
    /\ req[r].pc = "syncing"
    /\ Head(req[r].stack).rest = <<>>
    /\ req' = [req EXCEPT ![r].pc = IF Len(req[r].stack) = 1 THEN "closing" ELSE "syncing",
                          ![r].stack = Tail(@)]
    /\ UNCHANGED <<forms, fields, raced, calm>>
SyncEnd(r) ==
    LET top == Head(req[r].stack)
        obsolete == {i \in DOMAIN top.existing : top.existing[i].key \notin top.expected}
    IN
    /\ req[r].pc = "syncing"
    /\ top.rest = <<>>
    /\ req' = [req EXCEPT ![r].pc = IF Len(req[r].stack) = 1 THEN "closing" ELSE "syncing",
                          ![r].stack = Tail(@), ![r].doomed = @ \cup Below(View(r), obsolete)]
    /\ UNCHANGED <<forms, fields, raced, calm>>

(***************************************************************************)
(* The end of a transaction.                                               *)
(***************************************************************************)

\* Others that are open have read what is now the past.
Answer(r, code) ==
    [s \in Requests |-> IF s = r THEN Done(code)
                        ELSE IF Open(s) THEN [req[s] EXCEPT !.late = TRUE] ELSE req[s]]

\* What is left to flush, and the commit, of an operation on fields.
CommitFields(r) ==
    LET del == req[r].doomed IN
    /\ req[r].pc = "closing"
    /\ req[r].op.kind \in {"newField", "editField", "dropField", "seed"}
    /\ Free(r, Nothing, Pending(r), del)
    /\ IF Failure(r, Nothing, Pending(r)) # NULL
       THEN /\ req' = [req EXCEPT ![r] = Refused(Failure(r, Nothing, Pending(r)),
                                                 req[r].op.kind \in {"newField", "editField"})]
            /\ UNCHANGED <<forms, fields, raced, calm>>
       ELSE LET q == Flushed(req[r], r, Nothing, Pending(r), del) IN
            /\ fields' = Over(fields, q.tx, q.gone)
            /\ forms' = FormsView(r)
            /\ req' = Answer(r, 200)
            /\ raced' = (raced \/ req[r].late)
            /\ calm' = IF raced' THEN calm ELSE fields'

\* The row of the form as it is committed.
FormAssigned(r) ==
    LET o == req[r].op IN
    IF o.kind = "newForm" THEN o.row
    ELSE Flush(forms[o.form], req[r].seen, Assign(req[r].seen, o.set))

\* create and update of a form.
CommitForm(r) ==
    LET o  == req[r].op
        id == IF o.kind = "newForm" THEN r ELSE o.form
    IN
    /\ req[r].pc = "closing"
    /\ o.kind \in {"newForm", "editForm"}
    /\ \/ /\ o.kind = "editForm" /\ id \notin DOMAIN forms
          /\ req' = [req EXCEPT ![r] = Done(500)]
          /\ UNCHANGED forms
       \/ /\ o.kind = "newForm" \/ id \in DOMAIN forms
          /\ FormFree(r, id, FormAssigned(r).name)
          /\ IF FormStorable(id, FormAssigned(r))
             THEN forms' = Put(forms, id, FormAssigned(r)) /\ req' = Answer(r, 200)
             ELSE UNCHANGED forms /\ req' = [req EXCEPT ![r] = Done(409)]
    /\ UNCHANGED <<fields, raced, calm>>

\* delete of a form: the fields that were loaded and, by the foreign key, those
\* that the form has by then.
CommitDrop(r) ==
    LET o   == req[r].op
        del == req[r].doomed \cup {f \in DOMAIN fields : fields[f].form = o.form}
    IN
    /\ req[r].pc = "closing"
    /\ o.kind = "dropForm"
    /\ Free(r, Nothing, Nothing, del)
    /\ \A s \in Requests \ {r} : Open(s) =>
          o.form \notin DOMAIN req[s].ftx /\ \A j \in DOMAIN req[s].tx : req[s].tx[j].form # o.form
    /\ forms' = Drop(forms, o.form)
    /\ fields' = [f \in DOMAIN fields \ Below(fields, del) |-> fields[f]]
    /\ req' = Answer(r, 200)
    /\ raced' = (raced \/ req[r].late)
    /\ calm' = IF raced' THEN calm ELSE fields'

\* The session closes without commit: the process or its connection died, or the
\* database chose it among those that wait for each other.
Abort(r) ==
    /\ Open(r)
    /\ req' = [req EXCEPT ![r] = Done(500)]
    /\ UNCHANGED <<forms, fields, raced, calm>>

Terminated == (\A r \in Requests : req[r].pc = "done") /\ UNCHANGED vars

Proceed(r) == \/ Walk(r) \/ FlushField(r) \/ FlushForm(r) \/ Move(r) \/ SyncNode(r) \/ SyncEnd(r)
              \/ CommitFields(r) \/ CommitForm(r) \/ CommitDrop(r)

Next ==
    \/ \E r \in Requests : \/ \E o \in Ops[r] : Load(r, o)
                           \/ Proceed(r) \/ Abort(r)
    \/ Terminated

Spec == Init /\ [][Next]_vars

\* A request that walks goes on: no lock and no other process holds up a SELECT.
Fairness == \A r \in Requests : WF_vars(Walk(r))

FairSpec == Spec /\ Fairness
==============================================================================
