------------------------------- MODULE MCForms -------------------------------
(***************************************************************************)
(* Instances of Forms for TLC.  Form g has the fields a, b below a, and c  *)
(* below b; form h has d, whose key is that of b.                          *)
(***************************************************************************)
EXTENDS FormProps, SequencesExt

CONSTANTS g, h, a, b, c, d, ka, kb, kc, kd, l1, l2, nameG, nameH, nameN

Row(form, parent, key) == [form |-> form, parent |-> parent, key |-> key, label |-> l1]

MCForms  == [i \in {g, h} |-> [name |-> IF i = g THEN nameG ELSE nameH, is_active |-> TRUE]]
MCFields == [i \in {a, b, c, d} |->
    CASE i = a -> Row(g, NULL, ka) [] i = b -> Row(g, a, kb)
      [] i = c -> Row(g, b, kc)    [] i = d -> Row(h, NULL, kb)]

Node(key, label, subs)     == [key |-> key, label |-> label, subs |-> subs]
Leaf(key, label)           == Node(key, label, <<>>)
NewForm(name)              == [kind |-> "newForm", row |-> [name |-> name, is_active |-> TRUE]]
EditForm(form, set)        == [kind |-> "editForm", form |-> form, set |-> set]
DropForm(form)             == [kind |-> "dropForm", form |-> form]
NewField(form, p, node)    == [kind |-> "newField", form |-> form, parent |-> p, node |-> node]
EditField(field, set, subs) == [kind |-> "editField", field |-> field, set |-> set, subs |-> subs]
DropField(field)           == [kind |-> "dropField", field |-> field]
SeedForm(name, nodes)      == [kind |-> "seed", row |-> [name |-> name, is_active |-> TRUE], fields |-> nodes]

None == [x \in {} |-> NULL]

MCAll == {
    NewForm(nameN), EditForm(h, [name |-> nameG]), EditForm(g, [is_active |-> FALSE]),
    EditForm(g, [name |-> nameN]), DropForm(g),
    NewField(g, c, Node(kd, l2, <<>>)), NewField(h, a, Leaf(kd, l1)), NewField(h, NULL, Node(kc, l1, <<Leaf(kd, l1)>>)),
    EditField(a, [parent |-> c], NULL), EditField(b, [parent |-> NULL], NULL),
    EditField(c, [parent |-> a, label |-> l2], NULL),
    EditField(a, [form |-> h], NULL), EditField(b, [form |-> h, parent |-> NULL], <<Leaf(kd, l1)>>),
    EditField(a, None, <<Node(kb, l2, <<Leaf(kd, l1)>>)>>),
    EditField(d, [key |-> kd], <<>>), EditField(a, None, <<Leaf(kb, l2), Leaf(kb, l1)>>),
    DropField(b),
    SeedForm(nameG, <<Node(ka, l1, <<Leaf(kb, l2)>>)>>), SeedForm(nameN, <<Leaf(kd, l1)>>)}

MCNodes ==
    LET tops == {o.node : o \in {x \in MCAll : x.kind = "newField"}}
                  \cup UNION {ToSet(o.subs) : o \in {x \in MCAll : x.kind = "editField" /\ x.subs # NULL}}
                  \cup UNION {ToSet(o.fields) : o \in {x \in MCAll : x.kind = "seed"}}
    IN  tops \cup UNION {ToSet(n.subs) : n \in tops} \cup {Leaf(kd, l2)}

\* Two requests of any kind, and a third that moves a field or restores a form.
MCOps == [r \in 1..3 |->
    IF r < 3 THEN MCAll
    ELSE {EditField(c, [parent |-> a, label |-> l2], NULL), NewField(g, c, Leaf(kd, l2)),
          SeedForm(nameG, <<Node(ka, l1, <<Leaf(kb, l2)>>)>>)}]
==============================================================================
