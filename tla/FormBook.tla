------------------------------ MODULE FormBook -------------------------------
(***************************************************************************)
(* What the form endpoints promise: the fields of a form are a forest, and *)
(* a request changes one of its trees.  Module Forms is shown to implement *)
(* this as long as no commit rests on reads that another has overtaken.    *)
(***************************************************************************)
EXTENDS Naturals, FiniteSets

CONSTANT NULL

VARIABLE book     \* the fields, by id: [form, parent, key, label]

\* The fields of S and everything below them.
Under(t, S) ==
    LET level[n \in 0..Cardinality(DOMAIN t)] ==
            IF n = 0 THEN S
            ELSE LET above == level[n-1] IN above \cup {f \in DOMAIN t : t[f].parent \in above}
    IN  level[Cardinality(DOMAIN t)]

Forest(t) ==
    /\ Under(t, {f \in DOMAIN t : t[f].parent = NULL}) = DOMAIN t
    /\ \A f \in DOMAIN t : t[f].parent # NULL => t[t[f].parent].form = t[f].form

Init == Forest(book)

\* Everything but S stays, and S has nothing that was elsewhere.
OnlyWithin(S, T) ==
    /\ \A f \in DOMAIN book \ S : f \in DOMAIN book' /\ book'[f] = book[f]
    /\ DOMAIN book' \ DOMAIN book \subseteq T
    /\ T \cap DOMAIN book \subseteq S

Grow   == \E f \in DOMAIN book' \ DOMAIN book : OnlyWithin({}, Under(book', {f}))
Change == \E f \in DOMAIN book \cap DOMAIN book' : OnlyWithin(Under(book, {f}), Under(book', {f}))
Prune  == /\ DOMAIN book' \subseteq DOMAIN book
          /\ \E f \in DOMAIN book : OnlyWithin(DOMAIN book \ DOMAIN book', {})
                                   /\ DOMAIN book \ DOMAIN book' = Under(book, {f})

\* A seed, or the deletion of a form.
Reform == \E g \in {book[f].form : f \in DOMAIN book} \cup {book'[f].form : f \in DOMAIN book'} :
             OnlyWithin({f \in DOMAIN book : book[f].form = g}, {f \in DOMAIN book' : book'[f].form = g})

Next == Forest(book') /\ (Grow \/ Change \/ Prune \/ Reform)

Spec == Init /\ [][Next]_book
==============================================================================
