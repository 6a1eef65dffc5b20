----------------------------- MODULE MetadataBook -----------------------------
(***************************************************************************)
(* What the metadata registry promises to who queries it: of each source,  *)
(* the models and fields of the last snapshot that was taken over whole,   *)
(* and how the last attempt ended.                                         *)
(***************************************************************************)
EXTENDS FiniteSets

CONSTANTS
    NULL,
    Payloads       \* [source, info, snapshot, listed], `listed` the models and fields

VARIABLE book      \* by source: [summary, listed], what the queries answer

\* A summary counts what is listed.
FieldsIn(listed) == UNION {{<<m[1], f>> : f \in m[2].fields} : m \in listed}
Counted(listed)  == [entities |-> Cardinality(listed), fields |-> Cardinality(FieldsIn(listed))]

Init == \A s \in DOMAIN book :
    [entities |-> book[s].summary.entities, fields |-> book[s].summary.fields] = Counted(book[s].listed)

\* A source without any models, as a first sync registers it.
New(p) == [summary |-> [info |-> p.info, last |-> NULL, entities |-> 0, fields |-> 0, latest |-> NULL],
           listed  |-> {}]
Was(p) == IF p.source \in DOMAIN book THEN book[p.source] ELSE New(p)

Becomes(p, entry) ==
    book' = [s \in DOMAIN book \cup {p.source} |-> IF s = p.source THEN entry ELSE book[s]]

\* The registry becomes what the payload says, whatever it was.
Take(p) ==
    /\ p.source \in DOMAIN book'
    /\ LET last == book'[p.source].summary.last IN
       /\ last # Was(p).summary.last
       /\ Becomes(p, [listed  |-> p.listed,
                      summary |-> [info |-> p.info, last |-> last,
                                   entities |-> Counted(p.listed).entities,
                                   fields   |-> Counted(p.listed).fields,
                                   latest   |-> [status |-> "success", snapshot |-> p.snapshot]]])

\* A sync that failed may have renamed the source, in the columns that were not as it
\* asks when it began; the models stay as they are.  It is not the latest, if one that
\* began after it was through before.
Mixed(new, old, columns) == [c \in DOMAIN old |-> IF c \in columns THEN new[c] ELSE old[c]]
Refuse(p) ==
    \E columns \in SUBSET DOMAIN p.info :
    \E info \in {Mixed(p.info, Was(p).summary.info, columns)} :
    \E latest \in {[status |-> "failed", snapshot |-> p.snapshot], Was(p).summary.latest} :
        Becomes(p, [Was(p) EXCEPT !.summary.info = info, !.summary.latest = latest])

Next == \E p \in Payloads : Take(p) \/ Refuse(p)

Spec == Init /\ [][Next]_book
==============================================================================
