------------------------------ MODULE MCMetadata ------------------------------
(***************************************************************************)
(* Instances of Metadata for TLC.  Source s1 has the model a with the      *)
(* field f, active, and the model b, which it once had and has no more,    *)
(* with the field f that was never made inactive; s2 is not registered.    *)
(***************************************************************************)
EXTENDS MetadataProps

CONSTANTS s1, s2, n1, n2, a, b, f, g, t1, t2

Row(type, text, is_active) == [type |-> type, text |-> text, hash |-> <<type, text>>, is_active |-> is_active]

\* The first registration, and what differs from it in the name or in the version.
i1 == [c \in InfoColumns |-> n1]
i2 == [i1 EXCEPT !["source_name"] = n2]
i3 == [i1 EXCEPT !["app_version"] = n2]

MCSources == [s \in {s1} |-> [info |-> i1, last |-> 0]]
MCRows == [k \in {<<s1, a>>, <<s1, a, f>>, <<s1, b>>, <<s1, b, f>>} |-> Row(t1, t1, k # <<s1, b>>)]

Field(name, type, text)          == [name |-> name, type |-> type, text |-> text]
Model(label, type, text, fields) == [label |-> label, type |-> type, text |-> text, fields |-> fields]
Sync(source, info, models)       == [source |-> source, info |-> info, models |-> models]

\* The same again; one column of the model and of the field, and a new field; the
\* other column, and the other model back with another field; nothing at all; and a
\* source that is new.
Same   == Sync(s1, i1, <<Model(a, t1, t1, <<Field(f, t1, t1)>>)>>)
Types  == Sync(s1, i2, <<Model(a, t2, t1, <<Field(f, t2, t1), Field(g, t1, t1)>>)>>)
Other  == Sync(s1, i3, <<Model(b, t1, t1, <<Field(g, t1, t1)>>), Model(a, t1, t2, <<>>)>>)
Empty  == Sync(s1, i1, <<>>)
First  == Sync(s2, i1, <<Model(a, t1, t1, <<Field(f, t1, t2)>>)>>)

MCRuns == [n \in {0} |-> [source |-> s1, snapshot |-> Same, status |-> "success", models |-> 1, fields |-> 1]]

MCOps == [r \in 1..3 |-> IF r < 3 THEN {Same, Types, Other, Empty, First} ELSE {Same, Types, Other}]
==============================================================================
