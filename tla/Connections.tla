----------------------------- MODULE Connections -----------------------------
(***************************************************************************)
(* Connections to the databases of customers (customers/service.py): the   *)
(* secret that is stored encrypted beside its fingerprint, and what the    *)
(* last test of it has shown.  A test runs outside the database, with the  *)
(* secret that was loaded.                                                 *)
(***************************************************************************)
EXTENDS Customers

CONSTANTS Secrets, Malformed    \* connection strings; those that do not parse

ASSUME SecretsAssumption ==
    /\ Malformed \subseteq Secrets
    /\ NULL \notin Secrets \cup [text : Secrets, by : Nat] \cup [by : Nat, text : Secrets, ok : BOOLEAN]

\* secret: [text, by], for no two encryptions of one text are equal.  legacy: there
\* is a reference to a secret elsewhere.  tested_at: stands for the time; it names
\* the test, what it tested and what it found, success is the column.
NewConnection == [secret |-> NULL, hash |-> NULL, legacy |-> FALSE, is_active |-> TRUE,
                  tested_at |-> NULL, success |-> NULL]

ConnectionOK(row) ==
    /\ DOMAIN row = DOMAIN NewConnection
    /\ row.secret \in [text : Secrets, by : Nat] \cup {NULL}
    /\ row.hash \in Secrets \cup {NULL} /\ (row.secret = NULL <=> row.hash = NULL)
    /\ {row.legacy, row.is_active} \subseteq BOOLEAN /\ row.success \in BOOLEAN \cup {NULL}

ConnectionBody(o) ==
    \/ /\ o.kind = "connect" /\ DOMAIN o.set \subseteq {"secret", "is_active"}
       /\ "secret" \in DOMAIN o.set => o.set.secret \in Secrets \cup {NULL}
       /\ "is_active" \in DOMAIN o.set => o.set.is_active \in BOOLEAN \cup {NULL}
    \/ o.kind = "test"

\* The fingerprint is that of the secret, and the result that is shown is that of a
\* test of this secret.
Tested(row) ==
    /\ row.secret # NULL => row.hash = row.secret.text
    /\ IF row.tested_at = NULL THEN row.success = NULL
       ELSE row.tested_at.text = row.secret.text /\ row.success = row.tested_at.ok

ASSUME ConnectionsAssumption ==
    /\ DOMAIN InitConnections \subseteq DOMAIN InitCustomers
    /\ \A c \in DOMAIN InitConnections : ConnectionOK(InitConnections[c]) /\ Tested(InitConnections[c])

Stored(c) == IF c \in DOMAIN connections THEN connections[c] ELSE NULL

\* build_settings accepts what there is of a connection string.
Parses(o) == "secret" \in DOMAIN o.set => o.set.secret \notin Malformed

LoadConnect(r, o) ==
    /\ MayBegin(r)
    /\ o.kind = "connect"
    /\ Goes(r, IF o.customer \notin DOMAIN customers THEN Done(404)
               ELSE IF ~Parses(o) THEN Done(422)
               ELSE [Idle EXCEPT !.pc = "connect", !.op = o, !.seen = Stored(o.customer)])

\* _apply_encrypted_connection_string; a string that is NULL is none.
Secured(r, row, set) ==
    IF "secret" \in DOMAIN set /\ set.secret # NULL
    THEN [row EXCEPT !.secret = [text |-> set.secret, by |-> r], !.hash = set.secret, !.legacy = FALSE]
    ELSE row

\* upsert: what is assigned; the result of an earlier test is cleared.
Upserted_KeepsResult(r) ==
    LET o   == req[r].op
        row == IF req[r].seen = NULL THEN NewConnection ELSE req[r].seen
    IN  Secured(r, Assign(row, [c \in DOMAIN o.set \ {"secret"} |-> o.set[c]]), o.set)
Upserted(r) ==
    LET o   == req[r].op
        row == IF req[r].seen = NULL THEN NewConnection ELSE req[r].seen
    IN  [Secured(r, Assign(row, [c \in DOMAIN o.set \ {"secret"} |-> o.set[c]]), o.set)
            EXCEPT !.tested_at = NULL, !.success = NULL]

CommitConnect(r) ==
    LET c   == req[r].op.customer
        row == IF req[r].seen = NULL THEN Upserted(r) ELSE Flush(connections[c], req[r].seen, Upserted(r))
    IN
    /\ req[r].pc = "connect"
    /\ IF (req[r].seen = NULL /\ c \in DOMAIN connections) \/ row.is_active = NULL
       THEN Goes(r, Done(409))
       ELSE /\ connections' = Put(connections, c, row)
            /\ UNCHANGED <<customers, summaries, lines, users>>
            /\ Commits(r, 200)

\* test_connection: get_active, and the string that is decrypted.
LoadTest(r, o) ==
    LET row == Stored(o.customer) IN
    /\ MayBegin(r)
    /\ o.kind = "test"
    /\ Goes(r, IF ~Active(o.customer) \/ row = NULL          THEN Done(404)
               ELSE IF ~row.is_active                        THEN Done(404)
               ELSE IF row.secret = NULL                     THEN Done(IF row.legacy THEN 409 ELSE 404)
               ELSE [Idle EXCEPT !.pc = "testing", !.op = o, !.seen = row])

\* The test is through; persist_connection_test_result loads nothing that the session
\* has not got.
CommitTest(r) ==
    /\ req[r].pc = "testing"
    /\ \E ok \in BOOLEAN :
          LET c  == req[r].op.customer
              to == [req[r].seen EXCEPT !.success = ok,
                        !.tested_at = [by |-> r, text |-> req[r].seen.secret.text, ok |-> ok]]
          IN  /\ connections' = [connections EXCEPT ![c] = Flush(@, req[r].seen, to)]
              /\ UNCHANGED <<customers, summaries, lines, users>>
              /\ Commits(r, IF ok THEN 200 ELSE 502)
==============================================================================
