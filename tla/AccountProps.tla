----------------------------- MODULE AccountProps -----------------------------
(***************************************************************************)
(* What is claimed of Accounts.                                            *)
(***************************************************************************)
EXTENDS Accounts

(***************************************************************************)
(* Types.                                                                  *)
(***************************************************************************)

Stages == {"idle", "customer", "buckets", "bucketsFound", "months", "monthsFound", "writing",
           "naming", "erasing", "erasingFound", "connect", "testing", "newUser", "editUser",
           "upgrade", "done"}

BareOK(x) ==
    /\ x.code \in Codes /\ x.label \in Labels \cup Nat \cup {NULL} /\ x.amount \in Amounts

\* An entry of a plan: its customer exists or is new, and what it writes can be stored.
EntryOK(e) ==
    /\ e.customer \in Nat /\ {e.new, e.wake} \subseteq BOOLEAN
    /\ e.new => e.item.name \in Names
    /\ ~e.new => e.customer \in DOMAIN customers
    /\ e.seen # NULL => e.customer \in DOMAIN summaries
    /\ SummaryOK(e.item.summary)
    /\ \A n \in DOMAIN e.item.buckets : BareOK(e.item.buckets[n])
    /\ e.item.months # NULL => \A n \in DOMAIN e.item.months : BareOK(e.item.months[n])

IncomeStages == {"buckets", "bucketsFound", "months", "monthsFound", "writing"}
ImportStages == {"naming", "erasing", "erasingFound"}

\* What a request has in its hands at its stage.
IncomeReqOK(q) ==
    /\ q.plan \in Seq(Range(q.plan)) /\ \A e \in Range(q.plan) : EntryOK(e)
    /\ q.held \in 0..Len(q.plan)
    /\ q.doomed # {} => q.pc \in {"bucketsFound", "monthsFound", "erasingFound"}
    /\ q.pc \in IncomeStages => q.op.kind = "upsert"
    /\ q.pc \in ImportStages => q.op.kind = "import" /\ q.seen \subseteq NamesOf(q.op.sums, q.op.rows)
    /\ q.pc = "erasing" => q.plan # <<>>

ConnectionReqOK(q) ==
    /\ q.pc = "connect" =>
          /\ q.op.kind = "connect" /\ q.op.customer \in DOMAIN customers
          /\ q.seen # NULL => /\ ConnectionOK(q.seen) /\ q.op.customer \in DOMAIN connections
                              /\ q.seen.hash # NULL => connections[q.op.customer].hash # NULL
    /\ q.pc = "testing" =>
          /\ q.op.kind = "test" /\ ConnectionOK(q.seen) /\ q.seen.secret # NULL
          /\ q.op.customer \in DOMAIN connections

\* The profile that is resolved, and a password only from the body of the request.
Resolved(row) ==
    /\ DOMAIN row = UserColumns /\ row.customer \in DOMAIN customers \cup {NULL}
    /\ row.customer = NULL <=> row.role \in {"admin", "public"}

UserReqOK(r, q) ==
    /\ q.pc = "newUser" => q.op.kind \in {"newUser", "signUp", "seed"} /\ Resolved(q.seen)
    /\ q.pc = "editUser" =>
          /\ q.op.kind \in {"editUser", "offUser"} /\ q.op.user \in DOMAIN users
          /\ UserOK(q.seen[1]) /\ Resolved(q.seen[2])
          /\ q.seen[2].password # q.seen[1].password =>
                /\ q.op.kind = "editUser" /\ "password" \in DOMAIN q.op.set
                /\ q.op.set.password \in Passwords
                /\ q.seen[2].password = Hash(q.op.set.password, r)
    /\ q.pc = "upgrade" => q.op.kind = "login" /\ q.seen \in DOMAIN users

ReqOK(r, q) ==
    /\ DOMAIN q = DOMAIN Idle
    /\ q.pc \in Stages
    /\ q.code \in {NULL, 200, 401, 404, 409, 422, 500, 502}
    /\ q.pc \notin {"idle", "done"} => q.op \in Ops[r]
    /\ q.pc = "customer" =>
          /\ CustomerBody(q.op)
          /\ q.op.kind = "editCustomer" => q.op.customer \in DOMAIN customers
    /\ IncomeReqOK(q) /\ ConnectionReqOK(q) /\ UserReqOK(r, q)

\* Rows hold values of their columns' types and refer to customers that exist, the
\* unique keys of lines and of users hold, and so do the constraints of a user's role.
TypeOK ==
    /\ DOMAIN customers \subseteq Nat /\ \A c \in DOMAIN customers : CustomerOK(customers[c])
    /\ DOMAIN summaries \cup DOMAIN connections \subseteq DOMAIN customers
    /\ \A c \in DOMAIN summaries : SummaryOK(summaries[c])
    /\ \A i \in DOMAIN lines :
          /\ LineOK(lines[i]) /\ lines[i].customer \in DOMAIN customers
          /\ \A j \in DOMAIN lines : LineKey(lines[i]) = LineKey(lines[j]) => i = j
    /\ \A c \in DOMAIN connections : ConnectionOK(connections[c])
    /\ \A u \in DOMAIN users :
          /\ UserOK(users[u]) /\ users[u].customer \in DOMAIN customers \cup {NULL}
          /\ \A v \in DOMAIN users : users[u].mobile = users[v].mobile => u = v
    /\ DOMAIN req = Requests /\ \A r \in Requests : ReqOK(r, req[r])

(***************************************************************************)
(* Income.                                                                 *)
(***************************************************************************)

Bare(x)   == [code |-> x.code, label |-> x.label, amount |-> x.amount]
Lines(s)  == {Bare(x) : x \in Range(s)}
BodiesOf(k) == {o \in UNION {Ops[r] : r \in Requests} : o.kind = k}

BookOf(t) ==
    [c \in DOMAIN t.customers |->
        LET of(k) == {Bare(t.lines[i]) : i \in {j \in DOMAIN t.lines : t.lines[j].customer = c /\ t.lines[j].kind = k}}
        IN  [name |-> t.customers[c].name, is_active |-> t.customers[c].is_active,
             summary |-> IF c \in DOMAIN t.summaries THEN t.summaries[c] ELSE NULL,
             buckets |-> of("bucket"), months |-> of("month")]]

Posts ==
    {[c \in {item.customer : item \in Range(o.items)} |->
        LET item == CHOOSE x \in Range(o.items) : x.customer = c
        IN  [summary |-> item.summary, buckets |-> Lines(item.buckets),
             months |-> IF item.months = NULL THEN NULL ELSE Lines(item.months)]] : o \in BodiesOf("upsert")}

\* Whose a row of the second sheet is: the name is in it, or in the nearest row above
\* that has one, with no blank row between.
Owner(rows, n) ==
    LET above == {m \in 1..n : rows[m].name # NULL /\ \A k \in m..n : rows[k] # Blank}
    IN  IF above = {} THEN NULL ELSE rows[Max(above)].name

Counted(rows, name) == {n \in 1..Len(rows) : rows[n].code \notin {NULL, Header} /\ Owner(rows, n) = name}

Sheets ==
    {LET named == {Owner(o.rows, n) : n \in {m \in 1..Len(o.rows) : o.rows[m].code \notin {NULL, Header}}}
                    \cup {x.name : x \in Range(o.sums)}
     IN  [name \in named \ {NULL} |->
            [summary |-> LET mine == {n \in 1..Len(o.sums) : o.sums[n].name = name}
                         IN  IF mine = {} THEN [amount |-> NULL, bills |-> NULL]
                             ELSE [amount |-> o.sums[Max(mine)].amount, bills |-> o.sums[Max(mine)].bills],
             buckets |-> {[code |-> o.rows[n].code, label |-> Label(o.rows, n), amount |-> o.rows[n].amount]
                             : n \in Counted(o.rows, name)},
             months |-> NULL]] : o \in BodiesOf("import")}

Book == INSTANCE CustomerBook WITH book <- BookOf(calm.income)

\* Up to the first race the data of a customer are those of the last bulk upsert, whose
\* buckets add up to its total, or of the last workbook that names it.
FollowsBook == Book!Spec

(***************************************************************************)
(* Connections.                                                            *)
(***************************************************************************)

\* Up to the first race the fingerprint is that of the secret, and the result that is
\* shown is that of a test of this secret.
ConnectionTested ==
    \A c \in DOMAIN calm.connections : Tested(calm.connections[c])

\* Why: before that the stored rows are those that are meant,
CalmIsCurrent == \A x \in Components \ raced : calm[x] = Snapshot[x]

\* and a request that no commit has overtaken has in its hands what is stored.
SeenIsCurrent ==
    \A r \in Requests :
        /\ req[r].pc \in {"connect", "testing"} /\ "connections" \notin req[r].late =>
              req[r].seen = Stored(req[r].op.customer)
        /\ req[r].pc = "upgrade" /\ "users" \notin req[r].late =>
              users[req[r].seen].password.text = req[r].op.password

\* The ids of customers never run out.
IdsBounded == IsFiniteSet(DOMAIN customers) /\ IsFiniteSet(Drawn)

(***************************************************************************)
(* Users.                                                                  *)
(***************************************************************************)

\* A user that a request creates is there once it is done.
OwnUsers == \A r \in Requests : r \in DOMAIN users => req[r].pc = "done"

Answers(r) == Open(r) /\ req'[r].pc = "done" /\ req'[r].code = 200

\* However updates of a user overlap, the role and the customer that are stored are the
\* two that one request has resolved together, never one from each of two.
ProfileRequested ==
    [][\A u \in DOMAIN users \cap DOMAIN users' :
          <<users'[u].role, users'[u].customer>> # <<users[u].role, users[u].customer>> =>
             \E r \in Requests :
                /\ Answers(r) /\ req[r].pc = "editUser" /\ req[r].op.user = u
                /\ req[r].seen[2].role = users'[u].role
                /\ req[r].seen[2].customer = users'[u].customer]_vars

\* A stored password changes to the hash of one that an update sets, or a login hashes
\* the one it has checked; the latter is another one only if an update came between.
PasswordKept ==
    [][\A u \in DOMAIN users \cap DOMAIN users' :
          users'[u].password # users[u].password =>
             /\ users'[u].password # NULL /\ users'[u].password.hashed
             /\ \E r \in Requests :
                   /\ Answers(r)
                   /\ \/ /\ req[r].pc = "editUser" /\ req[r].op.user = u
                         /\ "password" \in DOMAIN req[r].op.set
                         /\ users'[u].password.text = req[r].op.set.password
                      \/ /\ req[r].pc = "upgrade" /\ req[r].seen = u
                         /\ users'[u].password.text = req[r].op.password
                         /\ users'[u].password.text = users[u].password.text \/ "users" \in req[r].late]_vars
==============================================================================
