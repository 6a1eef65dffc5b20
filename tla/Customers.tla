------------------------------ MODULE Customers ------------------------------
(***************************************************************************)
(* Customers and what is kept for each of them: the income of the last     *)
(* twelve months, the connection to its database, its users                *)
(* (src/app/modules/customers/service.py, users/service.py).               *)
(*                                                                         *)
(* This module has the tables, the requests and the customers' own         *)
(* endpoints; Income, Connections and Users have the others, and Accounts  *)
(* puts them together.  A request reads rows, works with what it has read, *)
(* and commits later; see Orm.                                             *)
(*                                                                         *)
(* X_Defect before an operator X is X with a plausible bug, see Purchases. *)
(***************************************************************************)
EXTENDS Naturals, FiniteSets, FiniteSetsExt, Sequences, Orm

CONSTANTS
    NULL,
    Names,            \* names of customers
    Requests,         \* 1..N: requests in the order of their arrival, each handled once
    Ops,              \* by request, the bodies it may have
    InitCustomers,    \* the rows that exist at first, by id
    InitSummaries, InitLines,
    InitConnections,
    InitUsers

ASSUME RequestsAssumption == Requests \subseteq Nat
ASSUME NullAssumption == NULL \notin Names \cup Nat

VARIABLES
    customers,     \* the committed rows, by id, a number
    summaries,     \* customer_income_summaries, by customer
    lines,         \* customer_income_buckets and _monthly_reports
    connections,   \* customer_database_connections, by customer
    users,
    req,           \* the requests and what their transactions hold
    raced,         \* history: the components in which somebody has committed on
                   \* reads that another commit had overtaken
    calm           \* history: the tables of each component before that

tables == <<customers, summaries, lines, connections, users>>
vars   == <<customers, summaries, lines, connections, users, req, raced, calm>>

Snapshot == [income      |-> [customers |-> customers, summaries |-> summaries, lines |-> lines],
             connections |-> connections,
             users       |-> users]

Components == {"income", "connections", "users"}

\* What a request looks at, beside what it writes.
Reads(o) ==
    {"income"} \cup (IF o.kind \in {"connect", "test"} THEN {"connections"}
                     ELSE IF o.kind \in {"newUser", "signUp", "editUser", "offUser", "login", "seed"}
                     THEN {"users"} ELSE {})

\* seen: the row it has loaded.  plan, held, doomed, gone: see Income.
Idle == [pc |-> "idle", op |-> NULL, seen |-> NULL, plan |-> <<>>, held |-> 0,
         doomed |-> {}, gone |-> {}, late |-> {}, code |-> NULL]
Done(code) == [Idle EXCEPT !.pc = "done", !.code = code]

Init ==
    /\ customers = InitCustomers
    /\ summaries = InitSummaries
    /\ lines = InitLines
    /\ connections = InitConnections
    /\ users = InitUsers
    /\ req = [r \in Requests |-> Idle]
    /\ raced = {}
    /\ calm = Snapshot

Open(r) == req[r].pc \notin {"idle", "done"}

\* Requests begin in the order of their numbers.
MayBegin(r) == req[r].pc = "idle" /\ \A s \in Requests : s < r => req[s].pc # "idle"

\* A step of request r that writes no table.
Goes(r, q) == req' = [req EXCEPT ![r] = q] /\ UNCHANGED <<tables, raced, calm>>

\* Request r is through with the tables as they are now primed: others that are
\* open have read what is the past.
Commits(r, code) ==
    LET wrote == {x \in Components : Snapshot'[x] # Snapshot[x]} IN
    /\ req' = [s \in Requests |->
                 IF s = r THEN Done(code)
                 ELSE IF Open(s) THEN [req[s] EXCEPT !.late = @ \cup wrote] ELSE req[s]]
    /\ raced' = raced \cup IF req[r].late \cap Reads(req[r].op) = {} THEN {} ELSE wrote
    /\ calm' = [x \in Components |-> IF x \in raced' THEN calm[x] ELSE Snapshot'[x]]

Active(c) == c \in DOMAIN customers /\ customers[c].is_active

(***************************************************************************)
(* POST, PATCH and DELETE of a customer.                                   *)
(***************************************************************************)

CustomerOK(row) == DOMAIN row = {"name", "is_active"} /\ row.name \in Names /\ row.is_active \in BOOLEAN

CustomerBody(o) ==
    \/ o.kind = "newCustomer" /\ o.name \in Names
    \/ /\ o.kind = "editCustomer"
       /\ o.customer \in Nat /\ DOMAIN o.set \subseteq {"name", "is_active"}

ASSUME CustomersAssumption ==
    /\ DOMAIN InitCustomers \subseteq Nat /\ IsFiniteSet(DOMAIN InitCustomers)
    /\ \A c \in DOMAIN InitCustomers : CustomerOK(InitCustomers[c])

\* The sequence of the ids: past every id that is stored, or drawn by an open transaction.
Drawn  == UNION {{req[r].plan[i].customer : i \in 1..Len(req[r].plan)} : r \in Requests}
NextId == Max({0} \cup DOMAIN customers \cup Drawn) + 1

LoadCustomer(r, o) ==
    /\ MayBegin(r)
    /\ CustomerBody(o)
    /\ IF o.kind = "editCustomer" /\ o.customer \notin DOMAIN customers
       THEN Goes(r, Done(404))
       ELSE Goes(r, [Idle EXCEPT !.pc = "customer", !.op = o,
                        !.seen = IF o.kind = "newCustomer" THEN NULL ELSE customers[o.customer]])

\* The customers that a transaction has activated and not committed; only an import does.
Held(s) == {req[s].plan[i].customer : i \in {j \in 1..req[s].held : req[s].plan[j].wake}}

CommitCustomer(r) ==
    LET o  == req[r].op
        id == IF o.kind = "newCustomer" THEN NextId ELSE o.customer
        row == IF o.kind = "newCustomer" THEN [name |-> o.name, is_active |-> TRUE]
               ELSE Flush(customers[id], req[r].seen, Assign(req[r].seen, o.set))
    IN
    /\ req[r].pc = "customer"
    /\ \A s \in Requests \ {r} : id \notin Held(s)
    /\ IF CustomerOK(row)
       THEN /\ customers' = Put(customers, id, row)
            /\ UNCHANGED <<summaries, lines, connections, users>>
            /\ Commits(r, 200)
       ELSE Goes(r, Done(409))
==============================================================================
