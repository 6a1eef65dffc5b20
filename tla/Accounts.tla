------------------------------- MODULE Accounts ------------------------------
(***************************************************************************)
(* Requests about customers, their income, their connections and their     *)
(* users, overlapping.                                                     *)
(***************************************************************************)
EXTENDS Income, Connections, Users

ASSUME OpsAssumption == \A r \in Requests : \A o \in Ops[r] :
    CustomerBody(o) \/ IncomeBody(o) \/ ConnectionBody(o) \/ UserBody(o)

Begin(r, o) ==
    \/ LoadCustomer(r, o)
    \/ LoadUpsert(r, o) \/ LoadImport(r, o)
    \/ LoadConnect(r, o) \/ LoadTest(r, o)
    \/ LoadNewUser(r, o) \/ LoadEditUser(r, o) \/ LoadSeed(r, o) \/ Login(r, o)

Proceed(r) ==
    \/ CommitCustomer(r)
    \/ FindBuckets(r) \/ DeleteBuckets(r) \/ FindMonths(r) \/ DeleteMonths(r)
    \/ NameCustomer(r) \/ FindErased(r) \/ DeleteErased(r)
    \/ CommitIncome(r)
    \/ CommitConnect(r) \/ CommitTest(r)
    \/ CommitUser(r) \/ Upgrade(r)

\* The session closes without commit: the process or its connection died, or the
\* database chose its transaction to end a deadlock.
Abort(r) == Open(r) /\ Goes(r, Done(500))

Terminated == (\A r \in Requests : req[r].pc = "done") /\ UNCHANGED vars

Next ==
    \/ \E r \in Requests : (\E o \in Ops[r] : Begin(r, o)) \/ Proceed(r) \/ Abort(r)
    \/ Terminated

Spec == Init /\ [][Next]_vars
==============================================================================
