------------------------------ MODULE MCAccounts ------------------------------
(***************************************************************************)
(* Instances of Accounts for TLC.  Customer 1 is active and has income, a  *)
(* tested connection and a user with a password that is not hashed;        *)
(* customer 2 is inactive; customer 3 has the name of 1 and nothing else.  *)
(***************************************************************************)
EXTENDS AccountProps

CONSTANTS n1, n2, n4, k1, k2, t1, s1, s2, bad, m1, m2, m3, p1, p2, org

MCCustomers == [c \in 1..3 |-> [name |-> IF c = 2 THEN n2 ELSE n1, is_active |-> c # 2]]
MCSummaries == [c \in {1} |-> [amount |-> 1, bills |-> 1]]
MCLines     == [i \in {<<0, 1, "bucket", 1>>, <<0, 1, "month", 1>>} |->
                    Row(1, i[3], [code |-> k1, label |-> IF i[3] = "bucket" THEN t1 ELSE NULL, amount |-> 1])]
MCConnections == [c \in {1} |-> [secret |-> [text |-> s1, by |-> 0], hash |-> s1, legacy |-> FALSE,
                                 is_active |-> TRUE, success |-> TRUE,
                                 tested_at |-> [by |-> 0, text |-> s1, ok |-> TRUE]]]

Person(mobile, role, c, password) ==
    [mobile |-> mobile, role |-> role, customer |-> c, org_name |-> NULL, org_type |-> NULL,
     password |-> password, is_active |-> TRUE]
Plain(text) == [text |-> text, hashed |-> FALSE, by |-> 0]
MCUsers == [u \in {11} |-> Person(m1, "customer", 1, Plain(p1))]

MCNames == [n \in {n1, n2, n4} |-> CASE n = n1 -> 1 [] n = n2 -> 2 [] n = n4 -> 3]

X(code, label, amount) == [code |-> code, label |-> label, amount |-> amount]
Item(c, amount, buckets, months) ==
    [customer |-> c, summary |-> [amount |-> amount, bills |-> NULL], buckets |-> buckets, months |-> months]
Upsert(items)      == [kind |-> "upsert", items |-> items]
Sum1(name, amount) == [name |-> name, amount |-> amount, bills |-> NULL]
Sheet(sums, rows)  == [kind |-> "import", sums |-> sums, rows |-> rows]
Cells(code, label, amount, name) == [code |-> code, label |-> label, amount |-> amount, name |-> name]
NewCustomer(name)  == [kind |-> "newCustomer", name |-> name]
EditCustomer(c, set) == [kind |-> "editCustomer", customer |-> c, set |-> set]
Connect(c, set)    == [kind |-> "connect", customer |-> c, set |-> set]
Test(c)            == [kind |-> "test", customer |-> c]
NewUser(mobile, role, c, password) ==
    [kind |-> "newUser", set |-> [mobile |-> mobile, role |-> role, customer |-> c,
                                  org_name |-> NULL, org_type |-> NULL, password |-> password]]
EditUser(set)      == [kind |-> "editUser", user |-> 11, set |-> set]

MCIncome == {
    Upsert(<<Item(1, 3, <<X(k1, t1, 1), X(k2, NULL, 2)>>, NULL)>>),
    Upsert(<<Item(1, 2, <<X(k2, t1, 2)>>, <<>>), Item(3, NULL, <<>>, <<X(k2, NULL, 1)>>)>>),
    Upsert(<<Item(1, 2, <<X(k1, t1, 1)>>, NULL)>>),
    Upsert(<<Item(2, NULL, <<>>, NULL)>>),
    Sheet(<<Sum1(n1, 1), Sum1(n1, 2), Sum1(n4, 2)>>,
          <<Cells(Header, NULL, NULL, n1), Cells(k1, 7, 1, NULL), Blank, Cells(k2, t1, 1, NULL),
            Cells(k1, t1, 2, n4)>>),
    Sheet(<<>>, <<Cells(k2, NULL, 2, n4), Cells(k2, t1, 1, n2)>>),
    Sheet(<<>>, <<Cells(k2, NULL, 2, n1), Cells(k2, t1, 1, NULL)>>)}

MCCustomerOps == {
    NewCustomer(n4), EditCustomer(1, [is_active |-> FALSE]), EditCustomer(2, [is_active |-> TRUE, name |-> n1]),
    EditCustomer(1, [name |-> NULL]), EditCustomer(9, [name |-> n2])}

MCConnectionOps == {
    Connect(1, [secret |-> s1]), Connect(1, [secret |-> s2]), Connect(1, [secret |-> bad]),
    Connect(1, [is_active |-> FALSE, secret |-> NULL]), Connect(3, [secret |-> s1]),
    Connect(3, [is_active |-> NULL]), Test(1), Test(3)}

MCUserOps == {
    NewUser(m2, "customer", 1, p1), NewUser(m1, "admin", 1, NULL), NewUser(m2, "customer", 2, NULL),
    [kind |-> "signUp", set |-> [mobile |-> m2, role |-> "public", customer |-> NULL,
                                 org_name |-> org, org_type |-> org, password |-> NULL]],
    EditUser([role |-> "admin"]), EditUser([role |-> "public", org_name |-> org, org_type |-> org]),
    EditUser([customer |-> 3, password |-> p2]), EditUser([password |-> NULL, mobile |-> m2]),
    EditUser([role |-> "customer", customer |-> 2]), EditUser([role |-> NULL]),
    [kind |-> "offUser", user |-> 11],
    [kind |-> "login", mobile |-> m1, password |-> p1], [kind |-> "login", mobile |-> m1, password |-> p2],
    [kind |-> "seed"]}

\* Two requests of any kind, and a third that is about the customers themselves, the
\* password or the connection.
MCOps == [r \in 1..3 |->
    IF r < 3 THEN MCIncome \cup MCCustomerOps \cup MCConnectionOps \cup MCUserOps
    ELSE {EditCustomer(1, [is_active |-> FALSE]), Connect(1, [secret |-> s1]),
          EditUser([customer |-> 3, password |-> p2])}]
==============================================================================
