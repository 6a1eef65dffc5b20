------------------------------- MODULE Income --------------------------------
(***************************************************************************)
(* Income data of customers (customers/service.py): the bulk upsert, which *)
(* replaces that of some customers by a payload that is checked, and the   *)
(* import of a workbook, which finds or creates the customers by their     *)
(* names.  Both delete rows by a statement of their own and write all else *)
(* at the flush of the commit; an import also flushes for each new         *)
(* customer.                                                               *)
(***************************************************************************)
EXTENDS Customers

CONSTANTS
    Header,           \* what the code column of a heading has
    Codes, Labels,    \* codes of buckets, and months; labels of buckets
    Order             \* the order in which sorted() has the names

ASSUME OrderAssumption == Order \in [Names -> Nat]

INSTANCE Workbook

Kinds == {"bucket", "month"}

Amounts == Nat \cup {NULL}

SummaryOK(row) == DOMAIN row = {"amount", "bills"} /\ row.amount \in Amounts /\ row.bills \in Amounts
LineOK(row) ==
    /\ DOMAIN row = {"customer", "kind", "code", "label", "amount"}
    /\ row.kind \in Kinds /\ row.code \in Codes
    /\ row.label \in Labels \cup Nat \cup {NULL} /\ row.amount \in Amounts

LineKey(row) == <<row.customer, row.kind, row.code>>

Bodies == Seq([code : Codes, label : Labels \cup {NULL}, amount : Amounts])

\* CustomerIncomeBulkUpsertItemCreate: [customer, summary, buckets, months], the last two
\* sequences of [code, label, amount]; months may be NULL.  A workbook: its two sheets.
IncomeBody(o) ==
    \/ /\ o.kind = "upsert" /\ o.items \in Seq(Range(o.items)) \ {<<>>}
       /\ \A item \in Range(o.items) :
             /\ item.customer \in Nat /\ SummaryOK(item.summary) /\ item.buckets \in Bodies
             /\ item.months # NULL => item.months \in Bodies
    \/ /\ o.kind = "import" /\ NamesOf(o.sums, o.rows) \subseteq Names
       /\ o.sums \in Seq(Range(o.sums)) /\ o.rows \in Seq(Range(o.rows))
       /\ \A x \in Range(o.sums) : {x.amount, x.bills} \subseteq Amounts
       /\ \A x \in Range(o.rows) :
             /\ x.code \in Codes \cup {NULL, Header} /\ x.amount \in Amounts
             /\ x.label \in Labels \cup Nat \cup {NULL}

ASSUME IncomeAssumption ==
    /\ DOMAIN InitSummaries \subseteq DOMAIN InitCustomers
    /\ \A c \in DOMAIN InitSummaries : SummaryOK(InitSummaries[c])
    /\ \A i \in DOMAIN InitLines :
          /\ LineOK(InitLines[i]) /\ InitLines[i].customer \in DOMAIN InitCustomers
          /\ \A j \in DOMAIN InitLines : LineKey(InitLines[i]) = LineKey(InitLines[j]) => i = j

(***************************************************************************)
(* What a request is about to write: an entry for each of its customers,   *)
(* with what it has loaded of the customer.                                *)
(***************************************************************************)

Entry(c, new, item) ==
    [customer |-> c, new |-> new, item |-> item,
     wake |-> ~new /\ ~customers[c].is_active,
     seen |-> IF c \in DOMAIN summaries THEN summaries[c] ELSE NULL]

Entries(r, from, to) == {req[r].plan[i] : i \in from..to}

\* The changed columns of the summary, and the row if there was none.
Touches(e)  == e.seen = NULL \/ e.seen # e.item.summary
Summed(e)   == IF e.seen = NULL THEN e.item.summary
               ELSE Flush(summaries[e.customer], e.seen, e.item.summary)

Row(c, kind, x) == [customer |-> c, kind |-> kind, code |-> x.code, label |-> x.label, amount |-> x.amount]

\* The new lines of an entry, by id; `n` tells rows of one payload apart.
Inserted(r, e) ==
    LET months == IF e.item.months = NULL THEN <<>> ELSE e.item.months
        ids == {<<r, e.customer, "bucket", n>> : n \in DOMAIN e.item.buckets}
                 \cup {<<r, e.customer, "month", n>> : n \in DOMAIN months}
    IN  [i \in ids |-> Row(e.customer, i[3], (IF i[3] = "bucket" THEN e.item.buckets ELSE months)[i[4]])]

InsertedBy(r, from, to) ==
    LET new == UNION {{<<i, Inserted(r, e)[i]>> : i \in DOMAIN Inserted(r, e)} : e \in Entries(r, from, to)}
    IN  [i \in {x[1] : x \in new} |-> (CHOOSE x \in new : x[1] = i)[2]]

\* The tables with the entries from..to of r written, and what it has deleted gone.
LinesWith(r, from, to) ==
    LET new == InsertedBy(r, from, to)
        old == DOMAIN lines \ req[r].gone
    IN  [i \in old \cup DOMAIN new |-> IF i \in DOMAIN new THEN new[i] ELSE lines[i]]

SummariesWith(r, from, to) ==
    LET mine == {e.customer : e \in Entries(r, from, to)}
        of(c) == CHOOSE e \in Entries(r, from, to) : e.customer = c
    IN  [c \in DOMAIN summaries \cup mine |-> IF c \in mine THEN Summed(of(c)) ELSE summaries[c]]

CustomersWith(r, from, to) ==
    LET es   == Entries(r, from, to)
        mine == {e.customer : e \in {x \in es : x.new \/ x.wake}}
        of(c) == CHOOSE e \in es : e.customer = c
    IN  [c \in DOMAIN customers \cup mine |->
            IF c \notin mine THEN customers[c]
            ELSE IF of(c).new THEN [name |-> of(c).item.name, is_active |-> TRUE]
            ELSE [customers[c] EXCEPT !.is_active = TRUE]]

\* The unique keys of the three tables.
Storable_AnyCode(r, from, to) ==
    \A e \in Entries(r, from, to) : e.seen = NULL => e.customer \notin DOMAIN summaries
Storable(r, from, to) ==
    LET all == LinesWith(r, from, to) IN
    /\ \A e \in Entries(r, from, to) : e.seen = NULL => e.customer \notin DOMAIN summaries
    /\ \A i, j \in DOMAIN all : LineKey(all[i]) = LineKey(all[j]) => i = j

\* A flush of the entries from..to waits for no other transaction: none has written
\* a row of theirs or a line with a key of theirs, or deleted such a line.
Free(r, from, to) ==
    \A s \in Requests \ {r} : Open(s) =>
        LET theirs == {LineKey(row) : row \in Range(InsertedBy(s, 1, req[s].held))}
                        \cup {LineKey(lines[i]) : i \in req[s].gone}
            ours   == {LineKey(row) : row \in Range(InsertedBy(r, from, to))}
            summed(q, a, b) == {e.customer : e \in {x \in Entries(q, a, b) : Touches(x)}}
            named(q, a, b)  == {e.customer : e \in {x \in Entries(q, a, b) : x.new \/ x.wake}}
        IN  /\ ours \cap theirs = {}
            /\ summed(r, from, to) \cap summed(s, 1, req[s].held) = {}
            /\ named(r, from, to) \cap named(s, 1, req[s].held) = {}

(***************************************************************************)
(* The bulk upsert.                                                        *)
(***************************************************************************)

Distinct(s) == \A i, j \in 1..Len(s) : s[i] = s[j] => i = j
CodesOf(s)  == [i \in 1..Len(s) |-> s[i].code]

\* _validate_bucket_total.
Total(s) == MapThenSumSet(LAMBDA i : s[i].amount, {i \in 1..Len(s) : s[i].amount # NULL})
Adds(item) ==
    \/ item.summary.amount = NULL /\ \A x \in Range(item.buckets) : x.amount = NULL
    \/ item.summary.amount = Total(item.buckets)

Valid(items) ==
    /\ Distinct([i \in 1..Len(items) |-> items[i].customer])
    /\ \A item \in Range(items) : /\ Distinct(CodesOf(item.buckets)) /\ Adds(item)
                                  /\ item.months # NULL => Distinct(CodesOf(item.months))

LoadUpsert(r, o) ==
    /\ MayBegin(r)
    /\ o.kind = "upsert"
    /\ IF ~Valid(o.items) \/ \E item \in Range(o.items) : ~Active(item.customer)
       THEN Goes(r, Done(422))
       ELSE Goes(r, [Idle EXCEPT !.pc = "buckets", !.op = o,
                        !.plan = [i \in 1..Len(o.items) |-> Entry(o.items[i].customer, FALSE, o.items[i])]])

\* A DELETE finds the lines that are there when it begins...
Find(r, from, kind, next) ==
    LET of == {e.customer : e \in {x \in Entries(r, from, Len(req[r].plan)) :
                                      kind = "month" => x.item.months # NULL}}
    IN  Goes(r, [req[r] EXCEPT !.pc = next, !.doomed =
                    {i \in DOMAIN lines \ req[r].gone : lines[i].kind = kind /\ lines[i].customer \in of}])

FindBuckets(r) == req[r].pc = "buckets" /\ Find(r, 1, "bucket", "bucketsFound")

\* ...and is through once no other transaction has deleted one of them; of those that
\* are gone by then it takes no notice, nor of those that came.
Delete(r, next) ==
    /\ \A s \in Requests \ {r} : req[s].gone \cap req[r].doomed = {}
    /\ Goes(r, [req[r] EXCEPT !.pc = next, !.doomed = {}, !.gone = @ \cup (req[r].doomed \cap DOMAIN lines)])

DeleteBuckets(r) ==
    /\ req[r].pc = "bucketsFound"
    /\ Delete(r, IF \E e \in Range(req[r].plan) : e.item.months # NULL THEN "months" ELSE "writing")

FindMonths(r)   == req[r].pc = "months" /\ Find(r, 1, "month", "monthsFound")
DeleteMonths(r) == req[r].pc = "monthsFound" /\ Delete(r, "writing")

(***************************************************************************)
(* The import of a workbook, one customer after the other.                 *)
(***************************************************************************)

LoadImport(r, o) ==
    /\ MayBegin(r)
    /\ o.kind = "import"
    /\ Goes(r, [Idle EXCEPT !.pc = "naming", !.op = o, !.seen = NamesOf(o.sums, o.rows)])

ImportItem(o, name) ==
    [name |-> name, summary |-> Summary(o.sums, name), months |-> NULL,
     buckets |-> Buckets(o.rows, name)]

First(S) == CHOOSE n \in S : \A m \in S : Order[n] <= Order[m]

\* The oldest customer of that name.
Namesakes(name) == {c \in DOMAIN customers : customers[c].name = name}

\* _get_or_create_customer, and the summary.  A new customer is flushed with all that
\* is pending.
NameCustomer(r) ==
    LET name == First(req[r].seen)
        new  == Namesakes(name) = {}
        c    == IF new THEN NextId ELSE Min(Namesakes(name))
        item == ImportItem(req[r].op, name)
        q    == [req[r] EXCEPT !.pc = "erasing", !.seen = @ \ {name}, !.plan = Append(@, Entry(c, new, item))]
        from == req[r].held + 1
        to   == Len(req[r].plan)
    IN
    /\ req[r].pc = "naming"
    /\ req[r].seen # {}
    /\ IF ~new THEN Goes(r, q)
       ELSE /\ Free(r, from, to)
            /\ Goes(r, IF Storable(r, from, to) THEN [q EXCEPT !.held = to] ELSE Done(500))

FindErased(r)   == req[r].pc = "erasing" /\ Find(r, Len(req[r].plan), "bucket", "erasingFound")
DeleteErased(r) == req[r].pc = "erasingFound" /\ Delete(r, "naming")

(***************************************************************************)
(* The flush of the rest, and the commit, of either.                       *)
(***************************************************************************)

CommitIncome(r) ==
    LET n == Len(req[r].plan) IN
    /\ \/ req[r].pc = "writing"
       \/ req[r].pc = "naming" /\ req[r].seen = {}
    /\ Free(r, req[r].held + 1, n)
    /\ IF Storable(r, 1, n)
       THEN /\ customers' = CustomersWith(r, 1, n)
            /\ summaries' = SummariesWith(r, 1, n)
            /\ lines' = LinesWith(r, 1, n)
            /\ UNCHANGED <<connections, users>>
            /\ Commits(r, 200)
       ELSE Goes(r, Done(IF req[r].op.kind = "upsert" THEN 409 ELSE 500))
==============================================================================
