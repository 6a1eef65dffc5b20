---------------------------- MODULE CustomerBook -----------------------------
(***************************************************************************)
(* What the income endpoints and the import promise, each done at once: a  *)
(* customer's data are what the last one said of it, and an import finds   *)
(* its customers by their names.                                           *)
(***************************************************************************)
EXTENDS Naturals, FiniteSetsExt

CONSTANTS
    NULL,
    Posts,      \* payloads of the bulk upsert: the data of some customers, by id
    Sheets      \* workbooks: the data of some customers, by name

\* book: the customers, by id: [name, is_active, summary, buckets, months]; book with
\* no more than what is in a payload: [summary, buckets, months].
VARIABLE book

Init == DOMAIN book \subseteq Nat

Kept(x, old)  == IF x = NULL THEN old ELSE x
Filled(e, x)  == [e EXCEPT !.summary = x.summary, !.buckets = x.buckets, !.months = Kept(x.months, @)]
Fresh(name)   == [name |-> name, is_active |-> TRUE, summary |-> NULL, buckets |-> {}, months |-> {}]

Create ==
    \E c \in DOMAIN book' \ DOMAIN book :
        /\ DOMAIN book' = DOMAIN book \cup {c}
        /\ book'[c] = Fresh(book'[c].name)
        /\ \A d \in DOMAIN book : book'[d] = book[d]

Edit ==
    \E c \in DOMAIN book :
        /\ DOMAIN book' = DOMAIN book
        /\ \A d \in DOMAIN book \ {c} : book'[d] = book[d]
        /\ \A x \in {"summary", "buckets", "months"} : book'[c][x] = book[c][x]

Sum(buckets) == MapThenSumSet(LAMBDA b : IF b.amount = NULL THEN 0 ELSE b.amount, buckets)

\* The total is that of the buckets, or neither has any amount.
AddsUp(x) ==
    IF x.summary.amount = NULL THEN \A b \in x.buckets : b.amount = NULL
    ELSE x.summary.amount = Sum(x.buckets)

Replace ==
    \E p \in Posts :
        /\ \A c \in DOMAIN p : c \in DOMAIN book /\ book[c].is_active /\ AddsUp(p[c])
        /\ book' = [c \in DOMAIN book |-> IF c \in DOMAIN p THEN Filled(book[c], p[c]) ELSE book[c]]

\* The customers of a workbook: the oldest of a name, or a new one.
Import ==
    \E s \in Sheets :
        LET mine(c) == {n \in DOMAIN s : \/ c \in DOMAIN book /\ book[c].name = n
                                            /\ \A d \in DOMAIN book : book[d].name = n => c <= d
                                         \/ c \notin DOMAIN book /\ book'[c].name = n}
        IN  /\ DOMAIN book \subseteq DOMAIN book'
            /\ \A n \in DOMAIN s : \E c \in DOMAIN book' : n \in mine(c) /\ \A d \in DOMAIN book' \ {c} : n \notin mine(d)
            /\ \A c \in DOMAIN book' :
                  LET e == IF c \in DOMAIN book THEN book[c] ELSE Fresh(book'[c].name) IN
                  IF mine(c) = {} THEN c \in DOMAIN book /\ book'[c] = e
                  ELSE \E n \in mine(c) : book'[c] = [Filled(e, s[n]) EXCEPT !.is_active = TRUE]

Next == Create \/ Edit \/ Replace \/ Import

Spec == Init /\ [][Next]_book
==============================================================================
