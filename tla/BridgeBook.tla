----------------------------- MODULE BridgeBook ------------------------------
(***************************************************************************)
(* What the bridge endpoints promise of one request after another: what is *)
(* remembered of a customer's bridge was learned from the bridge that is   *)
(* configured now, in the order in which it was asked, and as a whole.     *)
(* Module Bridge is shown to implement this for the customers on whose     *)
(* bridge requests never overlap.                                          *)
(***************************************************************************)
EXTENDS Naturals

CONSTANTS NULL, Customers

VARIABLES
    book,    \* by customer: [url, enabled, health, sub, synced, failed]
    said     \* <<customer, url, subscription>>: what bridges have answered

Forgotten(e) == [e EXCEPT !.health = "unknown", !.sub = NULL, !.synced = NULL, !.failed = FALSE]

Init ==
    \A c \in DOMAIN book :
        /\ book[c].health \in {"unknown", "online", "offline"}
        /\ book[c].sub # NULL => <<c, book[c].url, book[c].sub>> \in said
        /\ book[c].sub # NULL <=> book[c].synced # NULL
        /\ ~book[c].failed

Only(c) == /\ DOMAIN book' = DOMAIN book \cup {c}
           /\ \A d \in DOMAIN book \ {c} : book'[d] = book[d]

Hear == said \subseteq said'

\* A configuration forgets what was known.
Configure(c) ==
    /\ Only(c)
    /\ book'[c] = Forgotten(book'[c])

Ready(c) == c \in DOMAIN book /\ book[c].enabled /\ book[c].url # NULL /\ Only(c)

\* A health check changes nothing but the health, and leaves it known.
Check(c) ==
    /\ Ready(c)
    /\ \E h \in {"online", "offline"} : book'[c] = [book[c] EXCEPT !.health = h]

\* The entry was brought up to date at a later time than before.
Later(c) == book'[c].synced \in Nat /\ (book[c].synced = NULL \/ book[c].synced < book'[c].synced)

Refresh(c) ==
    /\ Ready(c)
    /\ Later(c)
    /\ \/ \E s \in {t[3] : t \in {t \in said' : t[1] = c /\ t[2] = book[c].url}} :
             book'[c] = [book[c] EXCEPT !.sub = s, !.synced = book'[c].synced, !.failed = FALSE]
       \/ book'[c] = [book[c] EXCEPT !.sub = NULL, !.synced = book'[c].synced, !.failed = TRUE]

Fail(c) ==
    /\ Ready(c)
    /\ book'[c] = [book[c] EXCEPT !.failed = TRUE]

Next == /\ Hear
        /\ \/ \E c \in Customers : Configure(c) \/ Check(c) \/ Refresh(c) \/ Fail(c)
           \/ UNCHANGED book

Spec == Init /\ [][Next]_<<book, said>>
==============================================================================
