------------------------------- MODULE OtpDesk -------------------------------
(***************************************************************************)
(* What a login by one-time passwords promises of one caller after another:*)
(* a mobile has one valid code at most, the last one it was given; it gets *)
(* no more codes within a window of time than the limit; and a code lets   *)
(* one sign-in through.  Module Otp is shown to implement this for the     *)
(* mobiles on which requests and sign-ins never overlap.                   *)
(***************************************************************************)
EXTENDS Naturals, FiniteSets, Orm

CONSTANTS Mobiles, Cards, Guests, Limit, Window

VARIABLES
    now,       \* the clock
    issued,    \* the codes given so far: [mobile, at]
    valid,     \* per mobile, the code that is valid, if any
    served     \* the guests let in, each with the code

Recent(m) == {c \in DOMAIN issued : issued[c].mobile = m /\ issued[c].at + Window >= now}

Init ==
    /\ now \in Nat
    /\ issued = <<>>
    /\ valid = [m \in Mobiles |-> {}]
    /\ served = {}

Issue(m, c) ==
    /\ c \notin DOMAIN issued
    /\ Cardinality(Recent(m)) < Limit
    /\ \E at \in 0..now : issued' = Put(issued, c, [mobile |-> m, at |-> at])
    /\ valid' = [valid EXCEPT ![m] = {c}]
    /\ UNCHANGED <<now, served>>

Serve(m, g) ==
    /\ \E c \in valid[m] : served' = served \cup {<<c, g>>}
    /\ valid' = [valid EXCEPT ![m] = {}]
    /\ UNCHANGED <<now, issued>>

\* The right code of a user who may not sign in is spent as well.
Turn(m) ==
    /\ valid' = [valid EXCEPT ![m] = {}]
    /\ UNCHANGED <<now, issued, served>>

Wait ==
    /\ now' = now + 1
    /\ UNCHANGED <<issued, valid, served>>

Next ==
    \/ \E m \in Mobiles, c \in Cards : Issue(m, c)
    \/ \E m \in Mobiles, g \in Guests : Serve(m, g)
    \/ \E m \in Mobiles : Turn(m)
    \/ Wait

Spec == Init /\ [][Next]_<<now, issued, valid, served>>
==============================================================================
