--------------------------------- MODULE Otp ---------------------------------
(***************************************************************************)
(* One-time passwords for login (src/app/modules/auth/service.py).  A      *)
(* request for a code checks the rate limit, marks the codes it can see as *)
(* used, has the new code delivered by SMS and only then commits; a        *)
(* sign-in loads the latest unused code, checks it and commits its use.    *)
(* All of them run in sessions of their own at READ COMMITTED: nobody sees *)
(* what another one did before it commits, except that an UPDATE waits for *)
(* the rows that another transaction has updated.                          *)
(*                                                                         *)
(* X_Defect before an operator X is X with a plausible bug, see Purchases. *)
(***************************************************************************)
EXTENDS Naturals, FiniteSets, Orm

CONSTANTS
    NULL,
    Mobiles,       \* mobile numbers, each of one user
    InitActive,    \* the mobiles whose user is active at first
    Switched,      \* those whose user gets (de)activated
    Codes,         \* the values a code can have
    Entered,       \* the values that sign-ins enter
    Requests,      \* requests to /auth/request-otp
    SignIns,       \* requests to /auth/verify-otp
    Limit,         \* otp_request_limit_count
    Window,        \* otp_request_limit_window_seconds, in ticks
    ExpireAfter,   \* otp_expire_seconds, in ticks
    MaxTime,       \* bound: the clock stops there
    Contended      \* mobiles on which requests and sign-ins may overlap

ASSUME NullAssumption == NULL \notin Codes \cup Nat
ASSUME CodesAssumption == Codes \subseteq Entered
ASSUME MobilesAssumption ==
    InitActive \subseteq Mobiles /\ Switched \subseteq Mobiles /\ Contended \subseteq Mobiles
ASSUME RequestsAssumption == Requests \cap SignIns = {} /\ IsFiniteSet(Requests)
ASSUME SettingsAssumption == Limit \in Nat \ {0} /\ {Window, ExpireAfter, MaxTime} \subseteq Nat

VARIABLES
    now,         \* the clock
    active,      \* the mobiles whose user is active
    otp,         \* otp_codes: the committed rows, by the request that made them
    ask,         \* the requests for a code
    sign,        \* the sign-ins
    delivered,   \* history: the requests whose code the provider reports as sent
    earlier,     \* history: the rows that were stored when a request began
    accepted     \* history: the sign-ins that each code was accepted for

vars == <<now, active, otp, ask, sign, delivered, earlier, accepted>>

\* began: transaction start, which is what the created_at of a new row gets.
\* spends: the unused codes its UPDATE found, and holds once it is through.
AskIdle  == [pc |-> "idle", code |-> NULL, mobile |-> NULL, began |-> NULL,
             spends |-> {}, otp_code |-> NULL, expires_at |-> NULL]
SignIdle == [pc |-> "idle", code |-> NULL, mobile |-> NULL, row |-> NULL]

AskDone(code)  == [AskIdle EXCEPT !.pc = "done", !.code = code]
SignDone(code) == [SignIdle EXCEPT !.pc = "done", !.code = code]

Init ==
    /\ now = 0
    /\ active = InitActive
    /\ otp = <<>>
    /\ ask = [r \in Requests |-> AskIdle]
    /\ sign = [v \in SignIns |-> SignIdle]
    /\ delivered = {}
    /\ earlier = [r \in Requests |-> {}]
    /\ accepted = [r \in Requests |-> {}]

Asking(r)  == ask[r].pc \in {"known", "within", "spending", "spent", "sent"}
Signing(v) == sign[v].pc \in {"matched", "member", "stranger"}

\* Nothing else is at work on this mobile, unless it is a contended one.
MayStart(m) ==
    m \notin Contended => /\ \A r \in Requests : Asking(r) => ask[r].mobile # m
                          /\ \A v \in SignIns : Signing(v) => sign[v].mobile # m

Unused(m) == {c \in DOMAIN otp : otp[c].mobile = m /\ ~otp[c].is_used}

\* The codes that count for the rate limit.
Recent(m) == {c \in DOMAIN otp : otp[c].mobile = m /\ otp[c].created_at + Window >= now}

(***************************************************************************)
(* request_otp.                                                            *)
(***************************************************************************)

\* _get_active_user_by_mobile, the first statement of the transaction.
FindUser(r, m) ==
    /\ ask[r].pc = "idle"
    /\ MayStart(m)
    /\ ask' = [ask EXCEPT ![r] = IF m \notin active THEN AskDone(404)
                                 ELSE [@ EXCEPT !.pc = "known", !.mobile = m, !.began = now]]
    /\ earlier' = [earlier EXCEPT ![r] = DOMAIN otp]
    /\ UNCHANGED <<now, active, otp, sign, delivered, accepted>>

\* _enforce_rate_limit.
WithinRate_OffByOne(m) == Cardinality(Recent(m)) <= Limit
WithinRate(m) == Cardinality(Recent(m)) < Limit

EnforceLimit(r) ==
    /\ ask[r].pc = "known"
    /\ ask' = [ask EXCEPT ![r] = IF WithinRate(@.mobile) THEN [@ EXCEPT !.pc = "within"]
                                 ELSE AskDone(429)]
    /\ UNCHANGED <<now, active, otp, sign, delivered, earlier, accepted>>

\* _invalidate_previous_otps: the UPDATE finds the unused codes...
StartSpending_OnlyFresh(r) ==
    /\ ask[r].pc = "within"
    /\ ask' = [ask EXCEPT ![r].pc = "spending",
                          ![r].spends = {c \in Unused(ask[r].mobile) : otp[c].expires_at > now}]
    /\ UNCHANGED <<now, active, otp, sign, delivered, earlier, accepted>>
StartSpending(r) ==
    /\ ask[r].pc = "within"
    /\ ask' = [ask EXCEPT ![r].pc = "spending", ![r].spends = Unused(ask[r].mobile)]
    /\ UNCHANGED <<now, active, otp, sign, delivered, earlier, accepted>>

Held(r) == IF ask[r].pc \in {"spent", "sent"} THEN ask[r].spends ELSE {}

\* ...and is through once no other transaction holds one of them.
FinishSpending(r) ==
    /\ ask[r].pc = "spending"
    /\ \A s \in Requests \ {r} : Held(s) \cap ask[r].spends = {}
    /\ ask' = [ask EXCEPT ![r].pc = "spent",
                          ![r].spends = {c \in ask[r].spends : ~otp[c].is_used}]
    /\ UNCHANGED <<now, active, otp, sign, delivered, earlier, accepted>>

\* The code is drawn and handed to the provider.  A delivery that the provider
\* reports as failed rolls everything back.
Drawn(r, c) == [ask EXCEPT ![r].pc = "sent", ![r].otp_code = c,
                           ![r].expires_at = now + ExpireAfter]

Deliver_IgnoresFailure(r) ==
    /\ ask[r].pc = "spent"
    /\ \E c \in Codes : ask' = Drawn(r, c)
    /\ delivered' \in {delivered, delivered \cup {r}}
    /\ UNCHANGED <<now, active, otp, sign, earlier, accepted>>
Deliver(r) ==
    /\ ask[r].pc = "spent"
    /\ \/ /\ \E c \in Codes : ask' = Drawn(r, c)
          /\ delivered' = delivered \cup {r}
       \/ /\ ask' = [ask EXCEPT ![r] = AskDone(503)]
          /\ UNCHANGED delivered
    /\ UNCHANGED <<now, active, otp, sign, earlier, accepted>>

\* What the commit stores: the new row, and the spent ones.
NewRow_NoExpiry(r) == [mobile     |-> ask[r].mobile,
                       code       |-> ask[r].otp_code,
                       created_at |-> ask[r].began,
                       expires_at |-> NULL,
                       is_used    |-> FALSE]
NewRow(r) == [mobile     |-> ask[r].mobile,
              code       |-> ask[r].otp_code,
              created_at |-> ask[r].began,
              expires_at |-> ask[r].expires_at,
              is_used    |-> FALSE]

Spent(codes) ==
    [c \in DOMAIN otp |-> IF c \in codes THEN [otp[c] EXCEPT !.is_used = TRUE] ELSE otp[c]]

Store(r) ==
    /\ ask[r].pc = "sent"
    /\ otp' = Put(Spent(ask[r].spends), r, NewRow(r))
    /\ ask' = [ask EXCEPT ![r] = AskDone(200)]
    /\ UNCHANGED <<now, active, sign, delivered, earlier, accepted>>

(***************************************************************************)
(* verify_otp.                                                             *)
(***************************************************************************)

\* The unused codes of a mobile that were created last; which one the query
\* returns of two created at the same time is up to the database.
Latest(m) == {c \in Unused(m) : \A d \in Unused(m) : otp[d].created_at <= otp[c].created_at}

\* The code a sign-in is let through with, if it is the right one in time.
Matches(c, code) == otp[c].code = code /\ otp[c].expires_at > now

LoadCode(v, m, code) ==
    /\ sign[v].pc = "idle"
    /\ MayStart(m)
    /\ \/ /\ Latest(m) = {}
          /\ sign' = [sign EXCEPT ![v] = SignDone(400)]
       \/ \E c \in Latest(m) :
             sign' = [sign EXCEPT ![v] = IF Matches(c, code)
                         THEN [@ EXCEPT !.pc = "matched", !.mobile = m, !.row = c]
                         ELSE SignDone(400)]
    /\ UNCHANGED <<now, active, otp, ask, delivered, earlier, accepted>>

\* is_used is assigned, then the user is looked up.
LookUp(v) ==
    /\ sign[v].pc = "matched"
    /\ sign' = [sign EXCEPT ![v].pc = IF sign[v].mobile \in active THEN "member" ELSE "stranger"]
    /\ UNCHANGED <<now, active, otp, ask, delivered, earlier, accepted>>

\* The commit writes is_used once no other transaction holds the row, and the
\* answer is a token, or 401 for want of an active user.
UseCode_KeepsCode(v) ==
    /\ sign[v].pc \in {"member", "stranger"}
    /\ \A r \in Requests : sign[v].row \notin Held(r)
    /\ otp' = IF sign[v].pc = "member" THEN otp ELSE Spent({sign[v].row})
    /\ sign' = [sign EXCEPT ![v] = SignDone(IF @.pc = "member" THEN 200 ELSE 401)]
    /\ accepted' = IF sign[v].pc = "member"
                   THEN [accepted EXCEPT ![sign[v].row] = @ \cup {v}] ELSE accepted
    /\ UNCHANGED <<now, active, ask, delivered, earlier>>
UseCode(v) ==
    /\ sign[v].pc \in {"member", "stranger"}
    /\ \A r \in Requests : sign[v].row \notin Held(r)
    /\ otp' = Spent({sign[v].row})
    /\ sign' = [sign EXCEPT ![v] = SignDone(IF @.pc = "member" THEN 200 ELSE 401)]
    /\ accepted' = IF sign[v].pc = "member"
                   THEN [accepted EXCEPT ![sign[v].row] = @ \cup {v}] ELSE accepted
    /\ UNCHANGED <<now, active, ask, delivered, earlier>>

(***************************************************************************)
(* The rest of the world.                                                  *)
(***************************************************************************)

\* A session closes without commit: the process or its connection died, or the
\* database chose its transaction to end a deadlock.
Abort ==
    /\ \/ /\ \E r \in Requests : Asking(r) /\ ask' = [ask EXCEPT ![r] = AskDone(500)]
          /\ UNCHANGED sign
       \/ /\ \E v \in SignIns : Signing(v) /\ sign' = [sign EXCEPT ![v] = SignDone(500)]
          /\ UNCHANGED ask
    /\ UNCHANGED <<now, active, otp, delivered, earlier, accepted>>

\* A user is deactivated, or activated again.
SetActive(m) ==
    /\ active' = IF m \in active THEN active \ {m} ELSE active \cup {m}
    /\ UNCHANGED <<now, otp, ask, sign, delivered, earlier, accepted>>

Tick ==
    /\ now < MaxTime
    /\ now' = now + 1
    /\ UNCHANGED <<active, otp, ask, sign, delivered, earlier, accepted>>

Terminated ==
    /\ \A r \in Requests : ask[r].pc = "done"
    /\ \A v \in SignIns : sign[v].pc = "done"
    /\ UNCHANGED vars

Next ==
    \/ \E r \in Requests : \/ \E m \in Mobiles : FindUser(r, m)
                           \/ EnforceLimit(r) \/ StartSpending(r) \/ FinishSpending(r)
                           \/ Deliver(r) \/ Store(r)
    \/ \E v \in SignIns : \/ \E m \in Mobiles, code \in Entered : LoadCode(v, m, code)
                          \/ LookUp(v) \/ UseCode(v)
    \/ Abort
    \/ \E m \in Switched : SetActive(m)
    \/ Tick
    \/ Terminated

Spec == Init /\ [][Next]_vars
==============================================================================
