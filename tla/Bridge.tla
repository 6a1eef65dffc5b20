------------------------------- MODULE Bridge --------------------------------
(***************************************************************************)
(* A customer's bridge: its configuration, and what the portal remembers   *)
(* of the main application behind it, the result of the last health check  *)
(* and a copy of the subscription (src/app/modules/customers/service.py).  *)
(* A request loads the row, calls the bridge over HTTP while the row may   *)
(* change, and commits what it learned; the flush writes the columns that  *)
(* differ from the loaded ones (module Orm).                               *)
(*                                                                         *)
(* X_Defect before an operator X is X with a plausible bug, see Purchases. *)
(***************************************************************************)
EXTENDS Naturals, FiniteSets, Orm

CONSTANTS
    NULL,
    Customers,
    Urls,          \* base URLs, normalized as CustomerBridgeConfigNormalizer does
    Subs,          \* subscriptions: records [term, on]
    Failures,      \* what can go wrong in a call but for a 404
    Missing,       \* a 404
    Fine,          \* a health check that went well
    Requests,      \* requests to the bridge endpoints, each handled once
    Ops,           \* what a request may be about
    InitBridge,    \* the configurations that exist at first
    InitRemote,    \* the subscriptions behind each URL at first
    Switched,      \* customers that get (de)activated
    Shifting,      \* URLs behind which the subscription changes by itself
    Contended      \* customers on whose bridge requests may overlap

Terms == {s.term : s \in Subs}

Columns == {"base_url", "is_enabled", "online", "checked_at", "health_error",
            "cached_term", "cached_on", "synced_at", "sub_error"}

RowOK(row) ==
    /\ DOMAIN row = Columns
    /\ row.base_url \in Urls \cup {NULL} /\ row.is_enabled \in BOOLEAN
    /\ row.online \in BOOLEAN \cup {NULL} /\ row.checked_at \in Nat \cup {NULL}
    /\ row.health_error \in Failures \cup {NULL}
    /\ row.cached_term \in Terms \cup {NULL} /\ row.cached_on \in BOOLEAN \cup {NULL}
    /\ row.synced_at \in Nat \cup {NULL}
    /\ row.sub_error \in Failures \cup {Missing, NULL}

\* PATCH of the configuration; health checks, which fail as the bridge does or
\* are refreshed whatever it answers; the subscription fetched, updated, fetched
\* with its messages, or synchronized in part or whole; and the script that
\* checks all bridges.  What only passes through is left out: capabilities,
\* and messages alone.
Body(o) ==
    \/ /\ o.kind = "configure" /\ o.customer \in Customers
       /\ DOMAIN o.set \subseteq {"base_url", "is_enabled"} /\ DOMAIN o.set # {}
       /\ "base_url" \in DOMAIN o.set => o.set.base_url \in Urls \cup {NULL}
       /\ "is_enabled" \in DOMAIN o.set => o.set.is_enabled \in BOOLEAN \cup {NULL}
    \/ o.kind \in {"health", "refresh", "fetch", "config"} /\ o.customer \in Customers
    \/ o.kind = "update" /\ o.customer \in Customers /\ o.sub \in Subs
    \/ /\ o.kind = "sync" /\ o.customer \in Customers
       /\ o.sub \in Subs \cup {NULL} /\ o.messages \in BOOLEAN
    \/ o.kind = "sweep"

\* What was known before was learned at time 0 from the bridge configured.
CachedSub(row) == [term |-> row.cached_term, on |-> row.cached_on]
Settled(row) ==
    /\ \/ row.online = NULL /\ row.checked_at = NULL /\ row.health_error = NULL
       \/ row.online # NULL /\ row.checked_at = 0 /\ (row.online <=> row.health_error = NULL)
    /\ row.sub_error = NULL
    /\ \/ row.cached_term = NULL /\ row.cached_on = NULL /\ row.synced_at = NULL
       \/ CachedSub(row) \in Subs /\ row.synced_at = 0 /\ row.base_url # NULL

ASSUME SubsAssumption == Subs \subseteq [term : Terms, on : BOOLEAN]
ASSUME NullAssumption == NULL \notin Urls \cup Subs \cup Terms \cup Failures \cup Nat \cup BOOLEAN
ASSUME FailuresAssumption ==
    /\ Missing # Fine /\ NULL \notin {Missing, Fine}
    /\ {Missing, Fine} \cap (Failures \cup Subs) = {} /\ Failures \cap Subs = {}
ASSUME OpsAssumption == \A o \in Ops : Body(o)
ASSUME InitAssumption ==
    /\ DOMAIN InitBridge \subseteq Customers
    /\ \A c \in DOMAIN InitBridge : RowOK(InitBridge[c]) /\ Settled(InitBridge[c])
    /\ InitRemote \in [Urls -> Subs \cup {NULL}]
ASSUME SwitchedAssumption == 
    Switched \subseteq Customers /\ Contended \subseteq Customers /\ Shifting \subseteq Urls

VARIABLES
    isActive,   \* the customers that are active
    bridge,     \* customer_bridge_configs: the rows, by customer
    remote,     \* the subscription of the main application behind each URL
    req,        \* the requests
    clock,      \* counts the times taken
    answered    \* history: the subscriptions a customer's bridge has answered with

vars == <<isActive, bridge, remote, req, clock, answered>>

Idle == [pc |-> "idle", op |-> NULL, customer |-> NULL, seen |-> NULL, at |-> NULL,
         answer |-> NULL, todo |-> {}, code |-> NULL]
Done(code) == [Idle EXCEPT !.pc = "done", !.code = code]

Init ==
    /\ isActive = Customers
    /\ bridge = InitBridge
    /\ remote = InitRemote
    /\ req = [r \in Requests |-> Idle]
    /\ clock = 1
    /\ answered = {<<c, InitBridge[c].base_url, CachedSub(InitBridge[c])>> :
                      c \in {d \in DOMAIN InitBridge : InitBridge[d].synced_at # NULL}}

Open(r) == req[r].pc \notin {"idle", "done"}

\* No other open request is about the customer, unless it is a contended one.
MayWork(r, c) ==
    c \notin Contended => \A s \in Requests \ {r} : Open(s) => req[s].customer # c

(***************************************************************************)
(* What a request loads before it calls.                                   *)
(***************************************************************************)

Row(c) == IF c \in DOMAIN bridge THEN bridge[c] ELSE NULL

\* The configuration service's own row for a customer that had none.
NewRow == [k \in Columns |-> IF k = "is_enabled" THEN FALSE ELSE NULL]

\* CustomerBridgeConfigResolver.resolve lets through what is enabled and has a URL.
Resolved(row) == row # NULL /\ row.is_enabled /\ row.base_url # NULL

\* _build_request: an active customer with a complete configuration.
Refusal(c) == IF c \notin isActive THEN 404 ELSE IF ~Resolved(Row(c)) THEN 409 ELSE NULL

Checks(o) == o.kind \in {"health", "refresh", "sweep"}

\* The time is taken once the row is loaded.
Calling(r, o, c) ==
    [req[r] EXCEPT !.pc = "calling", !.op = o, !.customer = c, !.seen = bridge[c], !.at = clock]

Begin(r, o) ==
    /\ req[r].pc = "idle"
    /\ o.kind \notin {"configure", "sweep"}
    /\ MayWork(r, o.customer)
    /\ req' = [req EXCEPT ![r] = IF Refusal(o.customer) # NULL THEN Done(Refusal(o.customer))
                                 ELSE Calling(r, o, o.customer)]
    /\ clock' = IF Refusal(o.customer) # NULL THEN clock ELSE clock + 1
    /\ UNCHANGED <<isActive, bridge, remote, answered>>

\* upsert loads the row of any customer, active or not.
BeginConfigure(r, o) ==
    /\ req[r].pc = "idle"
    /\ o.kind = "configure"
    /\ MayWork(r, o.customer)
    /\ req' = [req EXCEPT ![r] = [Idle EXCEPT !.pc = "ready", !.op = o, !.customer = o.customer,
                                              !.seen = Row(o.customer)]]
    /\ UNCHANGED <<isActive, bridge, remote, clock, answered>>

\* list_refreshable_customer_ids.
BeginSweep(r, o) ==
    /\ req[r].pc = "idle"
    /\ o.kind = "sweep"
    /\ req' = [req EXCEPT ![r] = [Idle EXCEPT !.pc = "sweeping", !.op = o,
                                    !.todo = {c \in DOMAIN bridge : Resolved(bridge[c])}]]
    /\ UNCHANGED <<isActive, bridge, remote, clock, answered>>

\* The next customer of the list, in any order; one that was refused ends the
\* script with an exception, and the rest is not checked.
SweepNext_Forgets(r) ==
    /\ req[r].pc = "sweeping"
    /\ \E c \in req[r].todo :
          /\ MayWork(r, c)
          /\ req' = [req EXCEPT ![r] = IF Refusal(c) # NULL THEN Done(Refusal(c))
                                       ELSE Calling(r, @.op, c)]
          /\ clock' = clock
    /\ UNCHANGED <<isActive, bridge, remote, answered>>
SweepNext(r) ==
    /\ req[r].pc = "sweeping"
    /\ \E c \in req[r].todo :
          /\ MayWork(r, c)
          /\ req' = [req EXCEPT ![r] = IF Refusal(c) # NULL THEN Done(Refusal(c))
                                       ELSE [Calling(r, @.op, c) EXCEPT !.todo = @ \ {c}]]
          /\ clock' = IF Refusal(c) # NULL THEN clock ELSE clock + 1
    /\ UNCHANGED <<isActive, bridge, remote, answered>>

SweepEnd(r) ==
    /\ req[r].pc = "sweeping"
    /\ req[r].todo = {}
    /\ req' = [req EXCEPT ![r] = Done(200)]
    /\ UNCHANGED <<isActive, bridge, remote, clock, answered>>

(***************************************************************************)
(* The calls over HTTP.  What the main application does is not part of     *)
(* the repository: it answers as bridge_client.py can read it.             *)
(***************************************************************************)

Url(r) == req[r].seen.base_url

\* A call may fail, whether the bridge has done what it was asked to or not.
CallHealth(r) ==
    /\ req[r].pc = "calling"
    /\ Checks(req[r].op)
    /\ \E a \in {Fine} \cup Failures :
          req' = [req EXCEPT ![r].pc = "ready", ![r].answer = a]
    /\ UNCHANGED <<isActive, bridge, remote, clock, answered>>

SendsSub(o) == o.kind = "update" \/ (o.kind = "sync" /\ o.sub # NULL)

\* Where the subscription in hand is followed by a call about the messages.
AfterSub(r, a) ==
    IF a \in Subs /\ req[r].op.kind \in {"config", "sync"} THEN "half" ELSE "ready"

Heard(r, a) == IF a \in Subs THEN answered \cup {<<req[r].customer, Url(r), a>>} ELSE answered

\* GET of the active subscription.
CallGet(r) ==
    /\ req[r].pc = "calling"
    /\ req[r].op.kind \in {"fetch", "config", "sync"} /\ ~SendsSub(req[r].op)
    /\ \E a \in Failures \cup {IF remote[Url(r)] = NULL THEN Missing ELSE remote[Url(r)]} :
          /\ req' = [req EXCEPT ![r].pc = AfterSub(r, a), ![r].answer = a]
          /\ answered' = Heard(r, a)
    /\ UNCHANGED <<isActive, bridge, remote, clock>>

\* PATCH of the active subscription.
CallPatch(r) ==
    /\ req[r].pc = "calling"
    /\ SendsSub(req[r].op)
    /\ \/ /\ remote[Url(r)] # NULL
          /\ remote' = [remote EXCEPT ![Url(r)] = req[r].op.sub]
          /\ \E a \in Failures \cup {req[r].op.sub} :
                /\ req' = [req EXCEPT ![r].pc = AfterSub(r, a), ![r].answer = a]
                /\ answered' = Heard(r, a)
       \/ /\ \E a \in Failures \cup (IF remote[Url(r)] = NULL THEN {Missing} ELSE {}) :
                req' = [req EXCEPT ![r].pc = "ready", ![r].answer = a]
          /\ UNCHANGED <<remote, answered>>
    /\ UNCHANGED <<isActive, bridge, clock>>

\* GET or PATCH of the messages: a failure, a 404 among them, takes the place of
\* the answer.
CallMessages(r) ==
    /\ req[r].pc = "half"
    /\ \E a \in Failures \cup {Missing, req[r].answer} :
          req' = [req EXCEPT ![r].pc = "ready", ![r].answer = a]
    /\ UNCHANGED <<isActive, bridge, remote, clock, answered>>

(***************************************************************************)
(* What a request commits.                                                 *)
(***************************************************************************)

Health == [online |-> NULL, checked_at |-> NULL, health_error |-> NULL]
Cache  == [cached_term |-> NULL, cached_on |-> NULL, synced_at |-> NULL, sub_error |-> NULL]

\* upsert: what is configured, and nothing known any more.
Configured_KeepsCache(row, set) == Assign(Assign(row, set), Health)
Configured(row, set) == Assign(Assign(Assign(row, set), Health), Cache)

\* The columns that persist_health_status, persist_subscription_snapshot,
\* persist_subscription_absence and persist_subscription_refresh_error assign.
HealthStatus(a, at) ==
    [online |-> a = Fine, checked_at |-> at, health_error |-> IF a = Fine THEN NULL ELSE a]
Snapshot(sub, at) ==
    [cached_term |-> sub.term, cached_on |-> sub.on, synced_at |-> at, sub_error |-> NULL]
Absence(a, at) == [Cache EXCEPT !.synced_at = at, !.sub_error = a]
RefreshError(a) == [sub_error |-> a]

Learned_Unanswered(r) ==
    LET a == req[r].answer IN
    CASE Checks(req[r].op) -> HealthStatus(a, req[r].at)
      [] ~Checks(req[r].op) /\ SendsSub(req[r].op) -> Snapshot(req[r].op.sub, req[r].at)
      [] ~Checks(req[r].op) /\ ~SendsSub(req[r].op) /\ a = Missing -> Absence(a, req[r].at)
      [] ~Checks(req[r].op) /\ ~SendsSub(req[r].op) /\ a \in Failures -> RefreshError(a)
      [] OTHER -> Snapshot(a, req[r].at)
Learned(r) ==
    LET a == req[r].answer IN
    CASE Checks(req[r].op) -> HealthStatus(a, req[r].at)
      [] ~Checks(req[r].op) /\ a = Missing -> Absence(a, req[r].at)
      [] ~Checks(req[r].op) /\ a \in Failures -> RefreshError(a)
      [] OTHER -> Snapshot(a, req[r].at)

\* The row as the session of r holds it when it commits.
Wanted(r) ==
    IF req[r].op.kind = "configure"
    THEN Configured(IF req[r].seen = NULL THEN NewRow ELSE req[r].seen, req[r].op.set)
    ELSE Assign(req[r].seen, Learned(r))

\* The unique key of a new row, and is_enabled, which cannot be null.
Storable_Unchecked(r) == TRUE
Storable(r) ==
    /\ req[r].seen = NULL => req[r].customer \notin DOMAIN bridge
    /\ Wanted(r).is_enabled # NULL

AnswerCode(a) == IF a \in Failures THEN 502 ELSE IF a = Missing THEN 404 ELSE 200

\* After the commit: the script goes on with its list, a request answers.
Stored(r) ==
    CASE req[r].op.kind = "sweep" -> [Idle EXCEPT !.pc = "sweeping", !.op = req[r].op,
                                                  !.todo = req[r].todo]
      [] req[r].op.kind \in {"configure", "refresh"} -> Done(200)
      [] OTHER -> Done(AnswerCode(req[r].answer))

Store(r) ==
    LET c == req[r].customer IN
    /\ req[r].pc = "ready"
    /\ \/ /\ Storable(r)
          /\ bridge' = Put(bridge, c, IF req[r].seen = NULL THEN Wanted(r)
                                      ELSE Flush(bridge[c], req[r].seen, Wanted(r)))
          /\ req' = [req EXCEPT ![r] = Stored(r)]
       \/ /\ ~Storable(r)
          /\ req' = [req EXCEPT ![r] = Done(409)]
          /\ UNCHANGED bridge
    /\ UNCHANGED <<isActive, remote, clock, answered>>

(***************************************************************************)
(* The rest of the world.                                                  *)
(***************************************************************************)

\* The session closes without commit: the process or its connection died.
Abort(r) ==
    /\ Open(r)
    /\ req' = [req EXCEPT ![r] = Done(500)]
    /\ UNCHANGED <<isActive, bridge, remote, clock, answered>>

SetActive(c) ==
    /\ isActive' = IF c \in isActive THEN isActive \ {c} ELSE isActive \cup {c}
    /\ UNCHANGED <<bridge, remote, req, clock, answered>>

\* Somebody else changes a subscription behind a URL.
ChangeRemote(u) ==
    /\ \E s \in Subs \cup {NULL} : remote' = [remote EXCEPT ![u] = s]
    /\ UNCHANGED <<isActive, bridge, req, clock, answered>>

Terminated == (\A r \in Requests : req[r].pc = "done") /\ UNCHANGED vars

Proceed(r) == \/ SweepNext(r) \/ SweepEnd(r)
              \/ CallHealth(r) \/ CallGet(r) \/ CallPatch(r) \/ CallMessages(r)
              \/ Store(r)

Next ==
    \/ \E r \in Requests : \/ \E o \in Ops : Begin(r, o) \/ BeginConfigure(r, o) \/ BeginSweep(r, o)
                           \/ Proceed(r) \/ Abort(r)
    \/ \E c \in Switched : SetActive(c)
    \/ \E u \in Shifting : ChangeRemote(u)
    \/ Terminated

Spec == Init /\ [][Next]_vars

\* When Proceed(r) is enabled.
CanProceed(r) ==
    /\ Open(r)
    /\ req[r].pc = "sweeping" => req[r].todo = {} \/ \E c \in req[r].todo : MayWork(r, c)

\* A call ends by its timeout, and a commit waits for nobody for long: what a request
\* can do next it does, or it is aborted.  It follows from WF_vars(Proceed(r)).
Fairness == \A r \in Requests : []<>~CanProceed(r) \/ []<><<req'[r] # req[r]>>_vars

FairSpec == Spec /\ Fairness
==============================================================================
