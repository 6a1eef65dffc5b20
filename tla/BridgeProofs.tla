---------------------------- MODULE BridgeProofs ----------------------------
(***************************************************************************)
(* Theorems of Bridge, for any customers, URLs, subscriptions, requests    *)
(* and contended customers: types, what holds however requests overlap,    *)
(* and the book of the customers on whose bridge they do not.              *)
(***************************************************************************)
EXTENDS BridgeProps, TLAPS

(***************************************************************************)
(* Rows.                                                                   *)
(***************************************************************************)

\* The flush of a row keeps a row a row.
LEMMA FlushKeepsRow ==
    ASSUME NEW row, NEW loaded, NEW new, RowOK(row), RowOK(new)
    PROVE  RowOK(Flush(row, loaded, new))
BY DEF RowOK, Flush, Columns

\* A request that is about to commit.
LEMMA ReadyRequest ==
    ASSUME TypeOK, NEW r \in Requests, req[r].pc = "ready"
    PROVE  /\ req[r].customer \in Customers /\ req[r].op \in Ops /\ Body(req[r].op)
           /\ req[r].seen = NULL \/ (RowOK(req[r].seen) /\ req[r].customer \in DOMAIN bridge)
           /\ req[r].op.kind # "configure" =>
                 /\ RowOK(req[r].seen) /\ req[r].seen # NULL /\ Resolved(req[r].seen)
                 /\ req[r].at \in Nat /\ req[r].answer \in Answers(req[r].op)
BY OpsAssumption DEF TypeOK, ReqOK, Resolved

\* What a configuration leaves of a row: the columns it names, and nothing known.
LEMMA ConfiguredColumns ==
    ASSUME NEW row, DOMAIN row = Columns, NEW set,
           DOMAIN set \subseteq {"base_url", "is_enabled"}
    PROVE  LET new == Configured(row, set) IN
           /\ DOMAIN new = Columns
           /\ \A k \in {"base_url", "is_enabled"} :
                 new[k] = IF k \in DOMAIN set THEN set[k] ELSE row[k]
           /\ \A k \in Columns \ {"base_url", "is_enabled"} : new[k] = NULL
BY DEF Configured, Assign, Health, Cache, Columns

\* What the answer to a request leaves of the row it has loaded.
LEMMA LearnedColumns ==
    ASSUME TypeOK, NEW r \in Requests, req[r].pc = "ready", req[r].op.kind # "configure"
    PROVE  LET new == Wanted(r)
               row == req[r].seen
               a == req[r].answer IN
           /\ DOMAIN new = Columns
           /\ new.base_url = row.base_url /\ new.is_enabled = row.is_enabled
           /\ \/ /\ Checks(req[r].op) /\ a \in Failures \cup {Fine}
                 /\ new.online = (a = Fine) /\ new.checked_at = req[r].at
                 /\ new.health_error = IF a = Fine THEN NULL ELSE a
                 /\ \A k \in {"cached_term", "cached_on", "synced_at", "sub_error"} : new[k] = row[k]
              \/ /\ ~Checks(req[r].op)
                 /\ \A k \in {"online", "checked_at", "health_error"} : new[k] = row[k]
                 /\ \/ /\ a \in Subs
                       /\ new.cached_term = a.term /\ new.cached_on = a.on
                       /\ new.synced_at = req[r].at /\ new.sub_error = NULL
                    \/ /\ a = Missing
                       /\ new.cached_term = NULL /\ new.cached_on = NULL
                       /\ new.synced_at = req[r].at /\ new.sub_error = Missing
                    \/ /\ a \in Failures
                       /\ \A k \in {"cached_term", "cached_on", "synced_at"} : new[k] = row[k]
                       /\ new.sub_error = a
<1> DEFINE a == req[r].answer
<1>1. DOMAIN req[r].seen = Columns /\ a \in Answers(req[r].op)
  BY ReadyRequest DEF RowOK
<1>2. Wanted(r) = Assign(req[r].seen, Learned(r))
  BY DEF Wanted
<1>3. CASE Checks(req[r].op)
  <2>1. Learned(r) = HealthStatus(a, req[r].at) /\ a \in Failures \cup {Fine}
    BY <1>1, <1>3 DEF Learned, Answers
  <2> QED
    BY <1>1, <1>2, <1>3, <2>1 DEF HealthStatus, Assign, Columns
<1>4. CASE ~Checks(req[r].op) /\ a = Missing
  <2>1. Learned(r) = Absence(a, req[r].at)
    BY <1>4, FailuresAssumption DEF Learned
  <2> QED
    BY <1>1, <1>2, <1>4, <2>1 DEF Absence, Cache, Assign, Columns
<1>5. CASE ~Checks(req[r].op) /\ a \in Failures
  <2>1. Learned(r) = RefreshError(a)
    BY <1>5, FailuresAssumption DEF Learned
  <2> QED
    BY <1>1, <1>2, <1>5, <2>1 DEF RefreshError, Assign, Columns
<1>6. CASE ~Checks(req[r].op) /\ a \in Subs
  <2>1. Learned(r) = Snapshot(a, req[r].at)
    BY <1>6, FailuresAssumption DEF Learned
  <2> QED
    BY <1>1, <1>2, <1>6, <2>1 DEF Snapshot, Assign, Columns
<1> QED
  BY <1>1, <1>3, <1>4, <1>5, <1>6 DEF Answers

\* The columns of a configuration's row.
LEMMA ConfigureColumns ==
    ASSUME TypeOK, NEW r \in Requests, req[r].pc = "ready", req[r].op.kind = "configure"
    PROVE  LET new == Wanted(r)
               row == IF req[r].seen = NULL THEN NewRow ELSE req[r].seen
               set == req[r].op.set IN
           /\ DOMAIN new = Columns
           /\ \A k \in {"base_url", "is_enabled"} :
                 new[k] = IF k \in DOMAIN set THEN set[k] ELSE row[k]
           /\ \A k \in Columns \ {"base_url", "is_enabled"} : new[k] = NULL
<1> DEFINE row == IF req[r].seen = NULL THEN NewRow ELSE req[r].seen
<1>1. DOMAIN row = Columns
  BY ReadyRequest DEF RowOK, NewRow
<1>2. DOMAIN req[r].op.set \subseteq {"base_url", "is_enabled"}
  BY ReadyRequest DEF Body
<1> HIDE DEF row
<1>3. Wanted(r) = Configured(row, req[r].op.set)
  BY DEF Wanted, row
<1> QED
  BY <1>1, <1>2, <1>3, ConfiguredColumns DEF row

\* What a request commits is a row, unless it unsets the switch.
LEMMA WantedIsRow ==
    ASSUME TypeOK, NEW r \in Requests, req[r].pc = "ready", Storable(r)
    PROVE  RowOK(Wanted(r))
<1>1. CASE req[r].op.kind = "configure"
  <2> DEFINE row == IF req[r].seen = NULL THEN NewRow ELSE req[r].seen
             set == req[r].op.set
  <2>1. row.base_url \in Urls \cup {NULL} /\ row.is_enabled \in BOOLEAN
    BY ReadyRequest DEF RowOK, NewRow, Columns
  <2>2. /\ "base_url" \in DOMAIN set => set.base_url \in Urls \cup {NULL}
        /\ "is_enabled" \in DOMAIN set => set.is_enabled \in BOOLEAN \cup {NULL}
    BY <1>1, ReadyRequest DEF Body
  <2>3. /\ DOMAIN Wanted(r) = Columns
        /\ \A k \in {"base_url", "is_enabled"} :
              Wanted(r)[k] = IF k \in DOMAIN set THEN set[k] ELSE row[k]
        /\ \A k \in Columns \ {"base_url", "is_enabled"} : Wanted(r)[k] = NULL
    BY <1>1, ConfigureColumns
  <2>4. Wanted(r).is_enabled # NULL
    BY DEF Storable
  <2> HIDE DEF row, set
  <2>5. Wanted(r).base_url \in Urls \cup {NULL} /\ Wanted(r).is_enabled \in BOOLEAN
    BY <2>1, <2>2, <2>3, <2>4
  <2> QED
    BY <2>3, <2>5 DEF RowOK, Columns
<1>2. CASE req[r].op.kind # "configure"
  <2>1. RowOK(req[r].seen) /\ req[r].at \in Nat
    BY <1>2, ReadyRequest
  <2>2. \A s \in Subs : s.term \in Terms /\ s.on \in BOOLEAN
    BY SubsAssumption DEF Terms
  <2> QED
    BY <1>2, <2>1, <2>2, LearnedColumns DEF RowOK
<1> QED
  BY <1>1, <1>2

\* The row that a request leaves behind when its commit goes through.
LEMMA CommittedRow ==
    ASSUME TypeOK, NEW r \in Requests, Store(r), Storable(r)
    PROVE  LET c == req[r].customer IN
           /\ c \in Customers /\ DOMAIN bridge' = DOMAIN bridge \cup {c}
           /\ \A d \in DOMAIN bridge : d # c => bridge'[d] = bridge[d]
           /\ req[r].seen = NULL => c \notin DOMAIN bridge /\ bridge'[c] = Wanted(r)
           /\ req[r].seen # NULL => /\ c \in DOMAIN bridge
                                    /\ bridge'[c] = Flush(bridge[c], req[r].seen, Wanted(r))
           /\ RowOK(bridge'[c])
<1> DEFINE c == req[r].customer
           row == IF req[r].seen = NULL THEN Wanted(r) ELSE Flush(bridge[c], req[r].seen, Wanted(r))
<1>1. req[r].pc = "ready" /\ bridge' = Put(bridge, c, row)
  BY DEF Store
<1>2. c \in Customers /\ (req[r].seen # NULL => c \in DOMAIN bridge)
  BY <1>1, ReadyRequest
<1>3. req[r].seen = NULL => c \notin DOMAIN bridge
  BY DEF Storable
<1>4. RowOK(row)
  BY <1>1, <1>2, WantedIsRow, FlushKeepsRow DEF TypeOK
<1> QED
  BY <1>1, <1>2, <1>3, <1>4 DEF Put

\* A commit to a row that exists writes each column that the request changed and
\* leaves every other column alone.
LEMMA CommittedColumns ==
    ASSUME TypeOK, NEW r \in Requests, Store(r), Storable(r), req[r].seen # NULL
    PROVE  \A k \in Columns : bridge'[req[r].customer][k] =
              IF Wanted(r)[k] # req[r].seen[k] THEN Wanted(r)[k] ELSE bridge[req[r].customer][k]
<1> DEFINE c == req[r].customer
<1>1. c \in DOMAIN bridge /\ bridge'[c] = Flush(bridge[c], req[r].seen, Wanted(r))
  BY CommittedRow
<1>2. DOMAIN bridge[c] = Columns /\ DOMAIN Wanted(r) = Columns
  BY <1>1, WantedIsRow DEF TypeOK, RowOK, Store
<1> QED
  BY <1>1, <1>2 DEF Flush, Dirty

(***************************************************************************)
(* Types.                                                                  *)
(***************************************************************************)

\* A request that ended is a request.
LEMMA DoneIsReq ==
    ASSUME NEW code \in {NULL, 200, 404, 409, 500, 502}
    PROVE  ReqOK(Done(code))
BY DEF ReqOK, Done, Idle

\* A request that may call has loaded a complete row.
LEMMA CallingIsReq ==
    ASSUME TypeOK, NEW r \in Requests, NEW o \in Ops, o.kind # "configure", NEW c \in Customers,
           Refusal(c) = NULL, NEW todo, todo \subseteq DOMAIN bridge
    PROVE  ReqOK(Calling(r, o, c)) /\ ReqOK([Calling(r, o, c) EXCEPT !.todo = todo])
<1>1. Row(c) # NULL /\ Resolved(Row(c))
  BY NullAssumption DEF Refusal, Resolved
<1>2. c \in DOMAIN bridge /\ RowOK(bridge[c]) /\ Resolved(bridge[c])
  BY <1>1 DEF Row, TypeOK
<1>3. /\ DOMAIN req[r] = DOMAIN Idle /\ req[r].code \in {NULL, 200, 404, 409, 500, 502}
      /\ req[r].todo \subseteq DOMAIN bridge
  BY DEF TypeOK, ReqOK
<1> QED
  BY <1>2, <1>3 DEF ReqOK, Calling, Idle, TypeOK

\* A row that a request has loaded has a URL to call.
LEMMA SweepingIs ==
    ASSUME TypeOK, NEW r \in Requests, req[r].pc = "sweeping"
    PROVE  /\ req[r].op \in Ops /\ req[r].op.kind # "configure" /\ req[r].todo \subseteq DOMAIN bridge
           /\ DOMAIN bridge \subseteq Customers /\ clock \in Nat
<1>1. ReqOK(req[r]) /\ DOMAIN bridge \subseteq Customers /\ clock \in Nat
  BY DEF TypeOK
<1> QED
  BY <1>1 DEF ReqOK

LEMMA CallsAUrl ==
    ASSUME TypeOK, NEW r \in Requests, req[r].pc \in {"calling", "half"}
    PROVE  /\ Url(r) \in Urls /\ req[r].customer \in Customers /\ req[r].op \in Ops
           /\ Body(req[r].op) /\ req[r].op.kind # "configure"
BY OpsAssumption DEF TypeOK, ReqOK, Url, Resolved, RowOK

\* TypeOK is an invariant.
THEOREM TypeCorrect == Spec => []TypeOK
<1>1. Init => TypeOK
  <2> SUFFICES ASSUME Init PROVE TypeOK
    OBVIOUS
  <2>1. ReqOK(Idle)
    BY DEF ReqOK, Idle
  <2>2. answered \subseteq Customers \X Urls \X Subs
    <3> SUFFICES ASSUME NEW c \in DOMAIN InitBridge, InitBridge[c].synced_at # NULL
                 PROVE  <<c, InitBridge[c].base_url, CachedSub(InitBridge[c])>>
                           \in Customers \X Urls \X Subs
      BY DEF Init
    <3> QED
      BY InitAssumption DEF Settled, RowOK
  <2> QED
    BY <2>1, <2>2, InitAssumption DEF Init, TypeOK
<1>2. ASSUME TypeOK, [Next]_vars PROVE TypeOK'
  <2>1. ASSUME NEW r \in Requests, NEW q, ReqOK(q), req' = [req EXCEPT ![r] = q],
               UNCHANGED <<isActive, bridge>>, remote' \in [Urls -> Subs \cup {NULL}],
               clock' \in Nat, answered' \subseteq Customers \X Urls \X Subs
        PROVE  TypeOK'
    <3>1. \A s \in Requests : ReqOK(req'[s])
      BY <1>2, <2>1 DEF TypeOK
    <3>2. \A s \in Requests : ReqOK(req[s])'
      BY <2>1, <3>1 DEF ReqOK
    <3> QED
      BY <1>2, <2>1, <3>2 DEF TypeOK
  <2>2. ASSUME NEW r \in Requests, NEW o \in Ops, Begin(r, o) PROVE TypeOK'
    <3>1. o.customer \in Customers /\ o.kind # "configure"
      BY <2>2, OpsAssumption DEF Begin, Body
    <3>2. CASE Refusal(o.customer) # NULL
      <4>1. ReqOK(Done(Refusal(o.customer)))
        BY <3>2, DoneIsReq DEF Refusal
      <4> QED
        BY <1>2, <2>1, <2>2, <3>2, <4>1 DEF Begin, TypeOK
    <3>3. CASE Refusal(o.customer) = NULL
      <4>1. ReqOK(Calling(r, o, o.customer))
        BY <1>2, <3>1, <3>3, CallingIsReq
      <4>2. req' = [req EXCEPT ![r] = Calling(r, o, o.customer)] /\ clock' = clock + 1
        BY <2>2, <3>3 DEF Begin
      <4>3. clock' \in Nat
        BY <1>2, <4>2 DEF TypeOK
      <4>4. /\ UNCHANGED <<isActive, bridge>> /\ remote' \in [Urls -> Subs \cup {NULL}]
            /\ answered' \subseteq Customers \X Urls \X Subs
        BY <1>2, <2>2 DEF Begin, TypeOK
      <4> QED
        BY <2>1, <4>1, <4>2, <4>3, <4>4
    <3> QED
      BY <3>2, <3>3
  <2>3. ASSUME NEW r \in Requests, NEW o \in Ops, BeginConfigure(r, o) PROVE TypeOK'
    <3> DEFINE q == [Idle EXCEPT !.pc = "ready", !.op = o, !.customer = o.customer,
                                 !.seen = Row(o.customer)]
    <3>1. o.customer \in Customers /\ o.kind = "configure"
      BY <2>3, OpsAssumption DEF BeginConfigure, Body
    <3>2. Row(o.customer) = NULL \/ (RowOK(Row(o.customer)) /\ o.customer \in DOMAIN bridge)
      BY <1>2 DEF Row, TypeOK
    <3>3. ReqOK(q)
      BY <3>1, <3>2 DEF ReqOK, Idle
    <3> QED
      BY <1>2, <2>1, <2>3, <3>3 DEF BeginConfigure, TypeOK
  <2>4. ASSUME NEW r \in Requests, NEW o \in Ops, BeginSweep(r, o) PROVE TypeOK'
    <3> DEFINE q == [Idle EXCEPT !.pc = "sweeping", !.op = o,
                                 !.todo = {c \in DOMAIN bridge : Resolved(bridge[c])}]
    <3>1. ReqOK(q)
      BY <2>4 DEF BeginSweep, ReqOK, Idle
    <3> QED
      BY <1>2, <2>1, <2>4, <3>1 DEF BeginSweep, TypeOK
  <2>5. ASSUME NEW r \in Requests, SweepNext(r) PROVE TypeOK'
    <3> PICK c \in req[r].todo :
               /\ req' = [req EXCEPT ![r] = IF Refusal(c) # NULL THEN Done(Refusal(c))
                             ELSE [Calling(r, req[r].op, c) EXCEPT !.todo = req[r].todo \ {c}]]
               /\ clock' = IF Refusal(c) # NULL THEN clock ELSE clock + 1
      <4>1. ASSUME NEW o, NEW c PROVE Calling(r, o, c).todo = req[r].todo
        BY <1>2 DEF Calling, TypeOK, ReqOK, Idle
      <4> QED
        BY <1>2, <2>5, <4>1 DEF SweepNext, TypeOK
    <3>1. /\ c \in Customers /\ req[r].op \in Ops /\ req[r].todo \ {c} \subseteq DOMAIN bridge
          /\ clock' \in Nat
      <4>1. req[r].pc = "sweeping"
        BY <2>5 DEF SweepNext
      <4> QED
        BY <1>2, <4>1, SweepingIs
    <3>2. CASE Refusal(c) # NULL
      <4>1. ReqOK(Done(Refusal(c)))
        BY <3>2, DoneIsReq DEF Refusal
      <4> QED
        BY <1>2, <2>1, <2>5, <3>1, <3>2, <4>1 DEF SweepNext, TypeOK
    <3>3. CASE Refusal(c) = NULL
      <4>1. req[r].op.kind # "configure"
        BY <1>2, <2>5, SweepingIs DEF SweepNext
      <4>2. ReqOK([Calling(r, req[r].op, c) EXCEPT !.todo = req[r].todo \ {c}])
        BY <1>2, <3>1, <3>3, <4>1, CallingIsReq
      <4> QED
        BY <1>2, <2>1, <2>5, <3>1, <3>3, <4>2 DEF SweepNext, TypeOK
    <3> QED
      BY <3>2, <3>3
  <2>6. ASSUME NEW r \in Requests, SweepEnd(r) PROVE TypeOK'
    BY <1>2, <2>1, <2>6, DoneIsReq, ZenonT(60) DEF SweepEnd, TypeOK
  <2>7. ASSUME NEW r \in Requests, CallHealth(r) PROVE TypeOK'
    <3> PICK a \in {Fine} \cup Failures :
               req' = [req EXCEPT ![r] = [req[r] EXCEPT !.pc = "ready", !.answer = a]]
      BY <1>2, <2>7 DEF CallHealth, TypeOK
    <3>1. ReqOK([req[r] EXCEPT !.pc = "ready", !.answer = a])
      <4>1. ReqOK(req[r]) /\ req[r].pc = "calling" /\ Checks(req[r].op)
        BY <1>2, <2>7 DEF CallHealth, TypeOK
      <4> QED
        BY <4>1 DEF ReqOK, Idle, Answers
    <3> QED
      BY <1>2, <2>1, <2>7, <3>1 DEF CallHealth, TypeOK
  <2>8. ASSUME NEW r \in Requests, NEW a \in Subs \cup Failures \cup {Missing}, NEW pc,
               req[r].pc = "calling", ~Checks(req[r].op),
               pc = "ready" \/ pc = AfterSub(r, a)
        PROVE  /\ ReqOK([req[r] EXCEPT !.pc = pc, !.answer = a])
               /\ Heard(r, a) \subseteq Customers \X Urls \X Subs
    <3>1. ReqOK(req[r])
      BY <1>2 DEF TypeOK
    <3>2. pc \in {"half", "ready"} /\ (pc = "half" => a \in Subs)
      BY <2>8 DEF AfterSub
    <3>3. ReqOK([req[r] EXCEPT !.pc = pc, !.answer = a])
      BY <2>8, <3>1, <3>2 DEF ReqOK, Idle, Answers
    <3>4. Heard(r, a) \subseteq Customers \X Urls \X Subs
      BY <1>2, <2>8, CallsAUrl DEF Heard, TypeOK
    <3> QED
      BY <3>3, <3>4
  <2>9. ASSUME NEW r \in Requests, CallGet(r) PROVE TypeOK'
    <3> PICK a \in Failures \cup {IF remote[Url(r)] = NULL THEN Missing ELSE remote[Url(r)]} :
               /\ req' = [req EXCEPT ![r] = [req[r] EXCEPT !.pc = AfterSub(r, a), !.answer = a]]
               /\ answered' = Heard(r, a)
      BY <1>2, <2>9 DEF CallGet, TypeOK
    <3>1. a \in Subs \cup Failures \cup {Missing} /\ ~Checks(req[r].op)
      BY <1>2, <2>9, CallsAUrl DEF CallGet, Checks, TypeOK
    <3>2. req[r].pc = "calling" /\ UNCHANGED <<isActive, bridge, remote, clock>>
      BY <2>9 DEF CallGet
    <3>3. /\ ReqOK([req[r] EXCEPT !.pc = AfterSub(r, a), !.answer = a])
          /\ Heard(r, a) \subseteq Customers \X Urls \X Subs
      BY <2>8, <3>1, <3>2
    <3> QED
      BY <1>2, <2>1, <3>2, <3>3 DEF TypeOK
  <2>10. ASSUME NEW r \in Requests, CallPatch(r) PROVE TypeOK'
    <3>1. /\ req[r].pc = "calling" /\ SendsSub(req[r].op)
          /\ UNCHANGED <<isActive, bridge, clock>>
      BY <2>10 DEF CallPatch
    <3>2. req[r].op.sub \in Subs /\ ~Checks(req[r].op) /\ Url(r) \in Urls
      BY <1>2, <3>1, CallsAUrl DEF SendsSub, Body, Checks
    <3>3. CASE /\ remote' = [remote EXCEPT ![Url(r)] = req[r].op.sub]
               /\ \E a \in Failures \cup {req[r].op.sub} :
                     /\ req' = [req EXCEPT ![r].pc = AfterSub(r, a), ![r].answer = a]
                     /\ answered' = Heard(r, a)
      <4> PICK a \in Failures \cup {req[r].op.sub} :
                 /\ req' = [req EXCEPT ![r] = [req[r] EXCEPT !.pc = AfterSub(r, a), !.answer = a]]
                 /\ answered' = Heard(r, a)
        BY <1>2, <3>3 DEF TypeOK
      <4>1. /\ ReqOK([req[r] EXCEPT !.pc = AfterSub(r, a), !.answer = a])
            /\ Heard(r, a) \subseteq Customers \X Urls \X Subs
        BY <2>8, <3>1, <3>2
      <4>2. remote' \in [Urls -> Subs \cup {NULL}]
        BY <1>2, <3>2, <3>3 DEF TypeOK
      <4> QED
        BY <1>2, <2>1, <3>1, <4>1, <4>2 DEF TypeOK
    <3>4. CASE /\ \E a \in Failures \cup (IF remote[Url(r)] = NULL THEN {Missing} ELSE {}) :
                     req' = [req EXCEPT ![r].pc = "ready", ![r].answer = a]
               /\ UNCHANGED <<remote, answered>>
      <4> PICK a \in Failures \cup {Missing} :
                 req' = [req EXCEPT ![r] = [req[r] EXCEPT !.pc = "ready", !.answer = a]]
        BY <1>2, <3>4 DEF TypeOK
      <4>1. ReqOK([req[r] EXCEPT !.pc = "ready", !.answer = a])
        BY <2>8, <3>1, <3>2
      <4> QED
        BY <1>2, <2>1, <3>1, <3>4, <4>1 DEF TypeOK
    <3> QED
      BY <2>10, <3>3, <3>4 DEF CallPatch
  <2>11. ASSUME NEW r \in Requests, CallMessages(r) PROVE TypeOK'
    <3> PICK a \in Failures \cup {Missing, req[r].answer} :
               req' = [req EXCEPT ![r] = [req[r] EXCEPT !.pc = "ready", !.answer = a]]
      BY <1>2, <2>11 DEF CallMessages, TypeOK
    <3>1. ReqOK(req[r]) /\ req[r].pc = "half"
      BY <1>2, <2>11 DEF CallMessages, TypeOK
    <3>2. ReqOK([req[r] EXCEPT !.pc = "ready", !.answer = a])
      BY <3>1 DEF ReqOK, Idle, Answers
    <3> QED
      BY <1>2, <2>1, <2>11, <3>2 DEF CallMessages, TypeOK
  <2>12. ASSUME NEW r \in Requests, Store(r) PROVE TypeOK'
    <3>1. UNCHANGED <<isActive, remote, clock, answered>> /\ ReqOK(req[r]) /\ req[r].pc = "ready"
      BY <1>2, <2>12 DEF Store, TypeOK
    <3>2. CASE ~Storable(r)
      BY <1>2, <2>1, <2>12, <3>1, <3>2, DoneIsReq DEF Store, TypeOK
    <3>3. CASE Storable(r)
      <4>1. /\ DOMAIN bridge \subseteq DOMAIN bridge' /\ DOMAIN bridge' \subseteq Customers
            /\ \A c \in DOMAIN bridge' : RowOK(bridge'[c])
        BY <1>2, <2>12, <3>3, CommittedRow DEF TypeOK
      <4>2. req' = [req EXCEPT ![r] = Stored(r)]
        BY <2>12, <3>3 DEF Store
      <4>3. ReqOK(Stored(r))
        <5>1. CASE req[r].op.kind = "sweep"
          <6>1. Stored(r) = [Idle EXCEPT !.pc = "sweeping", !.op = req[r].op, !.todo = req[r].todo]
            BY <5>1 DEF Stored
          <6> QED
            BY <3>1, <5>1, <6>1 DEF ReqOK, Idle
        <5>2. CASE req[r].op.kind # "sweep"
          <6>1. Stored(r) = Done(200) \/ Stored(r) = Done(AnswerCode(req[r].answer))
            BY <5>2 DEF Stored
          <6>2. AnswerCode(req[r].answer) \in {200, 404, 502}
            BY DEF AnswerCode
          <6> QED
            BY <6>1, <6>2, DoneIsReq
        <5> QED
          BY <5>1, <5>2
      <4>4. \A s \in Requests : ReqOK(req'[s])
        BY <1>2, <4>2, <4>3 DEF TypeOK
      <4>5. \A s \in Requests : ReqOK(req[s])'
        BY <4>1, <4>4 DEF ReqOK
      <4> QED
        BY <1>2, <2>12, <3>1, <4>1, <4>2, <4>5 DEF TypeOK
    <3> QED
      BY <3>2, <3>3
  <2>13. ASSUME NEW r \in Requests, Abort(r) PROVE TypeOK'
    <3>1. ReqOK(Done(500))
      BY DoneIsReq
    <3> QED
      BY <1>2, <2>1, <2>13, <3>1, ZenonT(60) DEF Abort, TypeOK
  <2>14. CASE \/ \E c \in Switched : SetActive(c)
              \/ \E u \in Shifting : ChangeRemote(u)
              \/ UNCHANGED vars
    <3>1. isActive' \subseteq Customers /\ remote' \in [Urls -> Subs \cup {NULL}]
      BY <1>2, <2>14, SwitchedAssumption DEF SetActive, ChangeRemote, vars, TypeOK
    <3>2. UNCHANGED <<bridge, req, clock, answered>>
      BY <2>14 DEF SetActive, ChangeRemote, vars
    <3> QED
      BY <1>2, <3>1, <3>2 DEF TypeOK, ReqOK
  <2> QED
    BY <1>2, <2>2, <2>3, <2>4, <2>5, <2>6, <2>7, <2>9, <2>10, <2>11, <2>12, <2>13, <2>14
    DEF Next, Proceed, Terminated
<1> QED
  BY <1>1, <1>2, PTL DEF Spec

(***************************************************************************)
(* What a step does.                                                       *)
(***************************************************************************)

\* The configurations change by a commit that goes through, or not at all.
LEMMA RowsMove ==
    ASSUME [Next]_vars
    PROVE  UNCHANGED bridge \/ \E r \in Requests : Store(r) /\ Storable(r)
BY ZenonT(60) DEF Next, Proceed, Terminated, vars, Begin, BeginConfigure, BeginSweep, SweepNext, SweepEnd,
       CallHealth, CallGet, CallPatch, CallMessages, Store, Abort, SetActive, ChangeRemote

\* What bridges have answered is never forgotten, and the clock never goes back.
LEMMA HistoryMoves ==
    ASSUME TypeOK, [Next]_vars
    PROVE  answered \subseteq answered' /\ (clock' = clock \/ clock' = clock + 1)
BY ZenonT(60) DEF Next, Proceed, Terminated, vars, Begin, BeginConfigure, BeginSweep, SweepNext, SweepEnd,
       CallHealth, CallGet, CallPatch, CallMessages, Store, Abort, SetActive, ChangeRemote, Heard

\* A request loads the row of a customer, to configure it or to call its bridge.
Loads(r, c) ==
    /\ req[r].pc \in {"idle", "sweeping"} /\ UNCHANGED bridge
    /\ c \in Customers /\ MayWork(r, c)
    /\ req'[r].customer = c /\ req'[r].seen = Row(c)
    /\ \/ /\ req'[r].pc = "ready" /\ req'[r].op.kind = "configure" /\ req'[r].answer = NULL
       \/ /\ req'[r].pc = "calling" /\ req'[r].op.kind # "configure"
          /\ req'[r].at = clock /\ clock' = clock + 1
          /\ c \in DOMAIN bridge

\* A call of a request is over: it keeps what it has loaded.
Hears(r) ==
    /\ req[r].pc \in {"calling", "half"} /\ req'[r].pc \in {"half", "ready"} /\ UNCHANGED bridge
    /\ \A k \in {"customer", "seen", "op", "at"} : req'[r][k] = req[r][k]
    /\ req'[r].answer \in Subs =>
          \/ req[r].pc = "half" /\ req'[r].answer = req[r].answer
          \/ <<req[r].customer, Url(r), req'[r].answer>> \in answered'

\* The record of a request that calls about o the bridge of c.
IsCall(q, o, c) ==
    q.pc = "calling" /\ q.op = o /\ q.customer = c /\ q.seen = bridge[c] /\ q.at = clock

\* Calling makes such records.
LEMMA CallingFields ==
    ASSUME TypeOK, NEW r \in Requests, NEW o, NEW c, NEW todo
    PROVE  IsCall(Calling(r, o, c), o, c) /\ IsCall([Calling(r, o, c) EXCEPT !.todo = todo], o, c)
<1>1. DOMAIN req[r] = DOMAIN Idle
  BY DEF TypeOK, ReqOK
<1> QED
  BY <1>1 DEF IsCall, Calling, Idle

\* A request stays as it is, ends, goes on with its list, loads a row, or hears
\* from the bridge, and it does so alone.
LEMMA RequestMoves ==
    ASSUME TypeOK, [Next]_vars, NEW r \in Requests
    PROVE  \/ req'[r] = req[r]
           \/ /\ req'[r].pc \in {"sweeping", "done"} \/ (\E c \in Customers : Loads(r, c)) \/ Hears(r)
              /\ \A s \in Requests : s # r => req'[s] = req[s]
<1>1. ASSUME NEW s \in Requests, NEW q, req' = [req EXCEPT ![s] = q]
      PROVE  /\ req'[s] = q /\ \A t \in Requests : t # s => req'[t] = req[t]
  BY <1>1 DEF TypeOK
<1>2. DOMAIN req[r] = DOMAIN Idle
  BY DEF TypeOK, ReqOK
<1>3. ASSUME NEW code PROVE Done(code).pc = "done"
  BY DEF Done, Idle
<1>4. ASSUME NEW s \in Requests, NEW o \in Ops, Begin(s, o)
      PROVE  \/ req'[r] = req[r]
             \/ /\ req'[r].pc \in {"sweeping", "done"} \/ (\E c \in Customers : Loads(r, c))
                /\ \A t \in Requests : t # r => req'[t] = req[t]
  <2>1. CASE Refusal(o.customer) # NULL
    BY <1>1, <1>3, <1>4, <2>1 DEF Begin
  <2>2. CASE Refusal(o.customer) = NULL
    <3>1. /\ req' = [req EXCEPT ![s] = Calling(s, o, o.customer)] /\ clock' = clock + 1
          /\ req[s].pc = "idle" /\ MayWork(s, o.customer) /\ UNCHANGED bridge
      BY <1>4, <2>2 DEF Begin
    <3>2. o.customer \in Customers /\ o.kind # "configure" /\ o.customer \in DOMAIN bridge
      BY <1>4, <2>2, OpsAssumption, NullAssumption DEF Begin, Body, Refusal, Resolved, Row
    <3>3. s = r => Loads(r, o.customer)
      <4>1. req'[s] = Calling(s, o, o.customer)
        BY <1>1, <3>1
      <4>2. IsCall(Calling(s, o, o.customer), o, o.customer)
        BY CallingFields
      <4>3. IsCall(req'[s], o, o.customer)
        BY <4>1, <4>2
      <4> QED
        BY <3>1, <3>2, <4>3 DEF Loads, Row, IsCall
    <3> QED
      BY <1>1, <3>1, <3>2, <3>3
  <2> QED
    BY <2>1, <2>2
<1>5. ASSUME NEW s \in Requests, NEW o \in Ops, BeginConfigure(s, o)
      PROVE  \/ req'[r] = req[r]
             \/ /\ \E c \in Customers : Loads(r, c)
                /\ \A t \in Requests : t # r => req'[t] = req[t]
  <2> DEFINE q == [Idle EXCEPT !.pc = "ready", !.op = o, !.customer = o.customer,
                               !.seen = Row(o.customer)]
  <2>1. /\ req' = [req EXCEPT ![s] = q] /\ req[s].pc = "idle" /\ MayWork(s, o.customer)
        /\ UNCHANGED bridge /\ o.kind = "configure" /\ o.customer \in Customers
    BY <1>5, OpsAssumption DEF BeginConfigure, Body
  <2>2. /\ q.pc = "ready" /\ q.op = o /\ q.customer = o.customer /\ q.seen = Row(o.customer)
        /\ q.answer = NULL
    BY DEF Idle
  <2> HIDE DEF q
  <2> QED
    BY <1>1, <2>1, <2>2 DEF Loads
<1>6. ASSUME NEW s \in Requests, SweepNext(s)
      PROVE  \/ req'[r] = req[r]
             \/ /\ req'[r].pc = "done" \/ (\E c \in Customers : Loads(r, c))
                /\ \A t \in Requests : t # r => req'[t] = req[t]
  <2> PICK c \in req[s].todo :
             /\ MayWork(s, c)
             /\ req' = [req EXCEPT ![s] = IF Refusal(c) # NULL THEN Done(Refusal(c))
                           ELSE [Calling(s, req[s].op, c) EXCEPT !.todo = req[s].todo \ {c}]]
             /\ clock' = IF Refusal(c) # NULL THEN clock ELSE clock + 1
    <3>1. ASSUME NEW o, NEW c PROVE Calling(s, o, c).todo = req[s].todo
      BY DEF Calling, TypeOK, ReqOK, Idle
    <3> QED
      BY <1>6, <3>1 DEF SweepNext, TypeOK
  <2>1. /\ req[s].pc = "sweeping" /\ UNCHANGED bridge /\ req[s].op.kind # "configure"
        /\ c \in Customers /\ c \in DOMAIN bridge
    <3>1. req[s].pc = "sweeping" /\ UNCHANGED bridge
      BY <1>6 DEF SweepNext
    <3> QED
      BY <3>1, SweepingIs
  <2>2. CASE Refusal(c) # NULL
    BY <1>1, <1>3, <2>2
  <2>3. CASE Refusal(c) = NULL
    <3> DEFINE q == [Calling(s, req[s].op, c) EXCEPT !.todo = req[s].todo \ {c}]
    <3>1. req' = [req EXCEPT ![s] = q] /\ clock' = clock + 1
      BY <2>3
    <3>2. IsCall(q, req[s].op, c)
      BY CallingFields
    <3> HIDE DEF q
    <3>3. s = r => Loads(r, c)
      <4>1. IsCall(req'[s], req[s].op, c)
        BY <1>1, <3>1, <3>2
      <4> QED
        BY <2>1, <3>1, <4>1 DEF Loads, Row, IsCall
    <3> QED
      BY <1>1, <2>1, <3>1, <3>3
  <2> QED
    BY <2>2, <2>3
<1>7. ASSUME NEW s \in Requests,
             \/ \E o \in Ops : BeginSweep(s, o)
             \/ SweepEnd(s) \/ Store(s) \/ Abort(s)
      PROVE  \/ req'[r] = req[r]
             \/ /\ req'[r].pc \in {"sweeping", "done"}
                /\ \A t \in Requests : t # r => req'[t] = req[t]
  <2>1. \E q : req' = [req EXCEPT ![s] = q] /\ q.pc \in {"sweeping", "done"}
    <3>1. CASE \E o \in Ops : BeginSweep(s, o)
      <4> PICK o \in Ops : BeginSweep(s, o)
        BY <3>1
      <4> DEFINE q == [Idle EXCEPT !.pc = "sweeping", !.op = o,
                                   !.todo = {c \in DOMAIN bridge : Resolved(bridge[c])}]
      <4>1. q.pc = "sweeping"
        BY DEF Idle
      <4>2. req' = [req EXCEPT ![s] = q]
        BY DEF BeginSweep
      <4> HIDE DEF q
      <4> QED
        BY <4>1, <4>2
    <3>2. CASE SweepEnd(s) \/ Abort(s)
      BY <1>3, <3>2 DEF SweepEnd, Abort
    <3>3. CASE Store(s)
      <4>1. Stored(s).pc \in {"sweeping", "done"}
        BY <1>3 DEF Stored, Idle
      <4> QED
        BY <1>3, <3>3, <4>1 DEF Store
    <3> QED
      BY <1>7, <3>1, <3>2, <3>3
  <2> QED
    BY <1>1, <2>1
<1>8. ASSUME NEW s \in Requests, NEW a, NEW pc \in {"half", "ready"},
             req[s].pc \in {"calling", "half"}, UNCHANGED bridge,
             req' = [req EXCEPT ![s].pc = pc, ![s].answer = a],
             a \in Subs => \/ req[s].pc = "half" /\ a = req[s].answer
                          \/ <<req[s].customer, Url(s), a>> \in answered'
      PROVE  \/ req'[r] = req[r]
             \/ Hears(r) /\ \A t \in Requests : t # r => req'[t] = req[t]
  <2>1. req' = [req EXCEPT ![s] = [req[s] EXCEPT !.pc = pc, !.answer = a]]
    BY <1>8 DEF TypeOK
  <2>2. s = r => Hears(r)
    <3> SUFFICES ASSUME s = r PROVE Hears(r)
      OBVIOUS
    <3>1. req'[r] = [req[r] EXCEPT !.pc = pc, !.answer = a]
      BY <1>1, <2>1
    <3>2. /\ req'[r].pc = pc /\ req'[r].answer = a
          /\ \A k \in {"customer", "seen", "op", "at"} : req'[r][k] = req[r][k]
      BY <1>2, <3>1 DEF Idle
    <3> QED
      BY <1>8, <3>2 DEF Hears
  <2> QED
    BY <1>1, <2>1, <2>2
<1>9. ASSUME NEW s \in Requests, CallHealth(s)
      PROVE  \/ req'[r] = req[r]
             \/ Hears(r) /\ \A t \in Requests : t # r => req'[t] = req[t]
  BY <1>8, <1>9, FailuresAssumption DEF CallHealth
<1>10. ASSUME NEW s \in Requests, CallGet(s)
      PROVE  \/ req'[r] = req[r]
             \/ Hears(r) /\ \A t \in Requests : t # r => req'[t] = req[t]
  <2>1. \A a : AfterSub(s, a) \in {"half", "ready"}
    BY DEF AfterSub
  <2> QED
    BY <1>8, <1>10, <2>1 DEF CallGet, Heard
<1>11. ASSUME NEW s \in Requests, CallPatch(s)
      PROVE  \/ req'[r] = req[r]
             \/ Hears(r) /\ \A t \in Requests : t # r => req'[t] = req[t]
  <2>1. \A a : AfterSub(s, a) \in {"half", "ready"}
    BY DEF AfterSub
  <2>2. \A a \in Failures \cup (IF remote[Url(s)] = NULL THEN {Missing} ELSE {}) : a \notin Subs
    BY FailuresAssumption
  <2> QED
    BY <1>8, <1>11, <2>1, <2>2 DEF CallPatch, Heard
<1>12. ASSUME NEW s \in Requests, CallMessages(s)
      PROVE  \/ req'[r] = req[r]
             \/ Hears(r) /\ \A t \in Requests : t # r => req'[t] = req[t]
  <2>1. \A a \in Failures \cup {Missing} : a \notin Subs
    BY FailuresAssumption
  <2> QED
    BY <1>8, <1>12, <2>1 DEF CallMessages
<1>13. CASE UNCHANGED req
  BY <1>13
<1> QED
  BY <1>4, <1>5, <1>6, <1>7, <1>9, <1>10, <1>11, <1>12, <1>13
  DEF Next, Proceed, Terminated, vars, SetActive, ChangeRemote

(***************************************************************************)
(* However requests overlap.                                               *)
(***************************************************************************)

\* AnswersHeard is an invariant.
THEOREM AnswersAreHeard == Spec => []AnswersHeard
<1>1. Init => AnswersHeard
  BY DEF Init, Idle, AnswersHeard
<1>2. ASSUME TypeOK, AnswersHeard, [Next]_vars PROVE AnswersHeard'
  <2> SUFFICES ASSUME NEW r \in Requests, req'[r].pc \in {"half", "ready"}, req'[r].answer \in Subs
               PROVE  <<req'[r].customer, req'[r].seen.base_url, req'[r].answer>> \in answered'
    BY DEF AnswersHeard, Url
  <2>1. answered \subseteq answered'
    BY <1>2, HistoryMoves
  <2>2. CASE req'[r] = req[r]
    BY <1>2, <2>1, <2>2 DEF AnswersHeard, Url
  <2>3. CASE \E c \in Customers : Loads(r, c)
    BY <2>3, NullAssumption DEF Loads
  <2>4. CASE Hears(r)
    <3>1. /\ req'[r].customer = req[r].customer /\ req'[r].seen = req[r].seen
          /\ \/ req[r].pc = "half" /\ req'[r].answer = req[r].answer
             \/ <<req[r].customer, Url(r), req'[r].answer>> \in answered'
      BY <2>4 DEF Hears
    <3> QED
      BY <1>2, <2>1, <3>1 DEF AnswersHeard, Url
  <2> QED
    BY <1>2, <2>2, <2>3, <2>4, RequestMoves
<1> QED
  BY <1>1, <1>2, TypeCorrect, PTL DEF Spec

\* CachedWasAnswered is an invariant: a column of the copy is written only with
\* what the answer in hand says, or with NULL.
THEOREM CachedAnswered == Spec => []CachedWasAnswered
<1>1. Init => CachedWasAnswered
  <2> SUFFICES ASSUME Init, NEW c \in DOMAIN bridge,
                      bridge[c].cached_term # NULL \/ bridge[c].cached_on # NULL
               PROVE  \E t \in answered : /\ t[1] = c /\ t[3].term = bridge[c].cached_term
                                          /\ t[3].on = bridge[c].cached_on
    BY DEF CachedWasAnswered
  <2> DEFINE sub == CachedSub(InitBridge[c])
  <2>1. bridge = InitBridge /\ Settled(InitBridge[c])
    BY InitAssumption DEF Init
  <2>2. InitBridge[c].synced_at # NULL
    BY <2>1, NullAssumption DEF Settled
  <2>3. <<c, InitBridge[c].base_url, sub>> \in answered
    BY <2>1, <2>2 DEF Init
  <2>4. sub.term = bridge[c].cached_term /\ sub.on = bridge[c].cached_on
    BY <2>1 DEF CachedSub
  <2> HIDE DEF sub
  <2> QED
    BY <2>3, <2>4
<1>2. ASSUME TypeOK, AnswersHeard, CachedWasAnswered, [Next]_vars PROVE CachedWasAnswered'
  <2>1. answered \subseteq answered'
    BY <1>2, HistoryMoves
  <2>2. CASE UNCHANGED bridge
    BY <1>2, <2>1, <2>2 DEF CachedWasAnswered
  <2>3. ASSUME NEW r \in Requests, Store(r), Storable(r) PROVE CachedWasAnswered'
    <3> DEFINE c == req[r].customer
               a == req[r].answer
    <3>1. req[r].pc = "ready" /\ UNCHANGED answered
      BY <2>3 DEF Store
    <3>2. /\ DOMAIN bridge' = DOMAIN bridge \cup {c}
          /\ \A d \in DOMAIN bridge : d # c => bridge'[d] = bridge[d]
      BY <1>2, <2>3, CommittedRow
    <3>3. CASE req[r].seen = NULL
      <4>1. req[r].op.kind = "configure"
        BY <1>2, <3>1, <3>3, ReadyRequest
      <4>2. \A k \in {"cached_term", "cached_on"} : Wanted(r)[k] = NULL
        BY <1>2, <3>1, <4>1, ConfigureColumns DEF Columns
      <4>3. bridge'[c] = Wanted(r)
        BY <1>2, <2>3, <3>3, CommittedRow
      <4> QED
        BY <1>2, <3>1, <3>2, <4>2, <4>3 DEF CachedWasAnswered
    <3>4. CASE req[r].seen # NULL
      <4>1. \A k \in {"cached_term", "cached_on"} :
               bridge'[c][k] \in {bridge[c][k], Wanted(r)[k]}
                  /\ (bridge'[c][k] # bridge[c][k] => Wanted(r)[k] # req[r].seen[k])
        BY <1>2, <2>3, <3>4, CommittedColumns DEF Columns
      <4>2. c \in DOMAIN bridge
        BY <1>2, <2>3, <3>4, CommittedRow
      <4>3. \/ Wanted(r).cached_term = NULL /\ Wanted(r).cached_on = NULL
            \/ /\ Wanted(r).cached_term = req[r].seen.cached_term
               /\ Wanted(r).cached_on = req[r].seen.cached_on
            \/ a \in Subs /\ Wanted(r).cached_term = a.term /\ Wanted(r).cached_on = a.on
        <5>1. CASE req[r].op.kind = "configure"
          BY <1>2, <3>1, <5>1, ConfigureColumns DEF Columns
        <5>2. CASE req[r].op.kind # "configure"
          BY <1>2, <3>1, <5>2, LearnedColumns
        <5> QED
          BY <5>1, <5>2
      <4>4. a \in Subs => <<c, Url(r), a>> \in answered
        BY <1>2, <3>1 DEF AnswersHeard
      <4>5. bridge'[c].cached_term # NULL =>
               \E t \in answered : t[1] = c /\ t[3].term = bridge'[c].cached_term
        BY <1>2, <4>1, <4>2, <4>3, <4>4 DEF CachedWasAnswered
      <4>6. bridge'[c].cached_on # NULL =>
               \E t \in answered : t[1] = c /\ t[3].on = bridge'[c].cached_on
        BY <1>2, <4>1, <4>2, <4>3, <4>4 DEF CachedWasAnswered
      <4> QED
        BY <1>2, <3>1, <3>2, <4>5, <4>6 DEF CachedWasAnswered
    <3> QED
      BY <3>3, <3>4
  <2> QED
    BY <1>2, <2>2, <2>3, RowsMove
<1> QED
  BY <1>1, <1>2, TypeCorrect, AnswersAreHeard, PTL DEF Spec

\* ConfiguredByRequest: what was learned from a bridge leaves the URL and the
\* switch that the request has loaded, and its flush writes what it changed.
THEOREM ConfiguredOnly == Spec => ConfiguredByRequest
<1> DEFINE Step == \A c \in DOMAIN bridge : \A k \in {"base_url", "is_enabled"} :
          bridge'[c][k] # bridge[c][k]
             => \E r \in Requests :
                   /\ req[r].pc = "ready" /\ req'[r].pc = "done"
                   /\ req[r].op.kind = "configure" /\ req[r].customer = c
                   /\ k \in DOMAIN req[r].op.set /\ bridge'[c][k] = req[r].op.set[k]
<1>1. ASSUME TypeOK, [Next]_vars PROVE [Step]_vars
  <2> SUFFICES ASSUME NEW c \in DOMAIN bridge, NEW k \in {"base_url", "is_enabled"},
                      bridge'[c][k] # bridge[c][k]
               PROVE  \E r \in Requests :
                         /\ req[r].pc = "ready" /\ req'[r].pc = "done"
                         /\ req[r].op.kind = "configure" /\ req[r].customer = c
                         /\ k \in DOMAIN req[r].op.set /\ bridge'[c][k] = req[r].op.set[k]
    OBVIOUS
  <2>1. PICK r \in Requests : Store(r) /\ Storable(r)
    BY <1>1, RowsMove
  <2>2. req[r].pc = "ready" /\ req' = [req EXCEPT ![r] = Stored(r)]
    BY <2>1 DEF Store
  <2>3. req[r].customer = c /\ req[r].seen # NULL
    BY <1>1, <2>1, CommittedRow
  <2>4. bridge'[c][k] = Wanted(r)[k] /\ Wanted(r)[k] # req[r].seen[k]
    BY <1>1, <2>1, <2>3, CommittedColumns DEF Columns
  <2>5. req[r].op.kind = "configure"
    BY <1>1, <2>2, <2>4, LearnedColumns
  <2>6. k \in DOMAIN req[r].op.set /\ Wanted(r)[k] = req[r].op.set[k]
    BY <1>1, <2>2, <2>3, <2>4, <2>5, ConfigureColumns
  <2>7. req'[r].pc = "done"
    BY <1>1, <2>2, <2>5 DEF Stored, Done, Idle, TypeOK
  <2> QED
    BY <2>2, <2>3, <2>4, <2>5, <2>6, <2>7
<1> QED
  BY <1>1, TypeCorrect, PTL DEF Spec, ConfiguredByRequest

(***************************************************************************)
(* Where nothing overlaps.                                                 *)
(***************************************************************************)

\* A request at work has loaded the row just now, or was at work before on the
\* same customer with the same row.
LEMMA WorkGoesOn ==
    ASSUME TypeOK, [Next]_vars, NEW r \in Requests, Working(r)'
    PROVE  \/ Loads(r, req'[r].customer) /\ \A s \in Requests : s # r => req'[s] = req[s]
           \/ /\ Working(r)
              /\ \A k \in {"customer", "seen", "op", "at"} : req'[r][k] = req[r][k]
<1>1. req'[r] = req[r] => Working(r)
  BY DEF Working
<1>2. req'[r].pc \notin {"sweeping", "done"}
  BY DEF Working
<1>3. ASSUME NEW c \in Customers, Loads(r, c) PROVE Loads(r, req'[r].customer)
  BY <1>3 DEF Loads
<1>4. Hears(r) => /\ Working(r)
                  /\ \A k \in {"customer", "seen", "op", "at"} : req'[r][k] = req[r][k]
  BY DEF Hears, Working
<1> QED
  BY <1>1, <1>2, <1>3, <1>4, RequestMoves

\* OneAtWork is an invariant.
THEOREM NothingOverlaps == Spec => []OneAtWork
<1>1. Init => OneAtWork
  BY DEF Init, Idle, Working, OneAtWork
<1>2. ASSUME TypeOK, OneAtWork, [Next]_vars PROVE OneAtWork'
  <2> SUFFICES ASSUME NEW r \in Requests, NEW s \in Requests, Working(r)', Working(s)',
                      req'[r].customer = req'[s].customer, req'[r].customer \in Calm, r # s
               PROVE  FALSE
    BY DEF OneAtWork
  <2>1. ASSUME NEW t \in Requests, NEW u \in Requests, t # u, Working(t)', Working(u)',
               req'[t].customer = req'[u].customer, req'[t].customer \in Calm,
               Loads(t, req'[t].customer), \A v \in Requests : v # t => req'[v] = req[v]
        PROVE  FALSE
    <3>1. req'[u] = req[u]
      BY <2>1
    <3>2. Open(u) /\ req[u].customer = req'[t].customer
      BY <2>1, <3>1 DEF Working, Open
    <3>3. MayWork(t, req'[t].customer) /\ req'[t].customer \notin Contended
      BY <2>1 DEF Loads, Calm
    <3> QED
      BY <2>1, <3>2, <3>3 DEF MayWork
  <2>2. CASE Working(r) /\ req'[r].customer = req[r].customer
             /\ Working(s) /\ req'[s].customer = req[s].customer
    BY <1>2, <2>2 DEF OneAtWork
  <2> QED
    BY <1>2, <2>1, <2>2, WorkGoesOn
<1> QED
  BY <1>1, <1>2, TypeCorrect, PTL DEF Spec

\* SeenIsCurrent is an invariant.
THEOREM SeenStaysCurrent == Spec => []SeenIsCurrent
<1>1. Init => SeenIsCurrent
  BY DEF Init, Idle, Working, SeenIsCurrent
<1>2. ASSUME TypeOK, OneAtWork, SeenIsCurrent, [Next]_vars PROVE SeenIsCurrent'
  <2> SUFFICES ASSUME NEW r \in Requests, Working(r)', NEW c \in Calm, req'[r].customer = c
               PROVE  req'[r].seen = Row(c)'
    BY DEF SeenIsCurrent, Row
  <2>1. CASE Loads(r, c)
    BY <2>1 DEF Loads, Row
  <2>2. CASE Working(r) /\ req[r].customer = c /\ req'[r].seen = req[r].seen
    <3>1. req[r].seen = Row(c)
      BY <1>2, <2>2 DEF SeenIsCurrent
    <3>2. Row(c)' = Row(c)
      <4>1. ASSUME NEW s \in Requests, Store(s), Storable(s) PROVE Row(c)' = Row(c)
        <5>1. req[s].pc = "ready" /\ req' = [req EXCEPT ![s] = Stored(s)]
          BY <4>1 DEF Store
        <5>2. Stored(s).pc \in {"sweeping", "done"}
          BY DEF Stored, Done, Idle
        <5>3. s # r
          BY <1>2, <5>1, <5>2 DEF Working, TypeOK
        <5>4. req[s].customer # c
          BY <1>2, <2>2, <5>1, <5>3 DEF OneAtWork, Working
        <5> QED
          BY <1>2, <4>1, <5>4, CommittedRow DEF Row
      <4> QED
        BY <1>2, <4>1, RowsMove DEF Row
    <3> QED
      BY <2>2, <3>1, <3>2
  <2> QED
    BY <1>2, <2>1, <2>2, WorkGoesOn
<1> QED
  BY <1>1, <1>2, TypeCorrect, NothingOverlaps, PTL DEF Spec

\* LaterThanSeen is an invariant, wherever requests overlap too.
THEOREM TimesGrow == Spec => []LaterThanSeen
<1>1. Init => LaterThanSeen
  <2> SUFFICES ASSUME Init, NEW c \in DOMAIN bridge, bridge[c].synced_at # NULL
               PROVE  bridge[c].synced_at < clock
    BY DEF Init, Idle, Working, LaterThanSeen
  <2>1. bridge = InitBridge /\ clock = 1 /\ Settled(InitBridge[c])
    BY InitAssumption DEF Init
  <2>2. bridge[c].synced_at = 0
    BY <2>1 DEF Settled
  <2> QED
    BY <2>1, <2>2
<1>2. ASSUME TypeOK, LaterThanSeen, [Next]_vars PROVE LaterThanSeen'
  <2>1. clock \in Nat /\ (clock' = clock \/ clock' = clock + 1)
    BY <1>2, HistoryMoves DEF TypeOK
  <2>2. \A c \in DOMAIN bridge : bridge[c].synced_at # NULL => bridge[c].synced_at \in Nat
    BY <1>2 DEF TypeOK, RowOK
  <2>3. ASSUME NEW c \in DOMAIN bridge', bridge'[c].synced_at # NULL
        PROVE  bridge'[c].synced_at < clock'
    <3>1. CASE UNCHANGED bridge
      BY <1>2, <2>1, <2>2, <2>3, <3>1 DEF LaterThanSeen
    <3>2. ASSUME NEW r \in Requests, Store(r), Storable(r)
          PROVE  bridge'[c].synced_at < clock'
      <4>1. req[r].pc = "ready"
        BY <3>2 DEF Store
      <4>2. CASE c # req[r].customer
        <5>1. c \in DOMAIN bridge /\ bridge'[c] = bridge[c]
          BY <1>2, <2>3, <3>2, <4>2, CommittedRow
        <5> QED
          BY <1>2, <2>1, <2>2, <2>3, <5>1 DEF LaterThanSeen
      <4>3. CASE c = req[r].customer /\ req[r].op.kind = "configure"
        <5>1. Wanted(r).synced_at = NULL
          BY <1>2, <4>1, <4>3, ConfigureColumns DEF Columns
        <5>2. /\ req[r].seen # NULL /\ c \in DOMAIN bridge
              /\ bridge'[c].synced_at \in {NULL, bridge[c].synced_at}
          BY <1>2, <2>3, <3>2, <4>3, <5>1, CommittedRow, CommittedColumns DEF Columns
        <5> QED
          BY <1>2, <2>1, <2>2, <2>3, <5>2 DEF LaterThanSeen
      <4>4. CASE c = req[r].customer /\ req[r].op.kind # "configure"
        <5>1. /\ req[r].seen # NULL /\ req[r].at \in Nat /\ req[r].at < clock
              /\ c \in DOMAIN bridge
          BY <1>2, <3>2, <4>1, <4>4, ReadyRequest, CommittedRow DEF LaterThanSeen, Working
        <5>2. Wanted(r).synced_at \in {req[r].seen.synced_at, req[r].at}
          BY <1>2, <4>1, <4>4, LearnedColumns
        <5>3. bridge'[c].synced_at \in {bridge[c].synced_at, req[r].at}
          BY <1>2, <3>2, <4>4, <5>1, <5>2, CommittedColumns DEF Columns
        <5> QED
          BY <1>2, <2>1, <2>2, <2>3, <5>1, <5>3 DEF LaterThanSeen
      <4> QED
        BY <4>2, <4>3, <4>4
    <3> QED
      BY <1>2, <3>1, <3>2, RowsMove
  <2>4. ASSUME NEW r \in Requests, Working(r)', req'[r].op.kind # "configure"
        PROVE  /\ req'[r].at < clock'
               /\ req'[r].seen.synced_at # NULL => req'[r].seen.synced_at < req'[r].at
    <3>1. ASSUME NEW c, Loads(r, c)
          PROVE  /\ req'[r].at < clock'
                 /\ req'[r].seen.synced_at # NULL => req'[r].seen.synced_at < req'[r].at
      <4>1. c \in DOMAIN bridge /\ req'[r].seen = bridge[c] /\ req'[r].at = clock /\ clock' = clock + 1
        BY <2>4, <3>1 DEF Loads, Row
      <4> QED
        BY <1>2, <2>1, <4>1 DEF LaterThanSeen
    <3>2. CASE /\ Working(r)
               /\ \A k \in {"customer", "seen", "op", "at"} : req'[r][k] = req[r][k]
      <4>1. req[r].at < clock /\ (req[r].seen.synced_at # NULL => req[r].seen.synced_at < req[r].at)
        BY <1>2, <2>4, <3>2 DEF LaterThanSeen
      <4>2. req[r].at \in Nat
        BY <1>2, <2>4, <3>2 DEF TypeOK, ReqOK, Working
      <4> QED
        BY <2>1, <3>2, <4>1, <4>2
    <3> QED
      BY <1>2, <2>4, <3>1, <3>2, WorkGoesOn
  <2> QED
    BY <2>3, <2>4 DEF LaterThanSeen, Working
<1> QED
  BY <1>1, <1>2, TypeCorrect, PTL DEF Spec

\* The entry of a row, column by column.
LEMMA EntryFields ==
    ASSUME NEW row
    PROVE  /\ DOMAIN Entry(row) = {"url", "enabled", "health", "sub", "synced", "failed"}
           /\ Entry(row).url = row.base_url /\ Entry(row).enabled = row.is_enabled
           /\ Entry(row).health = HealthOf(row)
           /\ Entry(row).sub = IF row.cached_term = NULL /\ row.cached_on = NULL THEN NULL
                               ELSE CachedSub(row)
           /\ Entry(row).synced = row.synced_at
           /\ Entry(row).failed = (row.sub_error # NULL)
BY DEF Entry, CachedSub

\* The same copy makes the same subscription.
LEMMA SameCopy ==
    ASSUME NEW row, NEW new, new.cached_term = row.cached_term, new.cached_on = row.cached_on
    PROVE  Entry(new).sub = Entry(row).sub
<1>1. CachedSub(new) = CachedSub(row)
  BY DEF CachedSub
<1> QED
  BY <1>1, EntryFields

\* Two entries are the same when their fields are.
LEMMA SameEntry ==
    ASSUME NEW row, NEW e,
           DOMAIN e = {"url", "enabled", "health", "sub", "synced", "failed"},
           e = [k \in DOMAIN e |-> e[k]],
           e.url = row.base_url, e.enabled = row.is_enabled, e.health = HealthOf(row),
           e.sub = Entry(row).sub, e.synced = row.synced_at,
           e.failed = Entry(row).failed
    PROVE  Entry(row) = e
<1>1. DOMAIN e = DOMAIN Entry(row) /\ Entry(row) = [k \in DOMAIN e |-> Entry(row)[k]]
  BY EntryFields DEF Entry
<1>2. \A k \in DOMAIN e : Entry(row)[k] = e[k]
  BY EntryFields
<1> QED
  BY <1>1, <1>2

\* On a customer on whose bridge nothing overlaps, a commit leaves the row that
\* the request meant to leave.
LEMMA CalmCommit ==
    ASSUME TypeOK, SeenIsCurrent, NEW r \in Requests, Store(r), Storable(r),
           req[r].customer \in Calm
    PROVE  /\ bridge'[req[r].customer] = Wanted(r)
           /\ req[r].seen # NULL => bridge[req[r].customer] = req[r].seen
<1> DEFINE c == req[r].customer
<1>1. req[r].pc = "ready" /\ req[r].seen = Row(c)
  BY DEF Store, SeenIsCurrent, Working
<1>2. CASE req[r].seen = NULL
  BY <1>2, CommittedRow
<1>3. CASE req[r].seen # NULL
  <2>1. c \in DOMAIN bridge /\ bridge[c] = req[r].seen
    BY <1>1, <1>3 DEF Row
  <2>2. \A k \in Columns : bridge'[c][k] = Wanted(r)[k]
    BY <1>3, <2>1, CommittedColumns
  <2>3. DOMAIN Wanted(r) = Columns
    BY <1>1, WantedIsRow DEF RowOK
  <2>4. /\ DOMAIN bridge[c] = Columns
        /\ bridge'[c] = Flush(bridge[c], req[r].seen, Wanted(r))
    BY <1>3, <2>1, CommittedRow DEF TypeOK, RowOK
  <2>5. bridge'[c] = [k \in Columns |-> Wanted(r)[k]]
    BY <2>1, <2>2, <2>3, <2>4 DEF Flush, Dirty
  <2>6. Wanted(r) = [k \in DOMAIN Wanted(r) |-> Wanted(r)[k]]
    BY DEF Wanted, Configured, Assign
  <2> QED
    BY <2>1, <2>3, <2>5, <2>6
<1> QED
  BY <1>2, <1>3

\* What a configuration leaves behind is an entry of which nothing is known.
LEMMA ConfigureForgets ==
    ASSUME TypeOK, NEW r \in Requests, req[r].pc = "ready", req[r].op.kind = "configure"
    PROVE  Entry(Wanted(r)) = Book!Forgotten(Entry(Wanted(r)))
<1> DEFINE row == Wanted(r)
           e == Book!Forgotten(Entry(row))
<1>1. \A k \in Columns \ {"base_url", "is_enabled"} : row[k] = NULL
  BY ConfigureColumns
<1> HIDE DEF row
<1>2. HealthOf(row) = "unknown"
  BY <1>1 DEF HealthOf, Columns
<1>3. Entry(row).sub = NULL /\ Entry(row).failed = FALSE
  BY <1>1, EntryFields DEF Columns
<1>4. row.synced_at = NULL
  BY <1>1 DEF Columns
<1>5. /\ DOMAIN e = DOMAIN Entry(row) /\ e = [k \in DOMAIN e |-> e[k]]
      /\ e.url = row.base_url /\ e.enabled = row.is_enabled /\ e.health = "unknown"
      /\ e.sub = NULL /\ e.synced = NULL /\ e.failed = FALSE
  BY EntryFields DEF Book!Forgotten
<1> HIDE DEF e
<1>6. e.health = HealthOf(row) /\ e.sub = Entry(row).sub
  BY <1>2, <1>3, <1>5
<1>7. e.failed = Entry(row).failed
  BY <1>3, <1>5
<1>8. DOMAIN e = {"url", "enabled", "health", "sub", "synced", "failed"}
  BY <1>5, EntryFields
<1>9. e.synced = row.synced_at
  BY <1>4, <1>5
<1>10. Entry(row) = e
  BY <1>5, <1>6, <1>7, <1>8, <1>9, SameEntry
<1> QED
  BY <1>10 DEF e, row

\* What an answer leaves behind: the health alone, or what is remembered of the
\* subscription and its time alone, or that the call failed.
LEMMA AnswerEntry ==
    ASSUME TypeOK, NEW r \in Requests, req[r].pc = "ready", req[r].op.kind # "configure"
    PROVE  LET e == Entry(req[r].seen)
               new == Entry(Wanted(r))
               at == req[r].at IN
           \/ \E h \in {"online", "offline"} : new = [e EXCEPT !.health = h]
           \/ /\ req[r].answer \in Subs
              /\ new = [e EXCEPT !.sub = req[r].answer, !.synced = at, !.failed = FALSE]
           \/ new = [e EXCEPT !.sub = NULL, !.synced = at, !.failed = TRUE]
           \/ new = [e EXCEPT !.failed = TRUE]
<1> DEFINE a == req[r].answer
           at == req[r].at
           row == req[r].seen
           new == Wanted(r)
           e == Entry(row)
<1>1. /\ DOMAIN e = {"url", "enabled", "health", "sub", "synced", "failed"}
      /\ e.url = row.base_url /\ e.enabled = row.is_enabled /\ e.health = HealthOf(row)
      /\ e.sub = Entry(row).sub /\ e.synced = row.synced_at /\ e.failed = Entry(row).failed
      /\ e = [k \in DOMAIN e |-> e[k]]
  BY EntryFields DEF Entry
<1>2. new.base_url = row.base_url /\ new.is_enabled = row.is_enabled /\ at \in Nat
  BY LearnedColumns, ReadyRequest
<1>3. CASE /\ a \in Failures \cup {Fine}
           /\ new.online = (a = Fine) /\ new.checked_at = at
           /\ new.health_error = IF a = Fine THEN NULL ELSE a
           /\ \A k \in {"cached_term", "cached_on", "synced_at", "sub_error"} : new[k] = row[k]
  <2> DEFINE h == IF a = Fine THEN "online" ELSE "offline"
             f == [e EXCEPT !.health = h]
  <2>1. new.online \in BOOLEAN /\ new.online # NULL /\ new.checked_at # NULL
    BY <1>2, <1>3, NullAssumption
  <2>2. HealthOf(new) = h
    <3>1. CASE a = Fine
      <4>1. new.online = TRUE /\ new.health_error = NULL
        BY <1>3, <3>1
      <4> QED
        BY <2>1, <3>1, <4>1 DEF HealthOf
    <3>2. CASE a # Fine
      <4>1. new.online = FALSE /\ new.health_error # NULL
        BY <1>3, <3>2, NullAssumption
      <4> QED
        BY <2>1, <3>2, <4>1 DEF HealthOf
    <3> QED
      BY <3>1, <3>2
  <2>3. Entry(new).sub = Entry(row).sub /\ new.synced_at = row.synced_at
    BY <1>3, SameCopy
  <2>4. Entry(new).failed = Entry(row).failed
    BY <1>3, EntryFields
  <2> HIDE DEF new, row, e, h
  <2>5. /\ DOMAIN f = DOMAIN e /\ f = [k \in DOMAIN f |-> f[k]] /\ f.health = h
        /\ \A k \in {"url", "enabled", "sub", "synced", "failed"} : f[k] = e[k]
    BY <1>1
  <2> HIDE DEF f
  <2>6. Entry(new) = f
    BY <1>1, <1>2, <2>2, <2>3, <2>4, <2>5, SameEntry
  <2> QED
    BY <2>6 DEF f, h, new, e, row
<1>4. ASSUME \A k \in {"online", "checked_at", "health_error"} : new[k] = row[k]
      PROVE  HealthOf(new) = HealthOf(row)
  BY <1>4 DEF HealthOf
<1>5. CASE /\ \A k \in {"online", "checked_at", "health_error"} : new[k] = row[k]
           /\ a \in Subs /\ new.cached_term = a.term /\ new.cached_on = a.on
           /\ new.synced_at = at /\ new.sub_error = NULL
  <2> DEFINE f == [e EXCEPT !.sub = a, !.synced = at, !.failed = FALSE]
  <2>1. a \in [term : Terms, on : BOOLEAN] /\ a.term # NULL
    BY <1>5, SubsAssumption, NullAssumption
  <2>2. Entry(new).sub = a
    BY <1>5, <2>1, EntryFields DEF CachedSub
  <2>3. Entry(new).failed = FALSE
    BY <1>5, EntryFields
  <2>4. HealthOf(new) = HealthOf(row) /\ new.synced_at = at
    BY <1>4, <1>5
  <2> HIDE DEF new, row, e, a, at
  <2>5. /\ DOMAIN f = DOMAIN e /\ f = [k \in DOMAIN f |-> f[k]]
        /\ f.sub = a /\ f.synced = at
        /\ \A k \in {"url", "enabled", "health"} : f[k] = e[k]
    BY <1>1
  <2>6. f.failed = FALSE
    BY <1>1
  <2> HIDE DEF f
  <2>7. f.failed = Entry(new).failed
    BY <2>3, <2>6
  <2>8. Entry(new) = f
    BY <1>1, <1>2, <2>2, <2>4, <2>5, <2>7, SameEntry
  <2> QED
    BY <1>5, <2>8 DEF f, new, e, row, a, at
<1>6. CASE /\ \A k \in {"online", "checked_at", "health_error"} : new[k] = row[k]
           /\ new.cached_term = NULL /\ new.cached_on = NULL
           /\ new.synced_at = at /\ new.sub_error = Missing
  <2> DEFINE f == [e EXCEPT !.sub = NULL, !.synced = at, !.failed = TRUE]
  <2>1. Entry(new).sub = NULL
    BY <1>6, EntryFields
  <2>2. Entry(new).failed = TRUE
    BY <1>6, EntryFields, FailuresAssumption
  <2>3. HealthOf(new) = HealthOf(row) /\ new.synced_at = at
    BY <1>4, <1>6
  <2> HIDE DEF new, row, e, at
  <2>4. /\ DOMAIN f = DOMAIN e /\ f = [k \in DOMAIN f |-> f[k]]
        /\ f.sub = NULL /\ f.synced = at
        /\ \A k \in {"url", "enabled", "health"} : f[k] = e[k]
    BY <1>1
  <2>5. f.failed = TRUE
    BY <1>1
  <2> HIDE DEF f
  <2>6. f.failed = Entry(new).failed
    BY <2>2, <2>5
  <2>7. Entry(new) = f
    BY <1>1, <1>2, <2>1, <2>3, <2>4, <2>6, SameEntry
  <2> QED
    BY <2>7 DEF f, new, e, row, at
<1>7. CASE /\ \A k \in {"online", "checked_at", "health_error"} : new[k] = row[k]
           /\ a \in Failures
           /\ \A k \in {"cached_term", "cached_on", "synced_at"} : new[k] = row[k]
           /\ new.sub_error = a
  <2> DEFINE f == [e EXCEPT !.failed = TRUE]
  <2>1. Entry(new).sub = Entry(row).sub /\ new.synced_at = row.synced_at
    BY <1>7, SameCopy
  <2>2. Entry(new).failed = TRUE
    BY <1>7, EntryFields, NullAssumption
  <2>3. HealthOf(new) = HealthOf(row)
    BY <1>4, <1>7
  <2> HIDE DEF new, row, e
  <2>4. /\ DOMAIN f = DOMAIN e /\ f = [k \in DOMAIN f |-> f[k]]
        /\ \A k \in {"url", "enabled", "health", "sub", "synced"} : f[k] = e[k]
    BY <1>1
  <2>5. f.failed = TRUE
    BY <1>1
  <2> HIDE DEF f
  <2>6. f.failed = Entry(new).failed
    BY <2>2, <2>5
  <2>7. Entry(new) = f
    BY <1>1, <1>2, <2>1, <2>3, <2>4, <2>6, SameEntry
  <2> QED
    BY <2>7 DEF f, new, e, row
<1> QED
  <2> HIDE DEF e
  <2> QED
    BY <1>3, <1>5, <1>6, <1>7, LearnedColumns

\* The entries that the book starts with.
LEMMA SettledEntry ==
    ASSUME NEW row, RowOK(row), Settled(row)
    PROVE  /\ Entry(row).health \in {"unknown", "online", "offline"}
           /\ Entry(row).sub # NULL <=> row.synced_at # NULL
           /\ Entry(row).sub # NULL => Entry(row).sub = CachedSub(row)
           /\ ~Entry(row).failed
<1>1. HealthOf(row) \in {"unknown", "online", "offline"}
  <2>1. CASE row.online = NULL
    BY <2>1, NullAssumption DEF Settled, HealthOf
  <2>2. CASE row.online # NULL
    <3>1. row.online \in BOOLEAN /\ row.checked_at = 0 /\ row.checked_at # NULL
      BY <2>2, NullAssumption DEF Settled, RowOK
    <3>2. row.online <=> row.health_error = NULL
      BY <2>2 DEF Settled
    <3>3. CASE row.online = TRUE
      <4>1. row.health_error = NULL
        BY <3>2, <3>3
      <4> QED
        BY <2>2, <3>1, <3>3, <4>1 DEF HealthOf
    <3>4. CASE row.online = FALSE
      <4>1. row.health_error # NULL
        BY <3>2, <3>4
      <4> QED
        BY <2>2, <3>1, <3>4, <4>1 DEF HealthOf
    <3> QED
      BY <3>1, <3>3, <3>4
  <2> QED
    BY <2>1, <2>2
<1>2. \/ row.cached_term = NULL /\ row.cached_on = NULL /\ row.synced_at = NULL
      \/ CachedSub(row) \in Subs /\ row.synced_at # NULL
  BY NullAssumption DEF Settled
<1>3. CachedSub(row) \in Subs => CachedSub(row) # NULL /\ row.cached_term # NULL
  BY SubsAssumption, NullAssumption DEF CachedSub
<1>4. row.sub_error = NULL
  BY DEF Settled
<1> QED
  BY <1>1, <1>2, <1>3, <1>4, EntryFields

\* A commit on such a customer writes the entry of the row it meant to leave, and
\* no other entry.
LEMMA CalmBook ==
    ASSUME TypeOK, SeenIsCurrent, NEW r \in Requests, Store(r), Storable(r),
           NEW c \in Calm, req[r].customer = c
    PROVE  /\ Book!Only(c) /\ book'[c] = Entry(Wanted(r))
           /\ req[r].seen # NULL => c \in DOMAIN book /\ book[c] = Entry(req[r].seen)
<1>1. /\ DOMAIN bridge' = DOMAIN bridge \cup {c}
      /\ \A d \in DOMAIN bridge : d # c => bridge'[d] = bridge[d]
      /\ req[r].seen # NULL => c \in DOMAIN bridge
  BY CommittedRow
<1>2. bridge'[c] = Wanted(r) /\ (req[r].seen # NULL => bridge[c] = req[r].seen)
  BY CalmCommit
<1>3. book' = [d \in DOMAIN bridge' \cap Calm |-> Entry(bridge'[d])]
  BY DEF book
<1>4. DOMAIN book = DOMAIN bridge \cap Calm /\ \A d \in DOMAIN book : book[d] = Entry(bridge[d])
  BY DEF book
<1>5. DOMAIN book' = DOMAIN book \cup {c}
  BY <1>1, <1>3, <1>4
<1>6. \A d \in DOMAIN book \ {c} : book'[d] = book[d]
  BY <1>1, <1>3, <1>4
<1> QED
  BY <1>1, <1>2, <1>3, <1>4, <1>5, <1>6 DEF Book!Only

\* The customers on whose bridge requests do not overlap follow BridgeBook: what
\* is remembered of a bridge was learned from the bridge configured now, as a
\* whole and in the order of asking.
THEOREM BookImplemented == Spec => FollowsBook
<1>1. Init => Book!Init
  <2> SUFFICES ASSUME Init, NEW c \in DOMAIN book
               PROVE  /\ book[c].health \in {"unknown", "online", "offline"}
                      /\ book[c].sub # NULL => <<c, book[c].url, book[c].sub>> \in answered
                      /\ book[c].sub # NULL <=> book[c].synced # NULL
                      /\ ~book[c].failed
    BY DEF Book!Init
  <2>1. /\ c \in DOMAIN InitBridge /\ book[c] = Entry(InitBridge[c])
        /\ RowOK(InitBridge[c]) /\ Settled(InitBridge[c])
    BY InitAssumption DEF Init, book
  <2>2. InitBridge[c].synced_at # NULL =>
           <<c, InitBridge[c].base_url, CachedSub(InitBridge[c])>> \in answered
    BY <2>1 DEF Init
  <2>3. /\ Entry(InitBridge[c]).url = InitBridge[c].base_url
        /\ Entry(InitBridge[c]).synced = InitBridge[c].synced_at
    BY EntryFields
  <2> QED
    BY <2>1, <2>2, <2>3, SettledEntry
<1>2. ASSUME TypeOK, AnswersHeard, SeenIsCurrent, LaterThanSeen, [Next]_vars
      PROVE  [Book!Next]_<<book, answered>>
  <2>1. Book!Hear
    BY <1>2, HistoryMoves DEF Book!Hear
  <2>2. CASE UNCHANGED bridge
    BY <2>1, <2>2 DEF Book!Next, book
  <2>3. ASSUME NEW r \in Requests, Store(r), Storable(r) PROVE Book!Next
    <3>1. req[r].pc = "ready" /\ UNCHANGED answered
      BY <2>3 DEF Store
    <3>2. CASE req[r].customer \notin Calm
      <4>1. UNCHANGED book
        BY <1>2, <2>3, <3>2, CommittedRow DEF book
      <4> QED
        BY <2>1, <4>1 DEF Book!Next
    <3>3. ASSUME NEW c \in Calm, req[r].customer = c, req[r].op.kind = "configure"
          PROVE  Book!Configure(c)
      <4>1. Book!Only(c) /\ book'[c] = Entry(Wanted(r))
        BY <1>2, <2>3, <3>3, CalmBook
      <4> QED
        BY <1>2, <3>1, <3>3, <4>1, ConfigureForgets DEF Book!Configure
    <3>4. ASSUME NEW c \in Calm, req[r].customer = c, req[r].op.kind # "configure"
          PROVE  Book!Check(c) \/ Book!Refresh(c) \/ Book!Fail(c)
      <4> DEFINE row == req[r].seen
                 at == req[r].at
      <4>1. row # NULL /\ Resolved(row) /\ at \in Nat
        BY <1>2, <3>1, <3>4, ReadyRequest
      <4>2. /\ Book!Only(c) /\ book'[c] = Entry(Wanted(r))
            /\ c \in DOMAIN book /\ book[c] = Entry(row)
        BY <1>2, <2>3, <3>4, <4>1, CalmBook
      <4>3. /\ book[c].url = row.base_url /\ book[c].enabled = row.is_enabled
            /\ book[c].synced = row.synced_at
        BY <4>2, EntryFields
      <4>4. Book!Ready(c)
        BY <4>1, <4>2, <4>3 DEF Book!Ready, Resolved
      <4>5. book[c].synced = NULL \/ book[c].synced < at
        BY <1>2, <3>1, <3>4, <4>3 DEF LaterThanSeen, Working
      <4>6. \A s \in Subs : s = req[r].answer => <<c, book[c].url, s>> \in answered'
        BY <1>2, <3>1, <3>4, <4>3 DEF AnswersHeard, Url
      <4>7. /\ DOMAIN book[c] = {"url", "enabled", "health", "sub", "synced", "failed"}
        BY <4>2, EntryFields
      <4>8. CASE \E h \in {"online", "offline"} : book'[c] = [book[c] EXCEPT !.health = h]
        BY <4>4, <4>8 DEF Book!Check
      <4>9. CASE book'[c] = [book[c] EXCEPT !.failed = TRUE]
        BY <4>4, <4>9 DEF Book!Fail
      <4>10. CASE book'[c] = [book[c] EXCEPT !.sub = NULL, !.synced = at, !.failed = TRUE]
        <5>1. book'[c].synced = at
          BY <4>7, <4>10
        <5>2. Book!Later(c)
          BY <4>1, <4>5, <5>1 DEF Book!Later
        <5>3. book'[c] = [book[c] EXCEPT !.sub = NULL, !.synced = book'[c].synced, !.failed = TRUE]
          BY <4>10, <5>1
        <5> QED
          BY <4>4, <5>2, <5>3 DEF Book!Refresh
      <4>11. ASSUME NEW s \in Subs, s = req[r].answer,
                    book'[c] = [book[c] EXCEPT !.sub = s, !.synced = at, !.failed = FALSE]
             PROVE  Book!Refresh(c)
        <5>1. book'[c].synced = at
          BY <4>7, <4>11
        <5>2. Book!Later(c)
          BY <4>1, <4>5, <5>1 DEF Book!Later
        <5>3. book'[c] = [book[c] EXCEPT !.sub = s, !.synced = book'[c].synced, !.failed = FALSE]
          BY <4>11, <5>1
        <5>4. s \in {t[3] : t \in {t \in answered' : t[1] = c /\ t[2] = book[c].url}}
          <6>1. <<c, book[c].url, s>> \in answered'
            BY <4>6, <4>11
          <6> QED
            BY <6>1
        <5> QED
          BY <4>4, <5>2, <5>3, <5>4 DEF Book!Refresh
      <4>12. \/ \E h \in {"online", "offline"} : book'[c] = [book[c] EXCEPT !.health = h]
             \/ /\ req[r].answer \in Subs
                /\ book'[c] = [book[c] EXCEPT !.sub = req[r].answer, !.synced = at, !.failed = FALSE]
             \/ book'[c] = [book[c] EXCEPT !.sub = NULL, !.synced = at, !.failed = TRUE]
             \/ book'[c] = [book[c] EXCEPT !.failed = TRUE]
        <5>1. book'[c] = Entry(Wanted(r)) /\ book[c] = Entry(row)
          BY <4>2
        <5> QED
          BY <1>2, <3>1, <3>4, <5>1, AnswerEntry
      <4> HIDE DEF at
      <4> QED
        BY <4>8, <4>9, <4>10, <4>11, <4>12
    <3> QED
      BY <2>1, <3>2, <3>3, <3>4 DEF Book!Next
  <2> QED
    BY <1>2, <2>2, <2>3, RowsMove
<1> QED
  BY <1>1, <1>2, TypeCorrect, AnswersAreHeard, SeenStaysCurrent, TimesGrow, PTL
  DEF Spec, FollowsBook, Book!Spec
=============================================================================
