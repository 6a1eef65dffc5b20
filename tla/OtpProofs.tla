------------------------------ MODULE OtpProofs ------------------------------
(***************************************************************************)
(* Theorems of Otp, for any mobiles, requests, sign-ins, limits and        *)
(* contended mobiles: types, and what holds however requests and sign-ins  *)
(* overlap.                                                                *)
(***************************************************************************)
EXTENDS OtpProps, FiniteSetTheorems, TLAPS

(***************************************************************************)
(* Types.                                                                  *)
(***************************************************************************)

\* A request that ended is a request.
LEMMA DoneIsAsk ==
    ASSUME NEW code \in Code
    PROVE  AskOK(AskDone(code))
BY DEF AskOK, AskDone, AskIdle

\* A sign-in that ended is a sign-in.
LEMMA DoneIsSign ==
    ASSUME NEW code \in Code
    PROVE  SignOK(SignDone(code))
BY DEF SignOK, SignDone, SignIdle

\* Marking codes as used keeps the rows' types and which rows there are.
LEMMA SpentRows ==
    ASSUME TypeOK, NEW codes
    PROVE  /\ DOMAIN Spent(codes) = DOMAIN otp
           /\ \A c \in DOMAIN otp : RowOK(Spent(codes)[c])
BY DEF TypeOK, RowOK, Spent

\* A request that is about to commit has a row to store.
LEMMA NewRowOK ==
    ASSUME TypeOK, NEW r \in Requests, ask[r].pc = "sent"
    PROVE  RowOK(NewRow(r))
BY DEF TypeOK, AskOK, RowOK, NewRow

\* TypeOK is an invariant.
THEOREM TypeCorrect == Spec => []TypeOK
<1>1. Init => TypeOK
  <2> SUFFICES ASSUME Init PROVE TypeOK
    OBVIOUS
  <2>1. AskOK(AskIdle) /\ SignOK(SignIdle)
    BY DEF AskOK, AskIdle, SignOK, SignIdle, Code
  <2> QED
    BY <2>1, MobilesAssumption DEF Init, TypeOK
<1>2. ASSUME TypeOK, [Next]_vars PROVE TypeOK'
  <2>1. ASSUME NEW r \in Requests, NEW a, AskOK(a), ask' = [ask EXCEPT ![r] = a],
               UNCHANGED <<now, active, otp, sign, accepted>>,
               delivered' \subseteq Requests, earlier' \in [Requests -> SUBSET Requests]
        PROVE  TypeOK'
    <3>1. \A s \in Requests : AskOK(ask'[s])
      BY <1>2, <2>1 DEF TypeOK
    <3>2. \A s \in Requests : AskOK(ask[s])'
      BY <2>1, <3>1 DEF AskOK
    <3>3. \A v \in SignIns : SignOK(sign[v])'
      BY <1>2, <2>1 DEF SignOK, TypeOK
    <3> QED
      BY <1>2, <2>1, <3>2, <3>3 DEF TypeOK
  <2>2. ASSUME NEW v \in SignIns, NEW s, SignOK(s), sign' = [sign EXCEPT ![v] = s],
               UNCHANGED <<now, active, ask, delivered, earlier>>,
               DOMAIN otp' = DOMAIN otp, \A c \in DOMAIN otp : RowOK(otp'[c]),
               accepted' \in [Requests -> SUBSET SignIns]
        PROVE  TypeOK'
    <3>1. \A u \in SignIns : SignOK(sign'[u])
      BY <1>2, <2>2 DEF TypeOK
    <3>2. \A u \in SignIns : SignOK(sign[u])'
      BY <2>2, <3>1 DEF SignOK
    <3>3. \A r \in Requests : AskOK(ask[r])'
      BY <1>2, <2>2 DEF AskOK, TypeOK
    <3> QED
      BY <1>2, <2>2, <3>2, <3>3 DEF TypeOK
  <2>3. ASSUME NEW r \in Requests, NEW m \in Mobiles, FindUser(r, m) PROVE TypeOK'
    <3> DEFINE a == IF m \notin active THEN AskDone(404)
                    ELSE [ask[r] EXCEPT !.pc = "known", !.mobile = m, !.began = now]
    <3>1. AskOK(a)
      <4>1. AskOK(ask[r]) /\ now \in Nat
        BY <1>2 DEF TypeOK
      <4>2. AskOK(AskDone(404))
        BY DoneIsAsk DEF Code
      <4> QED
        BY <4>1, <4>2 DEF AskOK, AskIdle
    <3>2. ask' = [ask EXCEPT ![r] = a] /\ earlier' \in [Requests -> SUBSET Requests]
      BY <1>2, <2>3 DEF FindUser, TypeOK
    <3> QED
      BY <1>2, <2>1, <2>3, <3>1, <3>2, ZenonT(60) DEF FindUser, TypeOK
  <2>4. ASSUME NEW r \in Requests, EnforceLimit(r) PROVE TypeOK'
    <3> DEFINE a == IF WithinRate(ask[r].mobile) THEN [ask[r] EXCEPT !.pc = "within"]
                    ELSE AskDone(429)
    <3>1. AskOK(a)
      <4>1. AskOK(ask[r]) /\ ask[r].pc = "known"
        BY <1>2, <2>4 DEF TypeOK, EnforceLimit
      <4>2. AskOK(AskDone(429))
        BY DoneIsAsk DEF Code
      <4> QED
        BY <4>1, <4>2 DEF AskOK, AskIdle
    <3>2. ask' = [ask EXCEPT ![r] = a]
      BY <2>4 DEF EnforceLimit
    <3> QED
      BY <1>2, <2>1, <2>4, <3>1, <3>2, ZenonT(60) DEF EnforceLimit, TypeOK
  <2>5. ASSUME NEW r \in Requests, StartSpending(r) PROVE TypeOK'
    <3> DEFINE a == [ask[r] EXCEPT !.pc = "spending", !.spends = Unused(ask[r].mobile)]
    <3>1. AskOK(a)
      <4>1. AskOK(ask[r]) /\ ask[r].pc = "within"
        BY <1>2, <2>5 DEF TypeOK, StartSpending
      <4> QED
        BY <4>1 DEF AskOK, AskIdle, Unused
    <3>2. ask' = [ask EXCEPT ![r] = a]
      BY <1>2, <2>5 DEF StartSpending, TypeOK
    <3> QED
      BY <1>2, <2>1, <2>5, <3>1, <3>2, ZenonT(60) DEF StartSpending, TypeOK
  <2>6. ASSUME NEW r \in Requests, FinishSpending(r) PROVE TypeOK'
    <3> DEFINE a == [ask[r] EXCEPT !.pc = "spent",
                                   !.spends = {c \in ask[r].spends : ~otp[c].is_used}]
    <3>1. AskOK(a)
      <4>1. AskOK(ask[r]) /\ ask[r].pc = "spending"
        BY <1>2, <2>6 DEF TypeOK, FinishSpending
      <4> QED
        BY <4>1 DEF AskOK, AskIdle
    <3>2. ask' = [ask EXCEPT ![r] = a]
      BY <1>2, <2>6 DEF FinishSpending, TypeOK
    <3> QED
      BY <1>2, <2>1, <2>6, <3>1, <3>2 DEF FinishSpending, TypeOK
  <2>7. ASSUME NEW r \in Requests, Deliver(r) PROVE TypeOK'
    <3>0. /\ delivered' \subseteq Requests /\ earlier' \in [Requests -> SUBSET Requests]
          /\ UNCHANGED <<now, active, otp, sign, accepted>>
      BY <1>2, <2>7 DEF Deliver, TypeOK
    <3>1. CASE ask' = [ask EXCEPT ![r] = AskDone(503)]
      <4>1. AskOK(AskDone(503))
        BY DoneIsAsk DEF Code
      <4> QED
        BY <2>1, <3>0, <3>1, <4>1, ZenonT(60)
    <3>2. ASSUME NEW c \in Codes, ask' = Drawn(r, c)
          PROVE  TypeOK'
      <4> DEFINE a == [ask[r] EXCEPT !.pc = "sent", !.otp_code = c,
                                     !.expires_at = now + ExpireAfter]
      <4>1. AskOK(a)
        <5>1. AskOK(ask[r]) /\ ask[r].pc = "spent" /\ now + ExpireAfter \in Nat
          BY <1>2, <2>7, SettingsAssumption DEF TypeOK, Deliver
        <5> QED
          BY <3>2, <5>1 DEF AskOK, AskIdle
      <4>2. ask' = [ask EXCEPT ![r] = a]
        BY <1>2, <3>2 DEF Drawn, TypeOK
      <4> QED
        BY <2>1, <3>0, <4>1, <4>2
    <3> QED
      BY <2>7, <3>1, <3>2 DEF Deliver
  <2>8. ASSUME NEW r \in Requests, Store(r) PROVE TypeOK'
    <3>1. /\ DOMAIN otp' = DOMAIN otp \cup {r}
          /\ \A c \in DOMAIN otp' : RowOK(otp'[c])
      <4>1. RowOK(NewRow(r))
        BY <1>2, <2>8, NewRowOK DEF Store
      <4> QED
        BY <1>2, <2>8, <4>1, SpentRows DEF Store, Put
    <3>2. \A s \in Requests : AskOK(ask[s])'
      <4>1. AskOK(AskDone(200))
        BY DoneIsAsk DEF Code
      <4>2. \A s \in Requests : AskOK(ask'[s])
        BY <1>2, <2>8, <4>1 DEF Store, TypeOK
      <4> QED
        BY <3>1, <4>2 DEF AskOK
    <3>3. \A v \in SignIns : SignOK(sign[v])'
      BY <1>2, <2>8, <3>1 DEF Store, TypeOK, SignOK
    <3> QED
      BY <1>2, <2>8, <3>1, <3>2, <3>3 DEF Store, TypeOK
  <2>9. ASSUME NEW v \in SignIns, NEW m \in Mobiles, NEW code \in Entered, LoadCode(v, m, code)
        PROVE  TypeOK'
    <3>1. SignOK(SignDone(400))
      BY DoneIsSign DEF Code
    <3>2. ASSUME NEW c \in Latest(m)
          PROVE  SignOK([sign[v] EXCEPT !.pc = "matched", !.mobile = m, !.row = c])
      BY <1>2, <3>2 DEF TypeOK, SignOK, SignIdle, Latest, Unused
    <3>3. \E s : SignOK(s) /\ sign' = [sign EXCEPT ![v] = s]
      BY <2>9, <3>1, <3>2 DEF LoadCode
    <3> QED
      BY <1>2, <2>2, <2>9, <3>3 DEF LoadCode, TypeOK
  <2>10. ASSUME NEW v \in SignIns, LookUp(v) PROVE TypeOK'
    <3> DEFINE s == [sign[v] EXCEPT !.pc = IF sign[v].mobile \in active THEN "member"
                                           ELSE "stranger"]
    <3>1. SignOK(s)
      <4>1. SignOK(sign[v]) /\ sign[v].pc = "matched"
        BY <1>2, <2>10 DEF TypeOK, LookUp
      <4> QED
        BY <4>1 DEF SignOK, SignIdle
    <3>2. sign' = [sign EXCEPT ![v] = s]
      BY <1>2, <2>10 DEF LookUp, TypeOK
    <3> QED
      BY <1>2, <2>2, <2>10, <3>1, <3>2 DEF LookUp, TypeOK
  <2>11. ASSUME NEW v \in SignIns, UseCode(v) PROVE TypeOK'
    <3> DEFINE code == IF sign[v].pc = "member" THEN 200 ELSE 401
    <3>1. code \in Code /\ sign' = [sign EXCEPT ![v] = SignDone(code)]
      BY <1>2, <2>11 DEF UseCode, Code, TypeOK
    <3>2. accepted' \in [Requests -> SUBSET SignIns]
      BY <1>2, <2>11 DEF UseCode, TypeOK
    <3>3. DOMAIN otp' = DOMAIN otp /\ \A c \in DOMAIN otp : RowOK(otp'[c])
      BY <1>2, <2>11, SpentRows DEF UseCode
    <3> QED
      BY <2>2, <2>11, <3>1, <3>2, <3>3, DoneIsSign, ZenonT(60) DEF UseCode
  <2>12. CASE Abort
    <3>1. AskOK(AskDone(500)) /\ SignOK(SignDone(500))
      BY DoneIsAsk, DoneIsSign DEF Code
    <3>0. /\ UNCHANGED <<now, active, otp, delivered, earlier, accepted>>
          /\ delivered' \subseteq Requests /\ earlier' \in [Requests -> SUBSET Requests]
          /\ accepted' \in [Requests -> SUBSET SignIns] /\ \A c \in DOMAIN otp : RowOK(otp'[c])
      BY <1>2, <2>12 DEF Abort, TypeOK
    <3>2. ASSUME NEW r \in Requests, ask' = [ask EXCEPT ![r] = AskDone(500)], UNCHANGED sign
          PROVE  TypeOK'
      BY <2>1, <3>0, <3>1, <3>2, ZenonT(60)
    <3>3. ASSUME NEW v \in SignIns, sign' = [sign EXCEPT ![v] = SignDone(500)], UNCHANGED ask
          PROVE  TypeOK'
      BY <2>2, <3>0, <3>1, <3>3, ZenonT(60)
    <3> QED
      BY <2>12, <3>2, <3>3 DEF Abort
  <2>13. CASE (\E m \in Switched : SetActive(m)) \/ Tick \/ UNCHANGED vars
    <3>1. now' \in Nat /\ active' \subseteq Mobiles
      BY <1>2, <2>13, MobilesAssumption DEF SetActive, Tick, vars, TypeOK
    <3>2. UNCHANGED <<otp, ask, sign, delivered, earlier, accepted>>
      BY <2>13 DEF SetActive, Tick, vars
    <3> QED
      BY <1>2, <3>1, <3>2 DEF TypeOK, AskOK, SignOK
  <2> QED
    BY <1>2, <2>3, <2>4, <2>5, <2>6, <2>7, <2>8, <2>9, <2>10, <2>11, <2>12, <2>13
    DEF Next, Terminated
<1> QED
  BY <1>1, <1>2, PTL DEF Spec

(***************************************************************************)
(* What a step does.                                                       *)
(***************************************************************************)

\* The table of codes changes by a commit of a request or of a sign-in only.
LEMMA RowsMove ==
    ASSUME [Next]_vars
    PROVE  \/ UNCHANGED otp
           \/ \E r \in Requests : Store(r)
           \/ \E v \in SignIns : UseCode(v)
BY DEF Next, Terminated, vars, FindUser, EnforceLimit, StartSpending, FinishSpending, Deliver,
       LoadCode, LookUp, Abort, SetActive, Tick

\* The codes let sign-ins through, and are sent, by the actions named so only;
\* what was stored when a request began is noted then and never again.
LEMMA HistoryMoves ==
    ASSUME [Next]_vars
    PROVE  /\ UNCHANGED accepted \/ \E v \in SignIns : UseCode(v)
           /\ UNCHANGED delivered \/ \E r \in Requests : delivered' = delivered \cup {r}
           /\ UNCHANGED earlier \/ \E r \in Requests, m \in Mobiles : FindUser(r, m)
BY ZenonT(60) DEF Next, Terminated, vars, FindUser, EnforceLimit, StartSpending, FinishSpending, Deliver,
       Store, LoadCode, LookUp, UseCode, Abort, SetActive, Tick

\* A stored code stays, with everything but is_used as it was stored, and one
\* that is used is never unused again.  A new one is what its request stores.
LEMMA RowsStay ==
    ASSUME TypeOK, CreatedOnce, [Next]_vars
    PROVE  /\ DOMAIN otp \subseteq DOMAIN otp'
           /\ \A c \in DOMAIN otp : /\ otp'[c].mobile = otp[c].mobile
                                     /\ otp'[c].code = otp[c].code
                                     /\ otp'[c].created_at = otp[c].created_at
                                     /\ otp'[c].expires_at = otp[c].expires_at
           /\ \A c \in DOMAIN otp : otp[c].is_used => otp'[c].is_used
           /\ \A c \in DOMAIN otp' \ DOMAIN otp : /\ c \in Requests /\ Store(c)
                                                  /\ otp'[c] = NewRow(c)
<1> DEFINE Kept(t) == \A c \in DOMAIN otp : /\ t[c].mobile = otp[c].mobile
                                             /\ t[c].code = otp[c].code
                                             /\ t[c].created_at = otp[c].created_at
                                             /\ t[c].expires_at = otp[c].expires_at
              Used(t) == \A c \in DOMAIN otp : otp[c].is_used => t[c].is_used
<1>1. ASSUME NEW codes PROVE DOMAIN Spent(codes) = DOMAIN otp /\ Kept(Spent(codes)) /\ Used(Spent(codes))
  BY DEF TypeOK, RowOK, Spent
<1>2. CASE UNCHANGED otp
  BY <1>2
<1>3. ASSUME NEW r \in Requests, Store(r)
      PROVE  /\ DOMAIN otp' = DOMAIN otp \cup {r} /\ Kept(otp') /\ Used(otp')
             /\ otp'[r] = NewRow(r)
  <2>1. r \notin DOMAIN otp
    BY <1>3 DEF Store, CreatedOnce
  <2> QED
    BY <1>1, <1>3, <2>1 DEF Store, Put
<1>4. ASSUME NEW v \in SignIns, UseCode(v)
      PROVE  DOMAIN otp' = DOMAIN otp /\ Kept(otp') /\ Used(otp')
  BY <1>1, <1>4 DEF UseCode
<1> QED
  BY <1>2, <1>3, <1>4, RowsMove

\* A request stays as it is, ends, or takes the next of its steps.
LEMMA AskMoves ==
    ASSUME TypeOK, [Next]_vars, NEW r \in Requests
    PROVE  \/ ask'[r] = ask[r]
           \/ ask'[r].pc = "done" /\ ask[r].pc # "done"
           \/ \E m \in Mobiles :
                 /\ FindUser(r, m) /\ ask[r].pc = "idle"
                 /\ ask'[r] = [ask[r] EXCEPT !.pc = "known", !.mobile = m, !.began = now]
           \/ /\ EnforceLimit(r) /\ ask[r].pc = "known" /\ WithinRate(ask[r].mobile)
              /\ ask'[r] = [ask[r] EXCEPT !.pc = "within"]
           \/ /\ StartSpending(r) /\ ask[r].pc = "within"
              /\ ask'[r] = [ask[r] EXCEPT !.pc = "spending", !.spends = Unused(ask[r].mobile)]
           \/ /\ FinishSpending(r) /\ ask[r].pc = "spending"
              /\ ask'[r] = [ask[r] EXCEPT !.pc = "spent",
                                          !.spends = {c \in ask[r].spends : ~otp[c].is_used}]
           \/ /\ Deliver(r) /\ ask[r].pc = "spent" /\ delivered' = delivered \cup {r}
              /\ \E c \in Codes :
                    ask'[r] = [ask[r] EXCEPT !.pc = "sent", !.otp_code = c,
                                             !.expires_at = now + ExpireAfter]
<1>1. ASSUME NEW s \in Requests, s # r, NEW m \in Mobiles, FindUser(s, m)
      PROVE  ask'[r] = ask[r]
  BY <1>1 DEF FindUser, TypeOK
<1>2. ASSUME NEW s \in Requests, s # r,
             EnforceLimit(s) \/ StartSpending(s) \/ FinishSpending(s) \/ Deliver(s) \/ Store(s)
      PROVE  ask'[r] = ask[r]
  BY <1>2, ZenonT(60) DEF EnforceLimit, StartSpending, FinishSpending, Deliver, Drawn, Store, TypeOK
<1>3. ASSUME NEW m \in Mobiles, FindUser(r, m)
      PROVE  \/ ask'[r].pc = "done" /\ ask[r].pc # "done"
             \/ /\ ask[r].pc = "idle"
                /\ ask'[r] = [ask[r] EXCEPT !.pc = "known", !.mobile = m, !.began = now]
  BY <1>3 DEF FindUser, AskDone, AskIdle, TypeOK
<1>4. CASE EnforceLimit(r)
  BY <1>4 DEF EnforceLimit, AskDone, AskIdle, TypeOK
<1>5. CASE StartSpending(r)
  BY <1>5 DEF StartSpending, TypeOK
<1>6. CASE FinishSpending(r)
  BY <1>6 DEF FinishSpending, TypeOK
<1>7. CASE Deliver(r)
  <2>1. CASE ask' = [ask EXCEPT ![r] = AskDone(503)]
    BY <1>7, <2>1 DEF Deliver, AskDone, AskIdle, TypeOK
  <2>2. ASSUME NEW c \in Codes, ask' = Drawn(r, c), delivered' = delivered \cup {r}
        PROVE  ask'[r] = [ask[r] EXCEPT !.pc = "sent", !.otp_code = c,
                                        !.expires_at = now + ExpireAfter]
    BY <2>2 DEF Drawn, TypeOK
  <2>3. ask[r].pc = "spent"
    BY <1>7 DEF Deliver
  <2> QED
    BY <1>7, <2>1, <2>2, <2>3, ZenonT(60) DEF Deliver
<1>8. CASE Store(r)
  BY <1>8 DEF Store, AskDone, AskIdle, TypeOK
<1>9. CASE Abort
  <2>1. ASSUME NEW s \in Requests, Asking(s), ask' = [ask EXCEPT ![s] = AskDone(500)]
        PROVE  ask'[r] = ask[r] \/ (ask'[r].pc = "done" /\ ask[r].pc # "done")
    BY <2>1 DEF Asking, AskDone, AskIdle, TypeOK
  <2> QED
    BY <1>9, <2>1, ZenonT(60) DEF Abort
<1>10. CASE UNCHANGED ask
  BY <1>10
<1> QED
  BY <1>1, <1>2, <1>3, <1>4, <1>5, <1>6, <1>7, <1>8, <1>9, <1>10
  DEF Next, Terminated, vars, LoadCode, LookUp, UseCode, SetActive, Tick

\* A request that is past its rate check was at work before, for the same
\* mobile.  Its UPDATE finds the unused codes of that mobile; later it only lets
\* go of codes that are used.
LEMMA AskGoesOn ==
    ASSUME TypeOK, [Next]_vars, NEW r \in Requests,
           ask'[r].pc \in {"within", "spending", "spent", "sent"}
    PROVE  /\ Asking(r) /\ ask[r].pc # "idle" /\ ask'[r].mobile = ask[r].mobile
           /\ ask[r].pc = "known" => WithinRate(ask[r].mobile) /\ ask'[r].pc = "within"
           /\ ask[r].pc = "within" => \/ ask'[r] = ask[r]
                                     \/ ask'[r].spends = Unused(ask[r].mobile)
           /\ ask[r].pc \in {"spending", "spent", "sent"} =>
                 /\ ask'[r].pc # "within" /\ ask'[r].spends \subseteq ask[r].spends
                 /\ \A c \in ask[r].spends : otp[c].is_used \/ c \in ask'[r].spends
<1>1. DOMAIN ask[r] = DOMAIN AskIdle
  BY DEF TypeOK, AskOK
<1>2. CASE FinishSpending(r) /\ ask'[r].pc = "spent"
  <2>1. /\ ask[r].pc = "spending"
        /\ ask' = [ask EXCEPT ![r].pc = "spent",
                              ![r].spends = {c \in ask[r].spends : ~otp[c].is_used}]
    BY <1>2 DEF FinishSpending
  <2>2. /\ ask'[r].spends = {c \in ask[r].spends : ~otp[c].is_used}
        /\ ask'[r].mobile = ask[r].mobile
    BY <1>1, <2>1 DEF TypeOK, AskIdle
  <2>3. /\ ask'[r].spends \subseteq ask[r].spends
        /\ \A c \in ask[r].spends : otp[c].is_used \/ c \in ask'[r].spends
    BY <2>2
  <2> QED
    BY <1>2, <2>1, <2>2, <2>3 DEF Asking
<1>3. CASE StartSpending(r) /\ ask'[r].pc = "spending"
  <2>1. /\ ask[r].pc = "within"
        /\ ask' = [ask EXCEPT ![r].pc = "spending", ![r].spends = Unused(ask[r].mobile)]
    BY <1>3 DEF StartSpending
  <2>2. ask'[r].spends = Unused(ask[r].mobile) /\ ask'[r].mobile = ask[r].mobile
    BY <1>1, <2>1 DEF TypeOK, AskIdle
  <2> QED
    BY <2>1, <2>2 DEF Asking
<1>4. CASE \/ ask'[r] = ask[r]
           \/ /\ ask[r].pc = "known" /\ WithinRate(ask[r].mobile)
              /\ ask'[r] = [ask[r] EXCEPT !.pc = "within"]
           \/ /\ ask[r].pc = "spent"
              /\ \E c \in Codes :
                    ask'[r] = [ask[r] EXCEPT !.pc = "sent", !.otp_code = c,
                                             !.expires_at = now + ExpireAfter]
  BY <1>1, <1>4 DEF Asking, AskIdle
<1>5. \/ FinishSpending(r) /\ ask'[r].pc = "spent"
      \/ StartSpending(r) /\ ask'[r].pc = "spending"
      \/ ask'[r] = ask[r]
      \/ /\ ask[r].pc = "known" /\ WithinRate(ask[r].mobile)
         /\ ask'[r] = [ask[r] EXCEPT !.pc = "within"]
      \/ /\ ask[r].pc = "spent"
         /\ \E c \in Codes :
               ask'[r] = [ask[r] EXCEPT !.pc = "sent", !.otp_code = c,
                                        !.expires_at = now + ExpireAfter]
  <2>1. ASSUME NEW codes, ask'[r] = [ask[r] EXCEPT !.pc = "spending", !.spends = codes]
        PROVE  ask'[r].pc = "spending"
    BY <1>1, <2>1 DEF AskIdle
  <2>2. ASSUME NEW codes, ask'[r] = [ask[r] EXCEPT !.pc = "spent", !.spends = codes]
        PROVE  ask'[r].pc = "spent"
    BY <1>1, <2>2 DEF AskIdle
  <2>3. ASSUME NEW m, ask'[r] = [ask[r] EXCEPT !.pc = "known", !.mobile = m, !.began = now]
        PROVE  ask'[r].pc = "known"
    BY <1>1, <2>3 DEF AskIdle
  <2> QED
    BY <2>1, <2>2, <2>3, AskMoves
<1> QED
  BY <1>2, <1>3, <1>4, <1>5

(***************************************************************************)
(* Whatever overlaps.                                                      *)
(***************************************************************************)

\* A code is stored by the commit of its request only, after its delivery, and
\* the codes a request or a sign-in speaks of are stored ones.
THEOREM RequestsSound ==
    Spec => [](CreatedOnce /\ SentWereDelivered /\ AcceptedAreStored /\ EarlierAreStored)
<1> DEFINE Inv == CreatedOnce /\ SentWereDelivered /\ AcceptedAreStored /\ EarlierAreStored
<1>1. Init => Inv
  BY DEF Init, AskIdle, CreatedOnce, SentWereDelivered, AcceptedAreStored, EarlierAreStored
<1>2. ASSUME TypeOK, Inv, [Next]_vars PROVE Inv'
  <2>1. CreatedOnce'
    <3> SUFFICES ASSUME NEW c \in DOMAIN otp' PROVE ask'[c].pc = "done"
      BY DEF CreatedOnce
    <3>1. CASE c \in DOMAIN otp
      <4>1. c \in Requests /\ ask[c].pc = "done"
        BY <1>2, <3>1 DEF CreatedOnce, TypeOK
      <4> QED
        BY <1>2, <4>1, AskMoves
    <3>2. CASE c \notin DOMAIN otp
      <4>1. c \in Requests /\ Store(c)
        BY <1>2, <3>2, RowsStay
      <4> QED
        BY <1>2, <4>1 DEF Store, AskDone, AskIdle, TypeOK
    <3> QED
      BY <3>1, <3>2
  <2>2. SentWereDelivered'
    <3>1. delivered \subseteq delivered'
      BY <1>2, HistoryMoves
    <3>2. ASSUME NEW r \in Requests, ask'[r].pc = "sent" PROVE r \in delivered'
      <4>1. ask[r].pc = "sent" \/ delivered' = delivered \cup {r}
        <5>1. DOMAIN ask[r] = DOMAIN AskIdle
          BY <1>2 DEF TypeOK, AskOK
        <5> QED
          BY <1>2, <3>2, <5>1, AskMoves DEF AskIdle
      <4> QED
        BY <1>2, <3>1, <4>1 DEF SentWereDelivered
    <3> QED
      BY <3>2 DEF SentWereDelivered
  <2>3. AcceptedAreStored'
    <3>1. DOMAIN otp \subseteq DOMAIN otp'
      BY <1>2, RowsStay
    <3>2. ASSUME NEW v \in SignIns, UseCode(v) PROVE AcceptedAreStored'
      <4>1. sign[v].row \in DOMAIN otp
        BY <1>2, <3>2 DEF TypeOK, SignOK, UseCode
      <4> QED
        BY <1>2, <3>1, <3>2, <4>1 DEF UseCode, TypeOK, AcceptedAreStored
    <3> QED
      BY <1>2, <3>1, <3>2, HistoryMoves DEF AcceptedAreStored
  <2>4. EarlierAreStored'
    <3>1. DOMAIN otp \subseteq DOMAIN otp'
      BY <1>2, RowsStay
    <3>2. ASSUME NEW r \in Requests, NEW m \in Mobiles, FindUser(r, m) PROVE EarlierAreStored'
      BY <1>2, <3>1, <3>2 DEF FindUser, TypeOK, EarlierAreStored
    <3> QED
      BY <1>2, <3>1, <3>2, HistoryMoves DEF EarlierAreStored
  <2> QED
    BY <2>1, <2>2, <2>3, <2>4
<1> QED
  BY <1>1, <1>2, TypeCorrect, PTL DEF Spec

\* No code can be used that the provider did not report as sent.
THEOREM OnlySentStored == Spec => []StoredWereSent
<1>1. Init => StoredWereSent
  BY DEF Init, StoredWereSent
<1>2. ASSUME TypeOK, CreatedOnce, SentWereDelivered, StoredWereSent, [Next]_vars
      PROVE  StoredWereSent'
  <2>1. delivered \subseteq delivered'
    BY <1>2, HistoryMoves
  <2>2. \A c \in DOMAIN otp' \ DOMAIN otp : c \in delivered
    BY <1>2, RowsStay DEF Store, SentWereDelivered
  <2> QED
    BY <1>2, <2>1, <2>2 DEF StoredWereSent
<1> QED
  BY <1>1, <1>2, TypeCorrect, RequestsSound, PTL DEF Spec

\* A code that let a sign-in through is used, and stays so.
THEOREM AcceptedUsed == Spec => []AcceptedAreUsed
<1>1. Init => AcceptedAreUsed
  BY DEF Init, AcceptedAreUsed
<1>2. ASSUME TypeOK, CreatedOnce, AcceptedAreStored, AcceptedAreUsed, [Next]_vars
      PROVE  AcceptedAreUsed'
  <2>1. ASSUME NEW c \in DOMAIN otp', accepted[c] # {} PROVE otp'[c].is_used
    <3>1. c \in DOMAIN otp
      BY <1>2, <2>1, RowsStay DEF AcceptedAreStored
    <3>2. otp[c].is_used
      BY <1>2, <2>1, <3>1 DEF AcceptedAreUsed
    <3>3. otp[c].is_used => otp'[c].is_used
      BY <1>2, <3>1, RowsStay
    <3> QED
      BY <3>2, <3>3
  <2>2. ASSUME NEW v \in SignIns, UseCode(v), NEW c \in DOMAIN otp', accepted'[c] # accepted[c]
        PROVE  otp'[c].is_used
    <3>1. sign[v].row \in DOMAIN otp /\ otp' = Spent({sign[v].row})
      BY <1>2, <2>2 DEF UseCode, TypeOK, SignOK
    <3>2. c \in Requests /\ c \in DOMAIN otp
      BY <1>2, <2>2, <3>1, SpentRows DEF TypeOK
    <3>3. c = sign[v].row
      BY <1>2, <2>2, <3>2 DEF UseCode, TypeOK
    <3> QED
      BY <1>2, <3>1, <3>2, <3>3 DEF Spent, TypeOK, RowOK
  <2> QED
    BY <1>2, <2>1, <2>2, HistoryMoves DEF AcceptedAreUsed
<1> QED
  BY <1>1, <1>2, TypeCorrect, RequestsSound, PTL DEF Spec

\* What was stored when a request began is noted once.
LEMMA EarlierStays ==
    ASSUME TypeOK, [Next]_vars, NEW r \in Requests, ask[r].pc # "idle"
    PROVE  earlier'[r] = earlier[r]
<1>1. ASSUME NEW s \in Requests, NEW m \in Mobiles, FindUser(s, m)
      PROVE  s # r /\ earlier' = [earlier EXCEPT ![s] = DOMAIN otp]
  BY <1>1 DEF FindUser
<1> QED
  BY <1>1, HistoryMoves DEF TypeOK

\* A request whose UPDATE has begun spends every earlier code of its mobile that
\* is still unused.
THEOREM SpendsAll == Spec => []SpendsEarlier
<1>1. Init => SpendsEarlier
  BY DEF Init, AskIdle, SpendsEarlier
<1>2. ASSUME TypeOK, CreatedOnce, EarlierAreStored, SpendsEarlier, [Next]_vars
      PROVE  SpendsEarlier'
  <2> SUFFICES ASSUME NEW r \in Requests, ask'[r].pc \in {"spending", "spent", "sent"},
                      NEW c \in earlier'[r], c \in Unused(ask[r].mobile)'
               PROVE  c \in ask'[r].spends
    BY DEF SpendsEarlier
  <2>1. /\ Asking(r) /\ ask[r].pc # "idle" /\ ask'[r].mobile = ask[r].mobile
        /\ ask[r].pc # "known"
    BY <1>2, AskGoesOn
  <2>2. c \in earlier[r] /\ c \in DOMAIN otp
    BY <1>2, <2>1, EarlierStays DEF EarlierAreStored
  <2>3. otp[c].mobile = ask[r].mobile /\ ~otp[c].is_used
    <3>1. otp'[c].mobile = ask[r].mobile /\ ~otp'[c].is_used
      BY <2>1 DEF Unused
    <3>2. otp'[c].mobile = otp[c].mobile
      BY <1>2, <2>2, RowsStay
    <3>3. otp[c].is_used => otp'[c].is_used
      BY <1>2, <2>2, RowsStay
    <3> QED
      BY <3>1, <3>2, <3>3
  <2>4. c \in Unused(ask[r].mobile)
    BY <2>2, <2>3 DEF Unused
  <2>5. CASE ask[r].pc = "within"
    BY <1>2, <2>4, <2>5, AskGoesOn
  <2>6. CASE ask[r].pc \in {"spending", "spent", "sent"}
    <3>1. c \in ask[r].spends
      BY <1>2, <2>2, <2>4, <2>6 DEF SpendsEarlier
    <3>2. otp[c].is_used \/ c \in ask'[r].spends
      BY <1>2, <2>6, <3>1, AskGoesOn
    <3> QED
      BY <2>3, <3>2
  <2> QED
    BY <2>1, <2>5, <2>6 DEF Asking
<1> QED
  BY <1>1, <1>2, TypeCorrect, RequestsSound, PTL DEF Spec

\* Of two unused codes of a mobile neither was stored when the other's request
\* began: that request would have spent it.
THEOREM UnusedOnlyByOverlap == Spec => []UnusedOverlapped
<1>1. Init => UnusedOverlapped
  BY DEF Init, Unused, UnusedOverlapped
<1>2. ASSUME TypeOK, CreatedOnce, EarlierAreStored, SpendsEarlier, UnusedOverlapped, [Next]_vars
      PROVE  UnusedOverlapped'
  <2> SUFFICES ASSUME NEW m \in Mobiles, NEW c \in Unused(m)', NEW d \in Unused(m)',
                      c # d, c \in earlier'[d]
               PROVE  FALSE
    BY DEF UnusedOverlapped
  <2>1. /\ c \in DOMAIN otp' /\ otp'[c].mobile = m /\ ~otp'[c].is_used
        /\ d \in DOMAIN otp' /\ otp'[d].mobile = m /\ ~otp'[d].is_used
    BY DEF Unused
  <2>2. ASSUME NEW e \in DOMAIN otp, e \in Unused(m)' PROVE e \in Unused(m)
    <3>1. otp[e].is_used => otp'[e].is_used
      BY <1>2, RowsStay
    <3>2. otp'[e].mobile = otp[e].mobile
      BY <1>2, RowsStay
    <3> QED
      BY <2>2, <3>1, <3>2 DEF Unused
  <2>3. CASE d \in DOMAIN otp
    <3>1. d \in Requests /\ ask[d].pc = "done"
      BY <1>2, <2>3 DEF CreatedOnce, TypeOK
    <3>2. c \in earlier[d]
      BY <1>2, <3>1, EarlierStays
    <3>3. c \in DOMAIN otp
      BY <1>2, <3>1, <3>2 DEF EarlierAreStored
    <3> QED
      BY <1>2, <2>2, <2>3, <3>2, <3>3 DEF UnusedOverlapped
  <2>4. CASE d \notin DOMAIN otp
    <3>1. d \in Requests /\ Store(d) /\ otp'[d] = NewRow(d)
      BY <1>2, <2>1, <2>4, RowsStay
    <3>2. ask[d].pc = "sent" /\ ask[d].mobile = m
      BY <2>1, <3>1 DEF Store, NewRow
    <3>3. c \in earlier[d]
      BY <1>2, <3>1, <3>2, EarlierStays
    <3>4. c \in DOMAIN otp
      BY <1>2, <3>1, <3>3 DEF EarlierAreStored
    <3>5. c \in ask[d].spends
      BY <1>2, <2>2, <3>1, <3>2, <3>3, <3>4 DEF SpendsEarlier
    <3>6. otp' = Put(Spent(ask[d].spends), d, NewRow(d))
      BY <3>1 DEF Store
    <3>7. otp'[c] = [otp[c] EXCEPT !.is_used = TRUE]
      BY <3>4, <3>5, <3>6 DEF Put, Spent
    <3> QED
      BY <1>2, <2>1, <3>4, <3>7 DEF TypeOK, RowOK
  <2> QED
    BY <2>3, <2>4
<1> QED
  BY <1>1, <1>2, TypeCorrect, RequestsSound, SpendsAll, PTL DEF Spec

\* The clock stands still or goes on by one.
LEMMA ClockMoves ==
    ASSUME [Next]_vars
    PROVE  now' = now \/ now' = now + 1
BY DEF Next, Terminated, vars, FindUser, EnforceLimit, StartSpending, FinishSpending, Deliver,
       Store, LoadCode, LookUp, UseCode, Abort, SetActive, Tick

\* The codes that count for a request's rate limit only get fewer with time.
LEMMA FewerCount ==
    ASSUME TypeOK, NEW S, NEW T, S \subseteq T, T \subseteq DOMAIN otp, Cardinality(T) < Limit
    PROVE  Cardinality(S) < Limit
<1>1. IsFiniteSet(DOMAIN otp)
  BY RequestsAssumption, FS_Subset DEF TypeOK
<1>2. IsFiniteSet(T) /\ IsFiniteSet(S) /\ Cardinality(S) <= Cardinality(T)
  BY <1>1, FS_Subset
<1>3. Cardinality(S) \in Nat /\ Cardinality(T) \in Nat
  BY <1>2, FS_CardinalityType
<1> QED
  BY <1>2, <1>3, SettingsAssumption

\* A request past its rate check has fewer earlier codes in the window than the
\* limit, whatever other requests store meanwhile.
THEOREM CountsEarlier == Spec => []CountedWithinLimit
<1>1. Init => CountedWithinLimit
  BY DEF Init, AskIdle, CountedWithinLimit
<1>2. ASSUME TypeOK, CreatedOnce, EarlierAreStored, CountedWithinLimit, [Next]_vars
      PROVE  CountedWithinLimit'
  <2> SUFFICES ASSUME NEW r \in Requests
               PROVE  /\ ask'[r].pc \in {"within", "spending", "spent"} =>
                            Cardinality(Counted(r, now)') < Limit
                      /\ ask'[r].pc = "sent" =>
                            Cardinality(Counted(r, ask[r].expires_at - ExpireAfter)') < Limit
    BY DEF CountedWithinLimit
  <2>1. DOMAIN ask[r] = DOMAIN AskIdle
    BY <1>2 DEF TypeOK, AskOK
  <2>2. now \in Nat /\ now' \in Nat /\ now <= now'
    BY <1>2, ClockMoves DEF TypeOK
  <2>3. ASSUME ask[r].pc \in {"known", "within", "spending", "spent", "sent"},
               ask'[r].mobile = ask[r].mobile, NEW t \in Int, NEW u \in Int, t <= u
        PROVE  Counted(r, u)' \subseteq Counted(r, t) /\ Counted(r, t) \subseteq DOMAIN otp
    <3>1. earlier'[r] = earlier[r] /\ earlier[r] \subseteq DOMAIN otp
      BY <1>2, <2>3, EarlierStays DEF EarlierAreStored
    <3>2. \A d \in earlier[r] : /\ otp'[d].mobile = otp[d].mobile
                                /\ otp'[d].created_at = otp[d].created_at
                                /\ otp[d].created_at \in Nat
      BY <1>2, <3>1, RowsStay DEF TypeOK, RowOK
    <3> QED
      BY <2>3, <3>1, <3>2, SettingsAssumption DEF Counted
  <2>4. CASE ask'[r].pc \in {"within", "spending", "spent"}
    <3>1. /\ ask[r].pc \in {"known", "within", "spending", "spent"}
          /\ ask'[r].mobile = ask[r].mobile
          /\ ask[r].pc = "known" => WithinRate(ask[r].mobile)
      BY <1>2, <2>1, <2>4, AskMoves, ZenonT(60) DEF AskIdle
    <3>2. Cardinality(Counted(r, now)) < Limit
      <4>1. CASE ask[r].pc = "known"
        <5>1. Counted(r, now) \subseteq Recent(ask[r].mobile)
          BY <1>2 DEF Counted, Recent, EarlierAreStored
        <5>2. Recent(ask[r].mobile) \subseteq DOMAIN otp
          BY DEF Recent
        <5> QED
          BY <1>2, <3>1, <4>1, <5>1, <5>2, FewerCount DEF WithinRate
      <4>2. CASE ask[r].pc # "known"
        BY <1>2, <3>1, <4>2 DEF CountedWithinLimit
      <4> QED
        BY <4>1, <4>2
    <3> DEFINE S == Counted(r, now)'
    <3>3. S \subseteq Counted(r, now) /\ Counted(r, now) \subseteq DOMAIN otp
      BY <2>2, <2>3, <3>1 DEF Counted
    <3> HIDE DEF S
    <3>4. Cardinality(S) < Limit
      BY <1>2, <3>2, <3>3, FewerCount
    <3> QED
      BY <2>4, <3>4 DEF S
  <2>5. CASE ask'[r].pc = "sent"
    <3> DEFINE t == ask'[r].expires_at - ExpireAfter
    <3>1. /\ ask[r].pc \in {"spent", "sent"} /\ ask'[r].mobile = ask[r].mobile
          /\ ask[r].pc = "spent" => ask'[r].expires_at = now + ExpireAfter
          /\ ask[r].pc = "sent" => ask'[r].expires_at = ask[r].expires_at
      BY <1>2, <2>1, <2>5, AskMoves DEF AskIdle
    <3>2. Cardinality(Counted(r, t)) < Limit
      <4>1. CASE ask[r].pc = "spent"
        <5>1. t = now
          BY <2>2, <3>1, <4>1, SettingsAssumption
        <5> QED
          BY <1>2, <4>1, <5>1 DEF CountedWithinLimit
      <4>2. CASE ask[r].pc = "sent"
        BY <1>2, <3>1, <4>2 DEF CountedWithinLimit
      <4> QED
        BY <3>1, <4>1, <4>2
    <3> DEFINE S == Counted(r, ask[r].expires_at - ExpireAfter)'
    <3>3. t \in Int
      BY <1>2, <2>1, <2>2, <3>1, SettingsAssumption DEF TypeOK, AskOK
    <3>4. S \subseteq Counted(r, t) /\ Counted(r, t) \subseteq DOMAIN otp
      BY <2>3, <3>1, <3>3 DEF Counted
    <3> HIDE DEF S, t
    <3>5. Cardinality(S) < Limit
      BY <1>2, <3>2, <3>4, FewerCount
    <3> QED
      BY <2>5, <3>5 DEF S
  <2> QED
    BY <2>4, <2>5
<1> QED
  BY <1>1, <1>2, TypeCorrect, RequestsSound, PTL DEF Spec

\* The rate limit holds of the codes that were stored when a request began.
THEOREM LimitHolds == Spec => []LimitCountsEarlier
<1>1. Init => LimitCountsEarlier
  BY DEF Init, LimitCountsEarlier
<1>2. ASSUME TypeOK, CreatedOnce, EarlierAreStored, CountedWithinLimit, LimitCountsEarlier,
             [Next]_vars
      PROVE  LimitCountsEarlier'
  <2> DEFINE InLimit(c) ==
               {d \in earlier[c] : /\ otp[d].mobile = otp[c].mobile
                                   /\ otp[d].created_at + Window >= otp[c].expires_at - ExpireAfter}
  <2> SUFFICES ASSUME NEW c \in DOMAIN otp' PROVE Cardinality(InLimit(c)') < Limit
    BY DEF LimitCountsEarlier
  <2>1. ASSUME NEW r \in Requests, ask[r].pc # "idle"
        PROVE  /\ earlier'[r] = earlier[r] /\ earlier[r] \subseteq DOMAIN otp
               /\ \A d \in earlier[r] : /\ otp'[d].mobile = otp[d].mobile
                                         /\ otp'[d].created_at = otp[d].created_at
    BY <1>2, <2>1, EarlierStays, RowsStay DEF EarlierAreStored
  <2>2. CASE c \in DOMAIN otp
    <3>1. c \in Requests /\ ask[c].pc = "done"
      BY <1>2, <2>2 DEF CreatedOnce, TypeOK
    <3>2. otp'[c].mobile = otp[c].mobile /\ otp'[c].expires_at = otp[c].expires_at
      BY <1>2, <2>2, RowsStay
    <3>3. InLimit(c)' = InLimit(c)
      BY <2>1, <3>1, <3>2
    <3>4. Cardinality(InLimit(c)) < Limit
      BY <1>2, <2>2 DEF LimitCountsEarlier
    <3> HIDE DEF InLimit
    <3> QED
      BY <3>3, <3>4
  <2>3. CASE c \notin DOMAIN otp
    <3>1. c \in Requests /\ Store(c) /\ otp'[c] = NewRow(c)
      BY <1>2, <2>3, RowsStay
    <3>2. /\ ask[c].pc = "sent" /\ otp'[c].mobile = ask[c].mobile
          /\ otp'[c].expires_at = ask[c].expires_at
      BY <3>1 DEF Store, NewRow
    <3>3. InLimit(c)' = Counted(c, ask[c].expires_at - ExpireAfter)
      BY <2>1, <3>1, <3>2 DEF Counted
    <3>4. Cardinality(Counted(c, ask[c].expires_at - ExpireAfter)) < Limit
      BY <1>2, <3>1, <3>2 DEF CountedWithinLimit
    <3> HIDE DEF InLimit
    <3> QED
      BY <3>3, <3>4
  <2> QED
    BY <2>2, <2>3
<1> QED
  BY <1>1, <1>2, TypeCorrect, RequestsSound, CountsEarlier, PTL DEF Spec

(***************************************************************************)
(* The mobiles on which nothing overlaps.                                  *)
(***************************************************************************)

\* A sign-in stays as it is, ends, loads a code, or looks its user up.
LEMMA SignMoves ==
    ASSUME TypeOK, [Next]_vars, NEW v \in SignIns
    PROVE  \/ sign'[v] = sign[v]
           \/ sign'[v].pc = "done"
           \/ \E m \in Mobiles : \E c \in Latest(m) :
                 /\ MayStart(m) /\ UNCHANGED <<otp, ask>>
                 /\ sign'[v] = [sign[v] EXCEPT !.pc = "matched", !.mobile = m, !.row = c]
                 /\ \A w \in SignIns : w # v => sign'[w] = sign[w]
           \/ /\ LookUp(v) /\ sign[v].pc = "matched"
              /\ \E pc \in {"member", "stranger"} : sign'[v] = [sign[v] EXCEPT !.pc = pc]
<1>1. ASSUME NEW w \in SignIns, w # v, NEW s, sign' = [sign EXCEPT ![w] = s]
      PROVE  sign'[v] = sign[v]
  BY <1>1 DEF TypeOK
<1>2. ASSUME NEW w \in SignIns, NEW m \in Mobiles, NEW code \in Entered, LoadCode(w, m, code)
      PROVE  \/ sign'[v] = sign[v] \/ sign'[v].pc = "done"
             \/ \E c \in Latest(m) :
                   /\ MayStart(m) /\ UNCHANGED <<otp, ask>>
                   /\ sign'[v] = [sign[v] EXCEPT !.pc = "matched", !.mobile = m, !.row = c]
                   /\ \A u \in SignIns : u # v => sign'[u] = sign[u]
  <2>1. CASE sign' = [sign EXCEPT ![w] = SignDone(400)]
    BY <2>1 DEF SignDone, SignIdle, TypeOK
  <2>2. ASSUME NEW c \in Latest(m),
               sign' = [sign EXCEPT ![w] = [sign[w] EXCEPT !.pc = "matched", !.mobile = m, !.row = c]]
        PROVE  \/ sign'[v] = sign[v]
               \/ /\ sign'[v] = [sign[v] EXCEPT !.pc = "matched", !.mobile = m, !.row = c]
                  /\ \A u \in SignIns : u # v => sign'[u] = sign[u]
    BY <2>2 DEF TypeOK
  <2> QED
    BY <1>2, <2>1, <2>2, ZenonT(60) DEF LoadCode
<1>3. ASSUME NEW w \in SignIns, LookUp(w)
      PROVE  \/ sign'[v] = sign[v]
             \/ /\ w = v /\ sign[v].pc = "matched"
                /\ \E pc \in {"member", "stranger"} : sign'[v] = [sign[v] EXCEPT !.pc = pc]
  BY <1>3 DEF LookUp, TypeOK
<1>4. ASSUME NEW w \in SignIns, NEW code, sign' = [sign EXCEPT ![w] = SignDone(code)]
      PROVE  sign'[v] = sign[v] \/ sign'[v].pc = "done"
  BY <1>4 DEF SignDone, SignIdle, TypeOK
<1>5. ASSUME NEW w \in SignIns, UseCode(w) PROVE sign'[v] = sign[v] \/ sign'[v].pc = "done"
  BY <1>4, <1>5, ZenonT(60) DEF UseCode
<1>6. CASE UNCHANGED sign \/ Abort
  BY <1>4, <1>6, ZenonT(60) DEF Abort
<1> QED
  BY <1>2, <1>3, <1>5, <1>6
  DEF Next, Terminated, vars, FindUser, EnforceLimit, StartSpending, FinishSpending, Deliver,
      Store, SetActive, Tick

\* At most one of the requests and sign-ins moves in a step.
LEMMA OneMoves ==
    ASSUME TypeOK, [Next]_vars
    PROVE  /\ \A r, s \in Requests : r # s => ask'[r] = ask[r] \/ ask'[s] = ask[s]
           /\ UNCHANGED ask \/ UNCHANGED sign
<1>1. ASSUME NEW t \in Requests, NEW a, ask' = [ask EXCEPT ![t] = a], UNCHANGED sign
      PROVE  \A r, s \in Requests : r # s => ask'[r] = ask[r] \/ ask'[s] = ask[s]
  BY <1>1 DEF TypeOK
<1>2. ASSUME NEW t \in Requests,
             \/ \E m \in Mobiles : FindUser(t, m)
             \/ EnforceLimit(t) \/ StartSpending(t) \/ FinishSpending(t) \/ Deliver(t) \/ Store(t)
      PROVE  UNCHANGED sign /\ \A s \in Requests : s # t => ask'[s] = ask[s]
  BY <1>2, ZenonT(60) DEF FindUser, EnforceLimit, StartSpending, FinishSpending, Deliver, Drawn, Store, TypeOK
<1>3. CASE Abort
  BY <1>1, <1>3 DEF Abort
<1> QED
  BY <1>2, <1>3 DEF Next, Terminated, vars, LoadCode, LookUp, UseCode, SetActive, Tick

\* While no request for a mobile stores its code and no sign-in on it commits,
\* the codes of that mobile stay as they are.
LEMMA CodesStay ==
    ASSUME TypeOK, CreatedOnce, OwnCodesOnly, [Next]_vars, NEW m \in Mobiles,
           \A r \in Requests : Store(r) => ask[r].mobile # m,
           \A v \in SignIns : UseCode(v) => sign[v].mobile # m
    PROVE  /\ {c \in DOMAIN otp' : otp'[c].mobile = m} = {c \in DOMAIN otp : otp[c].mobile = m}
           /\ \A c \in DOMAIN otp : otp[c].mobile = m => otp'[c] = otp[c]
<1>1. ASSUME NEW codes, \A c \in codes : otp[c].mobile # m, NEW c \in DOMAIN otp
      PROVE  /\ Spent(codes)[c].mobile = otp[c].mobile
             /\ otp[c].mobile = m => Spent(codes)[c] = otp[c]
  BY <1>1 DEF Spent, TypeOK, RowOK
<1>2. ASSUME NEW r \in Requests, Store(r)
      PROVE  /\ {c \in DOMAIN otp' : otp'[c].mobile = m} = {c \in DOMAIN otp : otp[c].mobile = m}
             /\ \A c \in DOMAIN otp : otp[c].mobile = m => otp'[c] = otp[c]
  <2>1. /\ ask[r].pc = "sent" /\ r \notin DOMAIN otp /\ ask[r].mobile # m
        /\ otp' = Put(Spent(ask[r].spends), r, NewRow(r))
    BY <1>2 DEF Store, CreatedOnce
  <2>2. \A c \in ask[r].spends : otp[c].mobile # m
    BY <1>2, <2>1 DEF OwnCodesOnly
  <2>3. /\ DOMAIN otp' = DOMAIN otp \cup {r} /\ otp'[r].mobile # m
        /\ \A c \in DOMAIN otp : otp'[c] = Spent(ask[r].spends)[c]
    BY <2>1 DEF Put, Spent, NewRow
  <2> QED
    BY <1>1, <2>2, <2>3
<1>3. ASSUME NEW v \in SignIns, UseCode(v)
      PROVE  /\ {c \in DOMAIN otp' : otp'[c].mobile = m} = {c \in DOMAIN otp : otp[c].mobile = m}
             /\ \A c \in DOMAIN otp : otp[c].mobile = m => otp'[c] = otp[c]
  <2>1. otp' = Spent({sign[v].row}) /\ otp[sign[v].row].mobile # m
    BY <1>3 DEF UseCode, OwnCodesOnly, Signing
  <2>2. DOMAIN otp' = DOMAIN otp
    BY <2>1, SpentRows
  <2> QED
    BY <1>1, <2>1, <2>2
<1> QED
  BY <1>2, <1>3, RowsMove

\* A request or a sign-in that starts on a calm mobile finds nothing at work.
THEOREM NothingOverlaps == Spec => []OneAtWork
<1>1. Init => OneAtWork
  BY DEF Init, AskIdle, SignIdle, Asking, Signing, OneAtWork
<1>2. ASSUME TypeOK, OneAtWork, [Next]_vars PROVE OneAtWork'
  <2> DEFINE OnAsk(r, m) == Asking(r) /\ ask[r].mobile = m
             OnSign(v, m) == Signing(v) /\ sign[v].mobile = m
  <2>1. ASSUME NEW m \in Calm, NEW r \in Requests, OnAsk(r, m)'
        PROVE  \/ OnAsk(r, m)
               \/ FindUser(r, m) /\ MayStart(m) /\ ask'[r] # ask[r]
    <3>1. DOMAIN ask[r] = DOMAIN AskIdle
      BY <1>2 DEF TypeOK, AskOK
    <3>2. ASSUME NEW n \in Mobiles, FindUser(r, n), ask[r].pc = "idle",
                 ask'[r] = [ask[r] EXCEPT !.pc = "known", !.mobile = n, !.began = now]
          PROVE  FindUser(r, m) /\ MayStart(m) /\ ask'[r] # ask[r]
      <4>1. ask'[r].mobile = n /\ ask'[r].pc = "known"
        BY <3>1, <3>2 DEF AskIdle
      <4> QED
        BY <2>1, <3>2, <4>1, ZenonT(60) DEF FindUser
    <3>3. ASSUME ask[r].pc \in {"known", "within", "spending", "spent"},
                 ask'[r].mobile = ask[r].mobile
          PROVE  OnAsk(r, m)
      BY <2>1, <3>3 DEF Asking
    <3>4. ask'[r].pc # "done"
      BY <2>1 DEF Asking
    <3> HIDE DEF OnAsk
    <3>5. ask'[r] = ask[r] => OnAsk(r, m)
      BY <2>1 DEF OnAsk, Asking
    <3> QED
      BY <1>2, <3>1, <3>2, <3>3, <3>4, <3>5, AskMoves, ZenonT(60) DEF AskIdle
  <2>2. ASSUME NEW m \in Calm, NEW v \in SignIns, OnSign(v, m)'
        PROVE  \/ OnSign(v, m)
               \/ /\ MayStart(m) /\ UNCHANGED ask
                  /\ \A w \in SignIns : w # v => sign'[w] = sign[w]
    <3>1. DOMAIN sign[v] = DOMAIN SignIdle
      BY <1>2 DEF TypeOK, SignOK
    <3> QED
      BY <1>2, <2>2, <3>1, SignMoves DEF SignIdle, Signing
  <2>3. ASSUME NEW m \in Calm, MayStart(m)
        PROVE  /\ \A r \in Requests : ~OnAsk(r, m)
               /\ \A v \in SignIns : ~OnSign(v, m)
    BY <2>3 DEF MayStart, Calm
  <2>4. ASSUME NEW m \in Calm, NEW r \in Requests, NEW s \in Requests, r # s,
               OnAsk(r, m)', OnAsk(s, m)'
        PROVE  FALSE
    BY <1>2, <2>1, <2>3, <2>4, OneMoves DEF OneAtWork
  <2>5. ASSUME NEW m \in Calm, NEW v \in SignIns, NEW w \in SignIns, v # w,
               OnSign(v, m)', OnSign(w, m)'
        PROVE  FALSE
    BY <1>2, <2>2, <2>3, <2>5 DEF OneAtWork, Signing
  <2>6. ASSUME NEW m \in Calm, NEW r \in Requests, NEW v \in SignIns, OnAsk(r, m)', OnSign(v, m)'
        PROVE  FALSE
    <3>1. CASE UNCHANGED ask
      <4>1. OnAsk(r, m)
        BY <2>6, <3>1 DEF Asking
      <4>2. ~MayStart(m)
        BY <2>3, <4>1
      <4> QED
        BY <1>2, <2>2, <2>6, <4>1, <4>2 DEF OneAtWork
    <3>2. CASE UNCHANGED sign
      <4>1. OnSign(v, m)
        BY <2>6, <3>2 DEF Signing
      <4>2. ~MayStart(m)
        BY <2>3, <4>1
      <4> QED
        BY <1>2, <2>1, <2>6, <4>1, <4>2 DEF OneAtWork
    <3> QED
      BY <1>2, <3>1, <3>2, OneMoves
  <2> QED
    BY <2>4, <2>5, <2>6 DEF OneAtWork
<1> QED
  BY <1>1, <1>2, TypeCorrect, PTL DEF Spec

\* Requests and sign-ins touch codes of their own mobile only.
THEOREM OwnCodes == Spec => []OwnCodesOnly
<1>1. Init => OwnCodesOnly
  BY DEF Init, AskIdle, SignIdle, Asking, Signing, OwnCodesOnly
<1>2. ASSUME TypeOK, CreatedOnce, OwnCodesOnly, [Next]_vars PROVE OwnCodesOnly'
  <2>1. ASSUME NEW r \in Requests
        PROVE  /\ Asking(r)' => ask'[r].began <= now'
               /\ ask'[r].pc \in {"spending", "spent", "sent"} =>
                     \A c \in ask'[r].spends : otp'[c].mobile = ask'[r].mobile
    <3>1. DOMAIN ask[r] = DOMAIN AskIdle /\ (Asking(r) => ask[r].began \in Nat)
      BY <1>2 DEF TypeOK, AskOK, Asking
    <3>2. now \in Nat /\ now <= now' /\ now' \in Nat
      BY <1>2, ClockMoves DEF TypeOK
    <3>3. Asking(r)' => ask'[r].began <= now'
      <4>1. Asking(r)' => \/ Asking(r) /\ ask'[r].began = ask[r].began
                          \/ ask'[r].began = now
        BY <1>2, <3>1, AskMoves DEF AskIdle, Asking
      <4> QED
        BY <1>2, <3>1, <3>2, <4>1 DEF OwnCodesOnly
    <3>4. ASSUME ask'[r].pc \in {"spending", "spent", "sent"}, NEW c \in ask'[r].spends
          PROVE  otp'[c].mobile = ask'[r].mobile
      <4>1. /\ ask'[r].mobile = ask[r].mobile
            /\ \/ c \in Unused(ask[r].mobile)
               \/ ask[r].pc \in {"spending", "spent", "sent"} /\ c \in ask[r].spends
        BY <1>2, <3>4, AskGoesOn DEF Asking
      <4>2. c \in DOMAIN otp /\ otp[c].mobile = ask[r].mobile
        BY <1>2, <4>1 DEF OwnCodesOnly, Unused, TypeOK, AskOK
      <4> QED
        BY <1>2, <4>1, <4>2, RowsStay
    <3> QED
      BY <3>3, <3>4
  <2>2. ASSUME NEW v \in SignIns, Signing(v)' PROVE otp'[sign'[v].row].mobile = sign'[v].mobile
    <3>1. DOMAIN sign[v] = DOMAIN SignIdle /\ (Signing(v) => sign[v].row \in DOMAIN otp)
      BY <1>2 DEF TypeOK, SignOK, Signing
    <3>2. \/ \E m \in Mobiles : sign'[v].mobile = m /\ sign'[v].row \in Latest(m)
          \/ /\ Signing(v) /\ sign'[v].mobile = sign[v].mobile
             /\ sign'[v].row = sign[v].row
      <4>1. ASSUME NEW m \in Mobiles, NEW c \in Latest(m),
                   sign'[v] = [sign[v] EXCEPT !.pc = "matched", !.mobile = m, !.row = c]
            PROVE  sign'[v].mobile = m /\ sign'[v].row \in Latest(m)
        BY <3>1, <4>1 DEF SignIdle
      <4>2. ASSUME sign[v].pc = "matched", NEW pc, sign'[v] = [sign[v] EXCEPT !.pc = pc]
            PROVE  Signing(v) /\ sign'[v].mobile = sign[v].mobile /\ sign'[v].row = sign[v].row
        BY <3>1, <4>2 DEF SignIdle, Signing
      <4>3. CASE sign'[v] = sign[v]
        BY <2>2, <4>3 DEF Signing
      <4>4. sign'[v].pc # "done"
        BY <2>2 DEF Signing
      <4> QED
        BY <1>2, <4>1, <4>2, <4>3, <4>4, SignMoves
    <3>3. sign'[v].row \in DOMAIN otp /\ otp[sign'[v].row].mobile = sign'[v].mobile
      BY <1>2, <3>1, <3>2 DEF OwnCodesOnly, Latest, Unused
    <3> QED
      BY <1>2, <3>3, RowsStay
  <2> QED
    BY <2>1, <2>2 DEF OwnCodesOnly
<1> QED
  BY <1>1, <1>2, TypeCorrect, RequestsSound, PTL DEF Spec

\* What is at work on a calm mobile, and goes on, sees its codes stay as they are.
LEMMA AloneCodesStay ==
    ASSUME TypeOK, CreatedOnce, OwnCodesOnly, OneAtWork, [Next]_vars, NEW m \in Calm,
           \/ \E r \in Requests : Asking(r) /\ ask[r].mobile = m /\ Asking(r)'
           \/ \E v \in SignIns : Signing(v) /\ sign[v].mobile = m /\ Signing(v)'
    PROVE  /\ Unused(m)' = Unused(m)
           /\ Recent(m)' \subseteq Recent(m)
<1>1. ASSUME NEW r \in Requests, Store(r) PROVE ask[r].mobile # m
  <2>1. Asking(r) /\ ~Asking(r)' /\ UNCHANGED sign
    BY <1>1 DEF Store, Asking, AskDone, AskIdle, TypeOK
  <2> QED
    BY <2>1 DEF OneAtWork
<1>2. ASSUME NEW v \in SignIns, UseCode(v) PROVE sign[v].mobile # m
  <2>1. Signing(v) /\ ~Signing(v)'
    BY <1>2 DEF UseCode, Signing, SignDone, SignIdle, TypeOK
  <2> QED
    BY <2>1 DEF OneAtWork
<1>3. /\ {c \in DOMAIN otp' : otp'[c].mobile = m} = {c \in DOMAIN otp : otp[c].mobile = m}
      /\ \A c \in DOMAIN otp : otp[c].mobile = m => otp'[c] = otp[c]
  BY <1>1, <1>2, CodesStay DEF Calm
<1>4. Unused(m)' = Unused(m)
  BY <1>3 DEF Unused
<1>5. Recent(m)' \subseteq Recent(m)
  <2>1. now \in Nat /\ now' \in Nat /\ now <= now'
    BY ClockMoves DEF TypeOK
  <2>2. \A c \in DOMAIN otp : otp[c].created_at \in Nat
    BY DEF TypeOK, RowOK
  <2> QED
    BY <1>3, <2>1, <2>2, SettingsAssumption DEF Recent
<1> QED
  BY <1>4, <1>5

\* What a request or a sign-in on a calm mobile has checked, or found, still holds.
THEOREM CalmStaysChecked == Spec => []CalmChecked
<1>1. Init => CalmChecked
  BY DEF Init, AskIdle, SignIdle, Asking, Signing, CalmChecked
<1>2. ASSUME TypeOK, CreatedOnce, OwnCodesOnly, OneAtWork, CalmChecked, [Next]_vars
      PROVE  CalmChecked'
  <2>1. ASSUME NEW m \in Calm, NEW r \in Requests, Asking(r)', ask'[r].mobile = m,
               ask'[r].pc # "known"
        PROVE  /\ Cardinality(Recent(m)') < Limit
               /\ ask'[r].pc \in {"spending", "spent", "sent"} => Unused(m)' \subseteq ask'[r].spends
    <3>1. /\ Asking(r) /\ ask[r].mobile = m
          /\ ask'[r].pc \in {"within", "spending", "spent", "sent"}
          /\ ask[r].pc = "known" => WithinRate(m)
      BY <1>2, <2>1, AskGoesOn DEF Asking
    <3>2. Unused(m)' = Unused(m) /\ Recent(m)' \subseteq Recent(m)
      BY <1>2, <2>1, <3>1, AloneCodesStay
    <3>3. Cardinality(Recent(m)') < Limit
      <4>1. Cardinality(Recent(m)) < Limit
        BY <1>2, <3>1 DEF CalmChecked, WithinRate
      <4>2. Recent(m) \subseteq DOMAIN otp
        BY DEF Recent
      <4> DEFINE R == Recent(m)'
      <4>3. R \subseteq Recent(m)
        BY <3>2
      <4> HIDE DEF R
      <4>4. Cardinality(R) < Limit
        BY <1>2, <4>1, <4>2, <4>3, FewerCount
      <4> QED
        BY <4>4 DEF R
    <3>4. ASSUME ask'[r].pc \in {"spending", "spent", "sent"}, NEW c \in Unused(m)
          PROVE  c \in ask'[r].spends
      <4>1. CASE ask[r].pc = "within"
        BY <1>2, <3>1, <3>4, <4>1, AskGoesOn
      <4>2. CASE ask[r].pc \in {"spending", "spent", "sent"}
        <5>1. c \in ask[r].spends
          BY <1>2, <3>1, <3>4, <4>2 DEF CalmChecked
        <5>2. otp[c].is_used \/ c \in ask'[r].spends
          BY <1>2, <3>1, <4>2, <5>1, AskGoesOn
        <5> QED
          BY <3>4, <5>2 DEF Unused
      <4>3. ask[r].pc # "known"
        BY <1>2, <3>1, <3>4, AskGoesOn
      <4> QED
        BY <3>1, <4>1, <4>2, <4>3 DEF Asking
    <3> QED
      BY <3>2, <3>3, <3>4
  <2>2. ASSUME NEW m \in Calm, NEW v \in SignIns, Signing(v)', sign'[v].mobile = m
        PROVE  sign'[v].row \in Unused(m)'
    <3>1. DOMAIN sign[v] = DOMAIN SignIdle
      BY <1>2 DEF TypeOK, SignOK
    <3>2. ASSUME NEW n \in Mobiles, NEW c \in Latest(n), UNCHANGED otp,
                 sign'[v] = [sign[v] EXCEPT !.pc = "matched", !.mobile = n, !.row = c]
          PROVE  sign'[v].row \in Unused(m)'
      <4>1. n = m /\ sign'[v].row = c
        BY <2>2, <3>1, <3>2 DEF SignIdle
      <4> QED
        BY <3>2, <4>1 DEF Latest, Unused
    <3>3. ASSUME Signing(v), sign'[v].row = sign[v].row, sign'[v].mobile = sign[v].mobile
          PROVE  sign'[v].row \in Unused(m)'
      <4>1. Unused(m)' = Unused(m)
        BY <1>2, <2>2, <3>3, AloneCodesStay
      <4> QED
        BY <1>2, <2>2, <3>3, <4>1 DEF CalmChecked
    <3>4. ASSUME sign[v].pc = "matched", NEW pc, sign'[v] = [sign[v] EXCEPT !.pc = pc]
          PROVE  Signing(v) /\ sign'[v].mobile = sign[v].mobile /\ sign'[v].row = sign[v].row
      BY <3>1, <3>4 DEF SignIdle, Signing
    <3>5. sign'[v] = sign[v] => Signing(v)
      BY <2>2 DEF Signing
    <3>6. sign'[v].pc # "done"
      BY <2>2 DEF Signing
    <3> QED
      BY <1>2, <3>2, <3>3, <3>4, <3>5, <3>6, SignMoves
  <2>3. ASSUME NEW r \in Requests, Asking(r)', ask'[r].mobile \in Calm
        PROVE  /\ ask'[r].pc # "known" => Cardinality(Recent(ask[r].mobile)') < Limit
               /\ ask'[r].pc \in {"spending", "spent", "sent"} =>
                     Unused(ask[r].mobile)' \subseteq ask'[r].spends
    <3> PICK m \in Calm : m = ask'[r].mobile
      BY <2>3
    <3> QED
      BY <2>1, <2>3 DEF Recent, Unused
  <2>4. ASSUME NEW v \in SignIns, Signing(v)', sign'[v].mobile \in Calm
        PROVE  sign'[v].row \in Unused(sign[v].mobile)'
    <3> PICK m \in Calm : m = sign'[v].mobile
      BY <2>4
    <3> QED
      BY <2>2, <2>4 DEF Unused
  <2> QED
    BY <2>3, <2>4 DEF CalmChecked
<1> QED
  BY <1>1, <1>2, TypeCorrect, RequestsSound, OwnCodes, NothingOverlaps, PTL DEF Spec

\* One commit at a time.
LEMMA OneCommit ==
    ASSUME TypeOK, [Next]_vars
    PROVE  /\ \A r, s \in Requests : Store(r) /\ Store(s) => r = s
           /\ \A r \in Requests, v \in SignIns : ~(Store(r) /\ UseCode(v))
           /\ \A v, w \in SignIns : UseCode(v) /\ UseCode(w) => v = w
<1>1. ASSUME NEW r \in Requests, Store(r) PROVE ask'[r].pc = "done" /\ ask[r].pc = "sent"
  BY <1>1 DEF Store, AskDone, AskIdle, TypeOK
<1>2. ASSUME NEW v \in SignIns, UseCode(v)
      PROVE  /\ sign'[v].pc = "done" /\ sign[v].pc \in {"member", "stranger"}
             /\ UNCHANGED ask /\ \A w \in SignIns : w # v => sign'[w] = sign[w]
  BY <1>2 DEF UseCode, SignDone, SignIdle, TypeOK
<1>3. ASSUME NEW v \in SignIns, NEW w \in SignIns, UseCode(v), UseCode(w) PROVE v = w
  <2>1. v # w => sign'[w] = sign[w]
    BY <1>2, <1>3
  <2>2. sign'[w].pc = "done" /\ sign[w].pc \in {"member", "stranger"}
    BY <1>2, <1>3
  <2> QED
    BY <2>1, <2>2
<1>4. ASSUME NEW r \in Requests, NEW s \in Requests, Store(r), Store(s) PROVE r = s
  BY <1>1, <1>4, OneMoves
<1>5. ASSUME NEW r \in Requests, NEW v \in SignIns, Store(r), UseCode(v) PROVE FALSE
  BY <1>1, <1>2, <1>5
<1> QED
  BY <1>3, <1>4, <1>5

\* The commit of a request leaves its code as the only unused one of a calm
\* mobile, and the codes of every other mobile alone.
LEMMA StoreOnDesk ==
    ASSUME TypeOK, CreatedOnce, OwnCodesOnly, CalmChecked, [Next]_vars,
           NEW r \in Requests, Store(r)
    PROVE  /\ r \notin DOMAIN otp /\ DOMAIN otp' = DOMAIN otp \cup {r} /\ otp'[r] = NewRow(r)
           /\ \A m \in Calm : m = ask[r].mobile => Unused(m)' = {r}
           /\ \A m \in Mobiles \ {ask[r].mobile} : Unused(m)' = Unused(m)
<1>1. /\ ask[r].pc = "sent" /\ r \notin DOMAIN otp /\ Asking(r)
      /\ otp' = Put(Spent(ask[r].spends), r, NewRow(r))
  BY DEF Store, CreatedOnce, Asking
<1>2. DOMAIN otp' = DOMAIN otp \cup {r} /\ otp'[r] = NewRow(r)
  BY <1>1 DEF Put, Spent
<1>3. ASSUME NEW m \in Calm, m = ask[r].mobile PROVE Unused(m)' = {r}
  <2>1. Unused(m) \subseteq ask[r].spends
    BY <1>1, <1>3 DEF CalmChecked
  <2>2. r \in Unused(m)'
    BY <1>2, <1>3 DEF Unused, NewRow
  <2>3. ASSUME NEW c \in Unused(m)', c # r PROVE FALSE
    <3>1. c \in DOMAIN otp /\ otp'[c].mobile = m /\ ~otp'[c].is_used
      BY <1>2, <2>3 DEF Unused
    <3>2. otp'[c].mobile = otp[c].mobile
      BY <3>1, RowsStay
    <3>3. otp[c].is_used => otp'[c].is_used
      BY <3>1, RowsStay
    <3>4. c \in Unused(m)
      BY <3>1, <3>2, <3>3 DEF Unused
    <3>5. otp'[c] = [otp[c] EXCEPT !.is_used = TRUE]
      BY <1>1, <2>1, <2>3, <3>1, <3>4 DEF Put, Spent
    <3> QED
      BY <3>1, <3>5 DEF TypeOK, RowOK
  <2> QED
    BY <2>2, <2>3
<1>4. ASSUME NEW m \in Mobiles, m # ask[r].mobile PROVE Unused(m)' = Unused(m)
  BY <1>4, OneCommit, CodesStay DEF Unused
<1> QED
  BY <1>1, <1>2, <1>3, <1>4

\* The commit of a sign-in takes its code from the unused ones of its mobile.
LEMMA UseOnDesk ==
    ASSUME TypeOK, CreatedOnce, OwnCodesOnly, CalmChecked, [Next]_vars,
           NEW v \in SignIns, UseCode(v)
    PROVE  /\ sign[v].row \in DOMAIN otp /\ otp[sign[v].row].mobile = sign[v].mobile
           /\ DOMAIN otp' = DOMAIN otp
           /\ \A m \in Calm : m = sign[v].mobile =>
                 sign[v].row \in Unused(m) /\ Unused(m)' = Unused(m) \ {sign[v].row}
           /\ \A m \in Mobiles \ {sign[v].mobile} : Unused(m)' = Unused(m)
<1> PICK m, c : m = sign[v].mobile /\ c = sign[v].row
  OBVIOUS
<1>1. Signing(v) /\ otp' = Spent({c})
  BY DEF UseCode, Signing
<1>2. c \in DOMAIN otp /\ otp[c].mobile = m /\ m \in Mobiles
  BY <1>1 DEF OwnCodesOnly, TypeOK, SignOK, Signing
<1>3. DOMAIN otp' = DOMAIN otp
  BY <1>1, SpentRows
<1>4. ~(c \in Unused(m)') /\ \A d \in DOMAIN otp : d # c => otp'[d] = otp[d]
  BY <1>1, <1>2 DEF Spent, Unused, TypeOK, RowOK
<1>5. Unused(m)' = Unused(m) \ {c}
  BY <1>3, <1>4 DEF Unused
<1>6. m \in Calm => c \in Unused(m)
  BY <1>1 DEF CalmChecked
<1>7. ASSUME NEW n \in Mobiles, n # m PROVE Unused(n)' = Unused(n)
  BY <1>7, OneCommit, CodesStay DEF Unused
<1> QED
  BY <1>2, <1>3, <1>5, <1>6, <1>7

\* A calm mobile has one unused code at most.
THEOREM OneUnusedOnly == Spec => []OneUnused
<1>1. Init => OneUnused
  BY DEF Init, OneUnused, Unused
<1>2. ASSUME TypeOK, CreatedOnce, OwnCodesOnly, CalmChecked, OneUnused, [Next]_vars
      PROVE  OneUnused'
  <2> SUFFICES ASSUME NEW m \in Calm, NEW c \in Unused(m)', NEW d \in Unused(m)' PROVE c = d
    BY DEF OneUnused
  <2>1. m \in Mobiles /\ \A e, f \in Unused(m) : e = f
    BY <1>2 DEF Calm, OneUnused
  <2>2. CASE UNCHANGED otp
    BY <2>1, <2>2 DEF Unused
  <2>3. ASSUME NEW r \in Requests, Store(r) PROVE c = d
    <3>1. ask[r].mobile = m => Unused(m)' = {r}
      BY <1>2, <2>3, StoreOnDesk
    <3>2. ask[r].mobile # m => Unused(m)' = Unused(m)
      BY <1>2, <2>1, <2>3, StoreOnDesk
    <3> QED
      BY <2>1, <3>1, <3>2
  <2>4. ASSUME NEW v \in SignIns, UseCode(v) PROVE c = d
    <3>1. sign[v].mobile = m => Unused(m)' \subseteq Unused(m)
      BY <1>2, <2>4, UseOnDesk
    <3>2. sign[v].mobile # m => Unused(m)' = Unused(m)
      BY <1>2, <2>1, <2>4, UseOnDesk
    <3> QED
      BY <2>1, <3>1, <3>2
  <2> QED
    BY <1>2, <2>2, <2>3, <2>4, RowsMove
<1> QED
  BY <1>1, <1>2, TypeCorrect, RequestsSound, OwnCodes, CalmStaysChecked, PTL DEF Spec

\* Whom the codes of calm mobiles let in.
LEMMA ServedPairs ==
    /\ \A x : x \in served <=> \E c \in CalmRows : \E v \in accepted[c] : x = <<c, v>>
    /\ \A x : x \in served' <=> \E c \in CalmRows' : \E v \in accepted'[c] : x = <<c, v>>
BY DEF served

\* The desk sees nothing of a step that leaves the codes of calm mobiles alone.
LEMMA DeskStays ==
    ASSUME TypeOK, CreatedOnce, [Next]_vars, CalmRows' = CalmRows,
           \A m \in Calm : Unused(m)' = Unused(m),
           \A c \in CalmRows : accepted'[c] = accepted[c]
    PROVE  UNCHANGED <<issued, valid, served>>
<1>1. \A c \in CalmRows : /\ otp'[c].mobile = otp[c].mobile
                          /\ otp'[c].created_at = otp[c].created_at
  BY RowsStay DEF CalmRows
<1>2. issued' = issued
  BY <1>1 DEF issued
<1>3. valid' = valid
  BY DEF valid
<1>4. served' = served
  BY ServedPairs
<1> QED
  BY <1>2, <1>3, <1>4

\* The commit of a request for a calm mobile is the issue of a card.
LEMMA StoreIssues ==
    ASSUME TypeOK, CreatedOnce, OwnCodesOnly, CalmChecked, AcceptedAreStored, [Next]_vars,
           NEW r \in Requests, Store(r), NEW m \in Calm, m = ask[r].mobile
    PROVE  Desk!Issue(m, r)
<1>1. /\ r \notin DOMAIN otp /\ DOMAIN otp' = DOMAIN otp \cup {r} /\ otp'[r] = NewRow(r)
      /\ Unused(m)' = {r} /\ \A n \in Calm \ {m} : Unused(n)' = Unused(n)
  BY StoreOnDesk DEF Calm
<1>2. CalmRows' = CalmRows \cup {r} /\ r \notin CalmRows
  <2>1. \A c \in DOMAIN otp : otp'[c].mobile = otp[c].mobile
    BY RowsStay
  <2> QED
    BY <1>1, <2>1 DEF CalmRows, NewRow
<1>3. /\ ask[r].pc = "sent" /\ Asking(r) /\ ask[r].began \in 0..now
      /\ UNCHANGED <<now, accepted>>
  BY DEF Store, Asking, TypeOK, AskOK, OwnCodesOnly
<1>4. DOMAIN issued = CalmRows /\ Desk!Recent(m) = Recent(m)
  BY DEF issued, Desk!Recent, Recent, CalmRows
<1>5. Cardinality(Recent(m)) < Limit
  BY <1>3 DEF CalmChecked
<1>6. issued' = Desk!Put(issued, r, [mobile |-> m, at |-> ask[r].began])
  <2>1. \A c \in CalmRows : /\ otp'[c].mobile = otp[c].mobile
                            /\ otp'[c].created_at = otp[c].created_at
    BY RowsStay DEF CalmRows
  <2>2. otp'[r].mobile = m /\ otp'[r].created_at = ask[r].began
    BY <1>1 DEF NewRow
  <2> QED
    BY <1>2, <2>1, <2>2 DEF issued, Desk!Put
<1>7. valid' = [valid EXCEPT ![m] = {r}]
  BY <1>1 DEF valid
<1>8. served' = served
  <2>1. accepted[r] = {}
    BY <1>1 DEF AcceptedAreStored
  <2> QED
    BY <1>2, <1>3, <2>1, ServedPairs
<1>9. r \notin DOMAIN issued /\ Desk!Cardinality(Desk!Recent(m)) < Limit
  <2>1. Desk!Cardinality(Recent(m)) = Cardinality(Recent(m))
    BY DEF Desk!Cardinality, Cardinality
  <2> QED
    BY <1>2, <1>4, <1>5, <2>1
<1>10. \E at \in 0..now : issued' = Desk!Put(issued, r, [mobile |-> m, at |-> at])
  BY <1>3, <1>6
<1> QED
  BY <1>3, <1>7, <1>8, <1>9, <1>10 DEF Desk!Issue

\* The commit of a sign-in on a calm mobile serves its guest, or turns it away.
LEMMA UseServes ==
    ASSUME TypeOK, CreatedOnce, OwnCodesOnly, CalmChecked, OneUnused, [Next]_vars,
           NEW v \in SignIns, UseCode(v), NEW m \in Calm, m = sign[v].mobile
    PROVE  Desk!Serve(m, v) \/ Desk!Turn(m)
<1> PICK c : c = sign[v].row
  OBVIOUS
<1>1. /\ c \in DOMAIN otp /\ otp[c].mobile = m /\ DOMAIN otp' = DOMAIN otp
      /\ c \in Unused(m) /\ Unused(m)' = Unused(m) \ {c}
      /\ \A n \in Calm \ {m} : Unused(n)' = Unused(n)
  BY UseOnDesk DEF Calm
<1>2. Unused(m)' = {}
  BY <1>1 DEF OneUnused
<1>3. CalmRows' = CalmRows /\ c \in CalmRows
  BY <1>1, RowsStay DEF CalmRows
<1>4. issued' = issued /\ now' = now
  <2>1. \A d \in CalmRows : /\ otp'[d].mobile = otp[d].mobile
                            /\ otp'[d].created_at = otp[d].created_at
    BY RowsStay DEF CalmRows
  <2> QED
    BY <1>3, <2>1 DEF issued, UseCode
<1>5. valid' = [valid EXCEPT ![m] = {}]
  BY <1>1, <1>2 DEF valid
<1>6. CASE sign[v].pc = "member"
  <2>1. accepted' = [accepted EXCEPT ![c] = accepted[c] \cup {v}] /\ c \in DOMAIN accepted
    BY <1>1, <1>6 DEF UseCode, TypeOK
  <2>2. accepted'[c] = accepted[c] \cup {v} /\ \A d \in CalmRows : d # c => accepted'[d] = accepted[d]
    BY <2>1 DEF TypeOK, CalmRows
  <2>3. served' = served \cup {<<c, v>>}
    BY <1>3, <2>2, ServedPairs
  <2>4. c \in valid[m]
    BY <1>1 DEF valid
  <2> QED
    BY <1>4, <1>5, <2>3, <2>4 DEF Desk!Serve
<1>7. CASE sign[v].pc # "member"
  <2>1. accepted' = accepted
    BY <1>7 DEF UseCode
  <2>2. served' = served
    BY <1>3, <2>1, ServedPairs
  <2> QED
    BY <1>4, <1>5, <2>2 DEF Desk!Turn
<1> QED
  BY <1>6, <1>7

\* On the mobiles on which nothing overlaps, the handlers do what the desk
\* promises: one valid code at most, the last one; no more than the limit; one
\* sign-in let through by each.
THEOREM DeskImplemented == Spec => FollowsDesk
<1>1. Init => Desk!Init
  <2> SUFFICES ASSUME Init PROVE Desk!Init
    OBVIOUS
  <2>1. DOMAIN otp = {} /\ CalmRows = {} /\ \A m : Unused(m) = {}
    BY DEF Init, CalmRows, Unused
  <2>2. issued = <<>>
    BY <2>1 DEF issued
  <2>3. valid = [m \in Calm |-> {}]
    BY <2>1 DEF valid
  <2>4. served = {}
    BY <2>1, ServedPairs
  <2>5. now \in Nat
    BY DEF Init
  <2> QED
    BY <2>2, <2>3, <2>4, <2>5 DEF Desk!Init
<1>2. ASSUME TypeOK, CreatedOnce, OwnCodesOnly, CalmChecked, OneUnused, AcceptedAreStored,
             [Next]_vars
      PROVE  [Desk!Next]_<<now, issued, valid, served>>
  <2>1. ASSUME NEW r \in Requests, Store(r) PROVE [Desk!Next]_<<now, issued, valid, served>>
    <3>1. CASE ask[r].mobile \in Calm
      BY <1>2, <2>1, <3>1, StoreIssues DEF Desk!Next
    <3>2. CASE ask[r].mobile \notin Calm
      <4>1. /\ r \notin DOMAIN otp /\ DOMAIN otp' = DOMAIN otp \cup {r} /\ otp'[r] = NewRow(r)
            /\ \A m \in Calm : Unused(m)' = Unused(m)
        BY <1>2, <2>1, <3>2, StoreOnDesk DEF Calm
      <4>2. CalmRows' = CalmRows
        <5>1. \A c \in DOMAIN otp : otp'[c].mobile = otp[c].mobile
          BY <1>2, RowsStay
        <5> QED
          BY <3>2, <4>1, <5>1 DEF CalmRows, NewRow
      <4> QED
        BY <1>2, <2>1, <4>1, <4>2, DeskStays DEF Store
    <3> QED
      BY <3>1, <3>2
  <2>2. ASSUME NEW v \in SignIns, UseCode(v) PROVE [Desk!Next]_<<now, issued, valid, served>>
    <3>1. CASE sign[v].mobile \in Calm
      BY <1>2, <2>2, <3>1, UseServes DEF Desk!Next
    <3>2. CASE sign[v].mobile \notin Calm
      <4>1. /\ sign[v].row \in DOMAIN otp /\ otp[sign[v].row].mobile \notin Calm
            /\ DOMAIN otp' = DOMAIN otp /\ \A m \in Calm : Unused(m)' = Unused(m)
        BY <1>2, <2>2, <3>2, UseOnDesk DEF Calm
      <4>2. CalmRows' = CalmRows
        BY <1>2, <4>1, RowsStay DEF CalmRows
      <4>3. \A c \in CalmRows : accepted'[c] = accepted[c]
        BY <1>2, <2>2, <4>1 DEF CalmRows, UseCode, TypeOK
      <4> QED
        BY <1>2, <2>2, <4>1, <4>2, <4>3, DeskStays DEF UseCode
    <3> QED
      BY <3>1, <3>2
  <2>3. CASE UNCHANGED <<otp, accepted>>
    <3>1. UNCHANGED <<issued, valid, served>>
      BY <1>2, <2>3, DeskStays DEF CalmRows, Unused
    <3> QED
      BY <1>2, <3>1, ClockMoves DEF Desk!Next, Desk!Wait
  <2> QED
    BY <1>2, <2>1, <2>2, <2>3, RowsMove, HistoryMoves
<1> QED
  BY <1>1, <1>2, TypeCorrect, RequestsSound, OwnCodes, CalmStaysChecked, OneUnusedOnly, PTL
  DEF Spec, FollowsDesk, Desk!Spec
=============================================================================
