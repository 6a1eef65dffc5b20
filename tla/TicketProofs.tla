---------------------------- MODULE TicketProofs -----------------------------
(***************************************************************************)
(* Theorems of Tickets, for any users, requests, bodies and contended      *)
(* tickets: types, what holds however requests overlap, and the lifecycle  *)
(* of the tickets on which they do not.                                    *)
(***************************************************************************)
EXTENDS TicketProps, TLAPS

(***************************************************************************)
(* Rows.                                                                   *)
(***************************************************************************)

\* The flush of a row keeps a row a row.
LEMMA FlushKeepsRow ==
    ASSUME NEW row, NEW loaded, NEW new, RowOK(row), RowOK(new)
    PROVE  RowOK(Flush(row, loaded, new))
BY DEF RowOK, Flush, Columns

\* What a request commits is a row, unless its title is null.
LEMMA WantedIsRow ==
    ASSUME TypeOK, NEW r \in Requests, req[r].pc = "ready", NotNull(Wanted(r))
    PROVE  RowOK(Wanted(r))
<1> DEFINE o == req[r].op
<1>1. o \in Ops /\ Body(o) /\ o.caller \in Users /\ (o.kind # "create" => RowOK(req[r].seen))
  BY OpsAssumption DEF TypeOK, ReqOK
<1>2. Wanted(r).title # NULL
  BY DEF NotNull
<1>3. CASE o.kind = "create"
  BY <1>1, <1>2, <1>3 DEF Wanted, RowOK, Columns, Body, Status
<1>4. CASE o.kind = "update"
  <2>1. Wanted(r) = Assign(req[r].seen, o.set) /\ DOMAIN o.set \subseteq {"title", "description"}
    BY <1>1, <1>4 DEF Wanted, Body
  <2> QED
    BY <1>1, <1>2, <1>4, <2>1 DEF RowOK, Assign, Columns
<1>5. CASE o.kind = "status"
  <2>1. ResolvedAt(r) \in Times \cup {NULL} /\ o.status \in Status
    BY <1>1, <1>5 DEF ResolvedAt, Times, Body
  <2>2. Wanted(r) = [req[r].seen EXCEPT !.status = o.status, !.changed_by = o.caller,
                                        !.resolved_at = ResolvedAt(r)]
    BY <1>5 DEF Wanted
  <2> QED
    BY <1>1, <1>2, <1>5, <2>1, <2>2 DEF RowOK, Columns
<1>6. CASE o.kind = "assign"
  <2>1. Wanted(r) = [req[r].seen EXCEPT !.assigned_to = o.assignee, !.changed_by = o.caller]
    BY <1>6 DEF Wanted
  <2> QED
    BY <1>1, <1>2, <1>6, <2>1 DEF RowOK, Columns, Body
<1>7. CASE o.kind = "deactivate"
  <2>1. Wanted(r) = [req[r].seen EXCEPT !.is_active = FALSE]
    BY <1>7 DEF Wanted
  <2> QED
    BY <1>1, <1>2, <1>7, <2>1 DEF RowOK, Columns
<1> QED
  BY <1>1, <1>3, <1>4, <1>5, <1>6, <1>7 DEF Body

\* The row that a request leaves behind when its commit goes through.
LEMMA CommittedRow ==
    ASSUME TypeOK, NEW r \in Requests, Commit(r), NotNull(Wanted(r))
    PROVE  /\ DOMAIN ticket' = DOMAIN ticket \cup {Target(r)}
           /\ Target(r) \in TicketIds
           /\ \A t \in DOMAIN ticket : t # Target(r) => ticket'[t] = ticket[t]
           /\ ticket'[Target(r)] = IF req[r].op.kind = "create" THEN Wanted(r)
                                   ELSE Flush(ticket[Target(r)], req[r].seen, Wanted(r))
           /\ RowOK(ticket'[Target(r)])
<1> DEFINE row == IF req[r].op.kind = "create" THEN Wanted(r)
                  ELSE Flush(ticket[Target(r)], req[r].seen, Wanted(r))
<1>1. ticket' = Put(ticket, Target(r), row)
  BY DEF Commit
<1>2. /\ Target(r) \in TicketIds
      /\ req[r].op.kind # "create" => Target(r) \in DOMAIN ticket
  BY DEF TypeOK, ReqOK, Target, TicketIds, Commit
<1>3. RowOK(row)
  BY <1>2, WantedIsRow, FlushKeepsRow DEF Commit, TypeOK
<1> QED
  BY <1>1, <1>2, <1>3 DEF Put

(***************************************************************************)
(* Types.                                                                  *)
(***************************************************************************)

\* A request that ended is a request.
LEMMA DoneIsReq ==
    ASSUME NEW code \in Code
    PROVE  ReqOK(Done(code))
BY DEF ReqOK, Done, Idle

\* A request that has loaded its ticket is a request.
LEMMA BeginIsReq ==
    ASSUME TypeOK, NEW o \in Ops, Refusal(o) = NULL
    PROVE  ReqOK(Begin(o))
<1>1. o.caller \in Users /\ (o.kind # "create" => o.ticket \in DOMAIN ticket)
  BY NullAssumption DEF Refusal
<1> QED
  BY <1>1 DEF ReqOK, Begin, Idle, TypeOK, Code

\* TypeOK is an invariant.
THEOREM TypeCorrect == Spec => []TypeOK
<1>1. Init => TypeOK
  <2> SUFFICES ASSUME Init PROVE TypeOK
    OBVIOUS
  <2>1. \A r \in Requests : ReqOK(req[r])
    BY DEF Init, ReqOK, Idle, Code
  <2>2. seated \subseteq Users
    BY InitAssumption, SwitchedAssumption DEF Init, RowOK
  <2> QED
    BY <2>1, <2>2, InitAssumption, SwitchedAssumption DEF Init, TypeOK, TicketIds
<1>2. ASSUME TypeOK, [Next]_vars PROVE TypeOK'
  <2>1. ASSUME NEW r \in Requests, NEW q, ReqOK(q), req' = [req EXCEPT ![r] = q],
               UNCHANGED <<active, ticket, seated>>
        PROVE  TypeOK'
    BY <1>2, <2>1 DEF TypeOK, ReqOK
  <2>2. ASSUME NEW r \in Requests, NEW o \in Ops, Load(r, o) PROVE TypeOK'
    <3>1. CASE Refusal(o) # NULL
      <4>1. Refusal(o) \in Code
        BY DEF Refusal, Code
      <4> QED
        BY <2>1, <2>2, <3>1, <4>1, DoneIsReq DEF Load
    <3>2. CASE Refusal(o) = NULL
      BY <1>2, <2>1, <2>2, <3>2, BeginIsReq DEF Load
    <3> QED
      BY <3>1, <3>2
  <2>3. ASSUME NEW r \in Requests, CheckAssignee(r) PROVE TypeOK'
    <3> DEFINE q == IF MayBeAssigned(req[r].op.assignee)
                    THEN [req[r] EXCEPT !.pc = "ready"] ELSE Done(422)
    <3>1. ReqOK(q)
      <4>1. ReqOK(Done(422))
        BY DoneIsReq DEF Code
      <4>2. ReqOK(req[r]) /\ req[r].pc = "checking"
        BY <1>2, <2>3 DEF TypeOK, CheckAssignee
      <4>3. ReqOK([req[r] EXCEPT !.pc = "ready"])
        BY <4>2 DEF ReqOK, Idle
      <4> QED
        BY <4>1, <4>3
    <3>2. req' = [req EXCEPT ![r] = q]
      BY <2>3 DEF CheckAssignee
    <3> QED
      BY <2>1, <2>3, <3>1, <3>2, ZenonT(60) DEF CheckAssignee
  <2>4. ASSUME NEW r \in Requests, Commit(r) PROVE TypeOK'
    <3>1. CASE NotNull(Wanted(r))
      <4>1. req' = [req EXCEPT ![r] = Done(200)] /\ ReqOK(Done(200))
        BY <2>4, <3>1, DoneIsReq DEF Commit, Code
      <4>2. /\ DOMAIN ticket' = DOMAIN ticket \cup {Target(r)}
            /\ DOMAIN ticket' \subseteq TicketIds
            /\ \A t \in DOMAIN ticket' : RowOK(ticket'[t])
        BY <1>2, <2>4, <3>1, CommittedRow DEF TypeOK
      <4>3. \A s \in Requests : ReqOK(req[s])'
        <5>1. \A s \in Requests : ReqOK(req'[s])
          BY <1>2, <4>1 DEF TypeOK
        <5> QED
          BY <4>2, <5>1 DEF ReqOK
      <4> QED
        BY <1>2, <2>4, <4>1, <4>2, <4>3 DEF TypeOK, Commit
    <3>2. CASE ~NotNull(Wanted(r))
      <4>1. ReqOK(Done(409))
        BY DoneIsReq DEF Code
      <4> QED
        BY <2>1, <2>4, <3>2, <4>1 DEF Commit
    <3> QED
      BY <3>1, <3>2
  <2>5. ASSUME NEW r \in Requests, Abort(r) PROVE TypeOK'
    <3>1. ReqOK(Done(500))
      BY DoneIsReq DEF Code
    <3> QED
      BY <2>1, <2>5, <3>1, ZenonT(60) DEF Abort
  <2>6. ASSUME NEW u \in Switched, SetActive(u) PROVE TypeOK'
    BY <1>2, <2>6, SwitchedAssumption DEF SetActive, TypeOK, ReqOK
  <2>7. CASE UNCHANGED vars
    BY <1>2, <2>7 DEF vars, TypeOK, ReqOK
  <2> QED
    BY <1>2, <2>2, <2>3, <2>4, <2>5, <2>6, <2>7 DEF Next, Terminated
<1> QED
  BY <1>1, <1>2, PTL DEF Spec

(***************************************************************************)
(* What a step does.                                                       *)
(***************************************************************************)

\* The ticket table changes by a commit that goes through, or not at all.
LEMMA TablesMove ==
    ASSUME [Next]_vars
    PROVE  \/ UNCHANGED ticket
           \/ \E r \in Requests : Commit(r) /\ NotNull(Wanted(r))
BY DEF Next, Terminated, vars, Load, CheckAssignee, Commit, Abort, SetActive

\* A request stays as it is, ends, loads its ticket, or has its assignee checked.
LEMMA RequestMoves ==
    ASSUME TypeOK, [Next]_vars, NEW r \in Requests
    PROVE  \/ req'[r] = req[r]
           \/ req'[r].pc = "done" /\ req[r].pc # "done"
           \/ /\ req[r].pc = "idle" /\ UNCHANGED ticket
              /\ \E o \in Ops : Refusal(o) = NULL /\ MayStart(o) /\ req'[r] = Begin(o)
           \/ /\ req[r].pc = "checking" /\ UNCHANGED ticket
              /\ MayBeAssigned(req[r].op.assignee)
              /\ req'[r] = [req[r] EXCEPT !.pc = "ready"]
<1>1. ASSUME NEW s \in Requests, NEW q, req' = [req EXCEPT ![s] = q], s # r
      PROVE  req'[r] = req[r]
  BY <1>1 DEF TypeOK
<1>2. ASSUME NEW o \in Ops, Load(r, o)
      PROVE  \/ req'[r].pc = "done" /\ req[r].pc # "done"
             \/ /\ req[r].pc = "idle" /\ UNCHANGED ticket
                /\ Refusal(o) = NULL /\ MayStart(o) /\ req'[r] = Begin(o)
  BY <1>2 DEF Load, TypeOK, Done, Idle
<1>3. CASE CheckAssignee(r)
  BY <1>3 DEF CheckAssignee, TypeOK, Done, Idle
<1>4. ASSUME Commit(r) \/ Abort(r) PROVE req'[r].pc = "done" /\ req[r].pc # "done"
  <2>1. req[r].pc # "done" /\ \E code : req' = [req EXCEPT ![r] = Done(code)]
    BY <1>4 DEF Commit, Abort, Open
  <2> QED
    BY <2>1 DEF TypeOK, Done, Idle
<1>5. ASSUME NEW s \in Requests, s # r,
             (\E o \in Ops : Load(s, o)) \/ CheckAssignee(s) \/ Commit(s) \/ Abort(s)
      PROVE  req'[r] = req[r]
  <2>1. CASE \E o \in Ops : Load(s, o)
    BY <1>1, <1>5, <2>1 DEF Load
  <2>2. CASE CheckAssignee(s)
    BY <1>5, <2>2 DEF CheckAssignee, TypeOK
  <2>3. CASE Commit(s)
    BY <1>1, <1>5, <2>3 DEF Commit
  <2>4. CASE Abort(s)
    BY <1>1, <1>5, <2>4 DEF Abort
  <2> QED
    BY <1>5, <2>1, <2>2, <2>3, <2>4
<1> QED
  BY <1>2, <1>3, <1>4, <1>5 DEF Next, Terminated, vars, SetActive

\* A step moves at most one request.
LEMMA OneMoves ==
    ASSUME TypeOK, [Next]_vars, NEW r \in Requests, NEW s \in Requests, r # s
    PROVE  req'[r] = req[r] \/ req'[s] = req[s]
<1>1. ASSUME NEW t \in Requests, NEW q, req' = [req EXCEPT ![t] = q]
      PROVE  req'[r] = req[r] \/ req'[s] = req[s]
  BY <1>1 DEF TypeOK
<1>2. ASSUME NEW t \in Requests,
             (\E o \in Ops : Load(t, o)) \/ CheckAssignee(t) \/ Commit(t) \/ Abort(t)
      PROVE  \E q : req' = [req EXCEPT ![t] = q]
  <2>1. CASE \E o \in Ops : Load(t, o)
    BY <2>1 DEF Load
  <2>2. CASE CheckAssignee(t)
    <3>1. req' = [req EXCEPT ![t] = IF MayBeAssigned(req[t].op.assignee)
                                    THEN [req[t] EXCEPT !.pc = "ready"] ELSE Done(422)]
      BY <2>2 DEF CheckAssignee
    <3> QED
      BY <3>1
  <2>3. CASE Commit(t) \/ Abort(t)
    BY <2>3 DEF Commit, Abort
  <2> QED
    BY <1>2, <2>1, <2>2, <2>3
<1>3. CASE UNCHANGED req
  BY <1>3
<1> QED
  BY <1>1, <1>2, <1>3 DEF Next, Terminated, vars, SetActive

\* Each column of the row a request commits is the loaded one, except for the
\* columns its kind of request assigns.
LEMMA WantedColumns ==
    ASSUME TypeOK, NEW r \in Requests, req[r].pc = "ready", req[r].op.kind # "create"
    PROVE  LET o == req[r].op IN
           /\ DOMAIN Wanted(r) = Columns
           /\ Wanted(r).status = IF o.kind = "status" THEN o.status ELSE req[r].seen.status
           /\ Wanted(r).assigned_to = IF o.kind = "assign" THEN o.assignee
                                      ELSE req[r].seen.assigned_to
           /\ Wanted(r).resolved_at = IF o.kind = "status" THEN ResolvedAt(r)
                                      ELSE req[r].seen.resolved_at
           /\ Wanted(r).is_active = (o.kind # "deactivate" /\ req[r].seen.is_active)
<1> DEFINE o == req[r].op
<1>1. o \in Ops /\ Body(o) /\ RowOK(req[r].seen)
  BY OpsAssumption DEF TypeOK, ReqOK
<1>2. DOMAIN req[r].seen = Columns /\ req[r].seen.is_active \in BOOLEAN
  BY <1>1 DEF RowOK
<1>3. CASE o.kind = "update"
  BY <1>1, <1>2, <1>3 DEF Wanted, Assign, Body, Columns
<1>4. CASE o.kind = "status"
  <2>1. Wanted(r) = [req[r].seen EXCEPT !.status = o.status, !.changed_by = o.caller,
                                        !.resolved_at = ResolvedAt(r)]
    BY <1>4 DEF Wanted
  <2> QED
    BY <1>2, <1>4, <2>1 DEF Columns
<1>5. CASE o.kind = "assign"
  <2>1. Wanted(r) = [req[r].seen EXCEPT !.assigned_to = o.assignee, !.changed_by = o.caller]
    BY <1>5 DEF Wanted
  <2> QED
    BY <1>2, <1>5, <2>1 DEF Columns
<1>6. CASE o.kind = "deactivate"
  <2>1. Wanted(r) = [req[r].seen EXCEPT !.is_active = FALSE]
    BY <1>6 DEF Wanted
  <2> QED
    BY <1>2, <1>6, <2>1 DEF Columns
<1> QED
  BY <1>1, <1>3, <1>4, <1>5, <1>6 DEF Body

\* A commit to a ticket that exists writes each column that the request changed
\* and leaves every other column alone.
LEMMA CommittedColumns ==
    ASSUME TypeOK, NEW r \in Requests, Commit(r), NotNull(Wanted(r)), req[r].op.kind # "create"
    PROVE  /\ Target(r) \in DOMAIN ticket
           /\ \A c \in Columns : ticket'[Target(r)][c] =
                 IF Wanted(r)[c] # req[r].seen[c] THEN Wanted(r)[c] ELSE ticket[Target(r)][c]
<1>1. Target(r) \in DOMAIN ticket /\ req[r].pc = "ready"
  BY DEF TypeOK, ReqOK, Commit, Target
<1>2. DOMAIN ticket[Target(r)] = Columns /\ DOMAIN Wanted(r) = Columns
  BY <1>1, WantedColumns DEF TypeOK, RowOK
<1> QED
  BY <1>1, <1>2, CommittedRow, ZenonT(60) DEF Flush, Dirty

(***************************************************************************)
(* Whatever overlaps.                                                      *)
(***************************************************************************)

\* Tickets appear with the commit of their request, and what an open request has
\* checked holds of the row it loaded.
THEOREM RequestsSound == Spec => [](CreatedOnce /\ RequestsChecked /\ ActiveAreSeated)
<1> DEFINE Inv == CreatedOnce /\ RequestsChecked /\ ActiveAreSeated
<1>1. Init => Inv
  BY InitAssumption DEF Init, Idle, Open, CreatedOnce, RequestsChecked, ActiveAreSeated
<1>2. ASSUME TypeOK, Inv, [Next]_vars PROVE Inv'
  <2>1. ActiveAreSeated' /\ seated \subseteq seated'
    BY <1>2 DEF ActiveAreSeated, Next, Terminated, vars, Load, CheckAssignee, Commit, Abort,
                SetActive
  <2>2. ASSUME NEW r \in Requests, r \in DOMAIN ticket' PROVE req'[r].pc = "done"
    <3>1. CASE r \in DOMAIN ticket
      <4>1. req[r].pc = "done"
        BY <1>2, <3>1 DEF CreatedOnce
      <4> QED
        BY <1>2, <4>1, RequestMoves
    <3>2. CASE r \notin DOMAIN ticket
      <4>1. PICK s \in Requests : Commit(s) /\ NotNull(Wanted(s))
        BY <1>2, <2>2, <3>2, TablesMove
      <4>2. r = Target(s)
        BY <1>2, <2>2, <3>2, <4>1, CommittedRow
      <4>3. r = s
        BY <1>2, <3>2, <4>1, <4>2, CommittedColumns DEF Target
      <4> QED
        BY <1>2, <4>1, <4>3 DEF Commit, TypeOK, Done, Idle
    <3> QED
      BY <3>1, <3>2
  <2>3. ASSUME NEW r \in Requests, Open(r)'
        PROVE  /\ req'[r].op.kind # "create" => req'[r].seen.is_active
               /\ req'[r].op.kind = "status" =>
                     req'[r].op.status \in AllowedFrom(req'[r].seen.status)
               /\ req'[r].pc = "ready" /\ ChecksAssignee(req'[r].op) =>
                     req'[r].op.assignee \in seated'
    <3>1. CASE req'[r] = req[r]
      BY <1>2, <2>1, <2>3, <3>1 DEF RequestsChecked, Open
    <3>2. ASSUME NEW o \in Ops, Refusal(o) = NULL, req'[r] = Begin(o)
          PROVE  /\ req'[r].op.kind # "create" => req'[r].seen.is_active
                 /\ req'[r].op.kind = "status" =>
                       req'[r].op.status \in AllowedFrom(req'[r].seen.status)
                 /\ req'[r].pc = "ready" => ~ChecksAssignee(req'[r].op)
      <4>1. /\ o.kind # "create" => ticket[o.ticket].is_active
            /\ o.kind = "status" => o.status \in AllowedFrom(ticket[o.ticket].status)
        BY <3>2, NullAssumption DEF Refusal
      <4>2. /\ req'[r].op = o
            /\ o.kind # "create" => req'[r].seen = ticket[o.ticket]
            /\ req'[r].pc = IF ChecksAssignee(o) THEN "checking" ELSE "ready"
        BY <3>2 DEF Begin, Idle
      <4> QED
        BY <4>1, <4>2
    <3>3. CASE /\ req[r].pc = "checking" /\ MayBeAssigned(req[r].op.assignee)
               /\ req'[r] = [req[r] EXCEPT !.pc = "ready"]
      <4>1. req'[r].op = req[r].op /\ req'[r].seen = req[r].seen
        BY <1>2, <3>3 DEF TypeOK, ReqOK
      <4> QED
        BY <1>2, <2>1, <3>3, <4>1 DEF RequestsChecked, Open, MayBeAssigned, ActiveAreSeated
    <3> QED
      BY <1>2, <2>3, <3>1, <3>2, <3>3, RequestMoves DEF Open
  <2> QED
    BY <2>1, <2>2, <2>3 DEF CreatedOnce, RequestsChecked
<1> QED
  BY <1>1, <1>2, TypeCorrect, PTL DEF Spec

\* A status changes only at the commit of a request for it, along a transition
\* allowed from what that request loaded.
THEOREM StatusRequested == Spec => StatusChangesAreRequested
<1>1. ASSUME TypeOK, CreatedOnce, RequestsChecked, [Next]_vars,
             NEW t \in DOMAIN ticket, ticket'[t].status # ticket[t].status
      PROVE  \E r \in Requests :
                /\ req[r].pc = "ready" /\ req'[r].pc = "done"
                /\ req[r].op.kind = "status" /\ Target(r) = t
                /\ ticket'[t].status = req[r].op.status
                /\ ticket'[t].status \in AllowedFrom(req[r].seen.status)
  <2>1. PICK r \in Requests : Commit(r) /\ NotNull(Wanted(r))
    BY <1>1, TablesMove
  <2>2. t = Target(r) /\ req[r].pc = "ready" /\ req'[r].pc = "done"
    BY <1>1, <2>1, CommittedRow, ZenonT(60) DEF Commit, TypeOK, Done, Idle
  <2>3. req[r].op.kind # "create"
    BY <1>1, <2>2 DEF CreatedOnce, Target
  <2>4. ticket'[t].status = Wanted(r).status /\ Wanted(r).status # req[r].seen.status
    BY <1>1, <2>1, <2>2, <2>3, CommittedColumns DEF Columns
  <2>5. req[r].op.kind = "status" /\ ticket'[t].status = req[r].op.status
    BY <1>1, <2>2, <2>3, <2>4, WantedColumns
  <2> QED
    BY <1>1, <2>2, <2>5 DEF RequestsChecked, Open
<1> DEFINE Step == \A t \in DOMAIN ticket : ticket'[t].status # ticket[t].status
          => \E r \in Requests :
                /\ req[r].pc = "ready" /\ req'[r].pc = "done"
                /\ req[r].op.kind = "status" /\ Target(r) = t
                /\ ticket'[t].status = req[r].op.status
                /\ ticket'[t].status \in AllowedFrom(req[r].seen.status)
<1>2. TypeOK /\ CreatedOnce /\ RequestsChecked /\ [Next]_vars => [Step]_vars
  BY <1>1
<1>3. Spec => [][Step]_vars
  BY <1>2, TypeCorrect, RequestsSound, PTL DEF Spec
<1> QED
  BY <1>3 DEF StatusChangesAreRequested

\* A removed ticket stays removed.
THEOREM RemovalKept == Spec => RemovalIsFinal
<1>1. ASSUME TypeOK, CreatedOnce, [Next]_vars, NEW t \in DOMAIN ticket, ~ticket[t].is_active
      PROVE  t \in DOMAIN ticket' /\ ~ticket'[t].is_active
  <2>1. CASE UNCHANGED ticket
    BY <1>1, <2>1
  <2>2. ASSUME NEW r \in Requests, Commit(r), NotNull(Wanted(r))
        PROVE  t \in DOMAIN ticket' /\ ~ticket'[t].is_active
    <3>1. t \in DOMAIN ticket' /\ (t # Target(r) => ticket'[t] = ticket[t])
      BY <1>1, <2>2, CommittedRow
    <3>2. CASE t = Target(r)
      <4>1. req[r].op.kind # "create" /\ req[r].pc = "ready"
        BY <1>1, <2>2, <3>2 DEF CreatedOnce, Commit, Target
      <4>2. Wanted(r).is_active = (req[r].op.kind # "deactivate" /\ req[r].seen.is_active)
        BY <1>1, <4>1, WantedColumns
      <4>3. req[r].seen.is_active \in BOOLEAN
        BY <1>1, <4>1 DEF TypeOK, ReqOK, RowOK
      <4>4. ticket'[t].is_active = IF Wanted(r).is_active # req[r].seen.is_active
                                   THEN Wanted(r).is_active ELSE ticket[t].is_active
        BY <1>1, <2>2, <3>2, <4>1, CommittedColumns DEF Columns
      <4> QED
        BY <1>1, <3>1, <4>2, <4>3, <4>4
    <3> QED
      BY <1>1, <3>1, <3>2
  <2> QED
    BY <1>1, <2>1, <2>2, TablesMove
<1> DEFINE Step == \A t \in DOMAIN ticket : ~ticket[t].is_active
                      => t \in DOMAIN ticket' /\ ~ticket'[t].is_active
<1>2. TypeOK /\ CreatedOnce /\ [Next]_vars => [Step]_vars
  BY <1>1
<1>3. Spec => [][Step]_vars
  BY <1>2, TypeCorrect, RequestsSound, PTL DEF Spec
<1> QED
  BY <1>3 DEF RemovalIsFinal

\* Whoever a ticket is assigned to was active when the request checked it.
THEOREM AssigneesServed == Spec => []AssigneesWereActive
<1>1. Init => AssigneesWereActive
  BY DEF Init, AssigneesWereActive
<1>2. ASSUME TypeOK, RequestsChecked, AssigneesWereActive, [Next]_vars
      PROVE  AssigneesWereActive'
  <2>1. seated \subseteq seated'
    BY <1>2 DEF Next, Terminated, vars, Load, CheckAssignee, Commit, Abort, SetActive
  <2>2. CASE UNCHANGED ticket
    BY <1>2, <2>1, <2>2 DEF AssigneesWereActive
  <2>3. ASSUME NEW r \in Requests, Commit(r), NotNull(Wanted(r)), NEW t \in DOMAIN ticket'
        PROVE  ticket'[t].assigned_to \in seated \cup {NULL}
    <3>0. /\ t # Target(r) => t \in DOMAIN ticket /\ ticket'[t] = ticket[t]
          /\ t = Target(r) /\ req[r].op.kind = "create" => ticket'[t] = Wanted(r)
      <4>1. TypeOK /\ Commit(r) /\ NotNull(Wanted(r))
        BY <1>2, <2>3
      <4> QED
        BY <4>1, <2>3, CommittedRow
    <3>1. CASE t # Target(r)
      BY <1>2, <3>0, <3>1 DEF AssigneesWereActive
    <3>2. /\ req[r].pc = "ready"
          /\ ChecksAssignee(req[r].op) => req[r].op.assignee \in seated
      BY <1>2, <2>3 DEF Commit, RequestsChecked, Open
    <3>3. CASE t = Target(r) /\ req[r].op.kind = "create"
      <4>1. ticket'[t].assigned_to = req[r].op.assignee
        BY <3>0, <3>3 DEF Wanted
      <4> QED
        BY <3>2, <3>3, <4>1 DEF ChecksAssignee
    <3>4. CASE t = Target(r) /\ req[r].op.kind # "create"
      <4>1. \/ ticket'[t].assigned_to = ticket[t].assigned_to /\ t \in DOMAIN ticket
            \/ /\ ticket'[t].assigned_to = Wanted(r).assigned_to
               /\ Wanted(r).assigned_to # req[r].seen.assigned_to
        BY <1>2, <2>3, <3>4, CommittedColumns DEF Columns
      <4>2. Wanted(r).assigned_to = IF req[r].op.kind = "assign" THEN req[r].op.assignee
                                    ELSE req[r].seen.assigned_to
        BY <1>2, <3>2, <3>4, WantedColumns
      <4>3. CASE ticket'[t].assigned_to = ticket[t].assigned_to /\ t \in DOMAIN ticket
        BY <1>2, <4>3 DEF AssigneesWereActive
      <4>4. CASE ticket'[t].assigned_to = Wanted(r).assigned_to /\ req[r].op.kind = "assign"
        BY <3>2, <4>2, <4>4 DEF ChecksAssignee
      <4> QED
        BY <4>1, <4>2, <4>3, <4>4
    <3> QED
      BY <3>1, <3>3, <3>4
  <2>4. CASE \E r \in Requests : Commit(r) /\ NotNull(Wanted(r))
    BY <2>1, <2>3, <2>4 DEF AssigneesWereActive
  <2> QED
    BY <1>2, <2>2, <2>4, TablesMove
<1> QED
  BY <1>1, <1>2, TypeCorrect, RequestsSound, PTL DEF Spec

(***************************************************************************)
(* Tickets on which requests do not overlap.                               *)
(***************************************************************************)

\* A request that stays open keeps its body, its target and the row it loaded.
LEMMA StaysOpen ==
    ASSUME TypeOK, [Next]_vars, NEW r \in Requests, Open(r), Open(r)'
    PROVE  /\ req'[r].op = req[r].op /\ req'[r].seen = req[r].seen
           /\ Target(r)' = Target(r)
<1>1. \/ req'[r] = req[r]
      \/ req'[r] = [req[r] EXCEPT !.pc = "ready"]
  BY RequestMoves DEF Open
<1>2. req'[r].op = req[r].op /\ req'[r].seen = req[r].seen
  BY <1>1 DEF TypeOK, ReqOK, Idle
<1> QED
  BY <1>2 DEF Target

\* A request that opens found its ticket free, unless it is a contended one.
LEMMA Opens ==
    ASSUME TypeOK, [Next]_vars, NEW r \in Requests, ~Open(r), Open(r)'
    PROVE  \E o \in Ops : /\ MayStart(o) /\ UNCHANGED ticket /\ req[r].pc = "idle"
                          /\ req'[r].op = o /\ Target(r)' = IF o.kind = "create" THEN r
                                                             ELSE o.ticket
                          /\ o.kind # "create" => req'[r].seen = ticket[o.ticket]
<1>1. PICK o \in Ops : /\ req[r].pc = "idle" /\ UNCHANGED ticket
                       /\ MayStart(o) /\ req'[r] = Begin(o)
  BY RequestMoves DEF Open
<1>2. req'[r].op = o /\ (o.kind # "create" => req'[r].seen = ticket[o.ticket])
  BY <1>1 DEF Begin, Idle
<1> QED
  BY <1>1, <1>2 DEF Target

\* The row of a calm ticket is what its one open request loaded.
THEOREM CalmSeen == Spec => []CalmRequestsSeeAll
<1>1. Init => CalmRequestsSeeAll
  BY DEF Init, CalmRequestsSeeAll, Open, Idle
<1>2. ASSUME TypeOK, CreatedOnce, CalmRequestsSeeAll, [Next]_vars PROVE CalmRequestsSeeAll'
  <2>1. ASSUME NEW r \in Requests, NEW s \in Requests, r # s, Open(r)', Open(s)',
               ~Open(s), Open(r), Target(r)' = Target(s)', Target(r)' \notin Contended,
               req'[r].op.kind # "create"
        PROVE  FALSE
    <3>1. PICK o \in Ops : /\ MayStart(o) /\ req[s].pc = "idle"
                           /\ Target(s)' = IF o.kind = "create" THEN s ELSE o.ticket
      BY <1>2, <2>1, Opens
    <3>2. Target(r)' = Target(r) /\ req[r].op.kind # "create"
      BY <1>2, <2>1, StaysOpen
    <3>3. CASE o.kind = "create"
      <4>1. Target(r) = s /\ s \in DOMAIN ticket
        BY <1>2, <2>1, <3>1, <3>2, <3>3 DEF TypeOK, ReqOK, Open, Target
      <4> QED
        BY <1>2, <3>1, <4>1 DEF CreatedOnce
    <3>4. CASE o.kind # "create"
      BY <2>1, <3>1, <3>2, <3>4 DEF MayStart
    <3> QED
      BY <3>3, <3>4
  <2>2. ASSUME NEW r \in Requests, NEW s \in Requests, r # s, Open(r)', Open(s)',
               Open(s), ~Open(r), Target(r)' = Target(s)', Target(r)' \notin Contended,
               req'[r].op.kind # "create"
        PROVE  FALSE
    <3>1. PICK o \in Ops : /\ MayStart(o) /\ req'[r].op = o
                           /\ Target(r)' = IF o.kind = "create" THEN r ELSE o.ticket
      BY <1>2, <2>2, Opens
    <3>2. Target(s)' = Target(s)
      BY <1>2, <2>2, StaysOpen
    <3> QED
      BY <2>2, <3>1, <3>2 DEF MayStart
  <2>3. ASSUME NEW r \in Requests, NEW s \in Requests, r # s, Open(r)', Open(s)',
               Target(r)' = Target(s)', Target(r)' \notin Contended,
               req'[r].op.kind # "create"
        PROVE  FALSE
    <3>1. CASE Open(r) /\ Open(s)
      BY <1>2, <2>3, <3>1, StaysOpen DEF CalmRequestsSeeAll
    <3>2. CASE ~Open(r) /\ ~Open(s)
      BY <1>2, <2>3, <3>2, OneMoves DEF Open
    <3> QED
      BY <2>1, <2>2, <2>3, <3>1, <3>2
  <2>4. ASSUME NEW r \in Requests, Open(r)', req'[r].op.kind # "create", Target(r)' \notin Contended
        PROVE  req'[r].seen = ticket'[Target(r)']
    <3>1. CASE ~Open(r)
      BY <1>2, <2>4, <3>1, Opens
    <3>2. CASE Open(r)
      <4>1. /\ req'[r].seen = req[r].seen /\ Target(r)' = Target(r)
            /\ req[r].op.kind # "create" /\ req[r].seen = ticket[Target(r)]
            /\ Target(r) \in DOMAIN ticket
        BY <1>2, <2>4, <3>2, StaysOpen DEF CalmRequestsSeeAll, TypeOK, ReqOK, Open, Target
      <4>2. ASSUME NEW s \in Requests, Commit(s), NotNull(Wanted(s))
            PROVE  ticket'[Target(r)] = ticket[Target(r)]
        <5>1. Open(s) /\ req'[s].pc = "done"
          BY <1>2, <4>2, ZenonT(60) DEF Commit, Open, TypeOK, Done, Idle
        <5>2. s # r
          BY <2>4, <5>1 DEF Open
        <5>3. Target(s) # Target(r)
          BY <1>2, <2>4, <3>2, <4>1, <5>1, <5>2 DEF CalmRequestsSeeAll
        <5> QED
          BY <1>2, <4>1, <4>2, <5>3, CommittedRow
      <4> QED
        BY <1>2, <4>1, <4>2, TablesMove
    <3> QED
      BY <3>1, <3>2
  <2> QED
    BY <2>3, <2>4 DEF CalmRequestsSeeAll
<1> QED
  BY <1>1, <1>2, TypeCorrect, RequestsSound, PTL DEF Spec

\* A commit to a calm ticket leaves exactly the row it wanted, column by column,
\* and a create leaves a new row.
LEMMA CalmCommit ==
    ASSUME TypeOK, CreatedOnce, RequestsChecked, CalmRequestsSeeAll,
           NEW r \in Requests, Commit(r), NotNull(Wanted(r)), Target(r) \notin Contended
    PROVE  /\ \A c \in Columns : ticket'[Target(r)][c] = Wanted(r)[c]
           /\ Target(r) \in DOMAIN ticket <=> req[r].op.kind # "create"
           /\ req[r].op.kind # "create" =>
                 /\ req[r].seen = ticket[Target(r)] /\ ticket[Target(r)].is_active
                 /\ req[r].op.kind = "status" =>
                       req[r].op.status \in AllowedFrom(ticket[Target(r)].status)
<1>1. Open(r) /\ req[r].pc = "ready"
  BY DEF Commit, Open
<1>2. CASE req[r].op.kind = "create"
  <2>1. Target(r) = r /\ r \notin DOMAIN ticket
    BY <1>1, <1>2 DEF Target, CreatedOnce
  <2>2. ticket'[Target(r)] = Wanted(r)
    BY <1>2, CommittedRow
  <2> QED
    BY <1>2, <2>1, <2>2
<1>3. CASE req[r].op.kind # "create"
  <2>1. req[r].seen = ticket[Target(r)]
    BY <1>1, <1>3 DEF CalmRequestsSeeAll
  <2>2. /\ req[r].seen.is_active
        /\ req[r].op.kind = "status" => req[r].op.status \in AllowedFrom(req[r].seen.status)
    BY <1>1, <1>3 DEF RequestsChecked
  <2> QED
    BY <1>3, <2>1, <2>2, CommittedColumns
<1> QED
  BY <1>2, <1>3

\* The columns of the ticket that a create makes.
LEMMA CreatedColumns ==
    ASSUME NEW r \in Requests, req[r].op.kind = "create"
    PROVE  /\ Wanted(r).status = "open" /\ Wanted(r).resolved_at = NULL
           /\ Wanted(r).is_active = TRUE
BY DEF Wanted

\* The time that a change of status records is there exactly when it is due.
LEMMA ResolvedWhenDue ==
    ASSUME NEW r \in Requests
    PROVE  ResolvedAt(r) # NULL <=> req[r].op.status \in ResolvedStates
BY NullAssumption DEF ResolvedAt, Times

\* A calm ticket has a resolution time exactly while it is resolved or closed.
THEOREM ResolutionFits == Spec => []ResolvedAtFits
<1>1. Init => ResolvedAtFits
  BY InitAssumption DEF Init, ResolvedAtFits, Calm
<1>2. ASSUME TypeOK, CreatedOnce, RequestsChecked, CalmRequestsSeeAll, ResolvedAtFits, [Next]_vars
      PROVE  ResolvedAtFits'
  <2>1. CASE UNCHANGED ticket
    BY <1>2, <2>1 DEF ResolvedAtFits, Calm
  <2>2. ASSUME NEW r \in Requests, Commit(r), NotNull(Wanted(r)), NEW t \in Calm'
        PROVE  ticket'[t].resolved_at # NULL <=> ticket'[t].status \in ResolvedStates
    <3>1. CASE t # Target(r)
      <4>1. t \in Calm /\ ticket'[t] = ticket[t]
        BY <1>2, <2>2, <3>1, CommittedRow, ZenonT(60) DEF Calm
      <4> QED
        BY <1>2, <4>1 DEF ResolvedAtFits
    <3>2. CASE t = Target(r)
      <4>1. /\ ticket'[t].resolved_at = Wanted(r).resolved_at
            /\ ticket'[t].status = Wanted(r).status
            /\ t \in DOMAIN ticket <=> req[r].op.kind # "create"
            /\ req[r].op.kind # "create" => req[r].seen = ticket[t]
        BY <1>2, <2>2, <3>2, CalmCommit DEF Calm, Columns
      <4>2. CASE req[r].op.kind = "create"
        BY <4>1, <4>2, CreatedColumns DEF ResolvedStates
      <4>3. CASE req[r].op.kind # "create"
        <5>1. req[r].seen.resolved_at # NULL <=> req[r].seen.status \in ResolvedStates
          BY <1>2, <2>2, <3>2, <4>1, <4>3 DEF ResolvedAtFits, Calm
        <5>2. req[r].pc = "ready"
          BY <2>2 DEF Commit
        <5> QED
          BY <1>2, <4>1, <4>3, <5>1, <5>2, WantedColumns, ResolvedWhenDue
      <4> QED
        BY <4>2, <4>3
    <3> QED
      BY <3>1, <3>2
  <2> QED
    BY <1>2, <2>1, <2>2, TablesMove DEF ResolvedAtFits
<1> QED
  BY <1>1, <1>2, TypeCorrect, RequestsSound, CalmSeen, PTL DEF Spec

\* The tickets on which requests do not overlap follow the lifecycle: each commit
\* opens, moves or removes one card, or leaves all of them as they are.
THEOREM LifecycleImplemented == Spec => FollowsLifecycle
<1>1. ResolvedAtFits => Lifecycle!Init
  BY DEF ResolvedAtFits, Lifecycle!Init, Lifecycle!Answered, Lifecycle!Final, card, ResolvedStates
<1>2. ASSUME TypeOK, CreatedOnce, RequestsChecked, CalmRequestsSeeAll, [Next]_vars
      PROVE  [Lifecycle!Next]_card
  <2>1. CASE UNCHANGED ticket
    BY <2>1 DEF card, Calm
  <2>2. ASSUME NEW r \in Requests, Commit(r), NotNull(Wanted(r))
        PROVE  [Lifecycle!Next]_card
    <3> DEFINE o == req[r].op
               t == Target(r)
    <3>1. /\ DOMAIN ticket' = DOMAIN ticket \cup {t} /\ t \in TicketIds
          /\ \A u \in DOMAIN ticket : u # t => ticket'[u] = ticket[u]
          /\ o.kind # "create" => t \in DOMAIN ticket
      BY <1>2, <2>2, CommittedRow, CommittedColumns
    <3>2. /\ DOMAIN card = Calm /\ DOMAIN card' = Calm'
          /\ \A u \in Calm \ {t} : u \in Calm' /\ card'[u] = card[u]
      BY <3>1 DEF card, Calm
    <3>3. CASE t \in Contended
      <4>1. Calm' = Calm
        BY <3>1, <3>3 DEF Calm
      <4>2. \A u \in Calm : ticket'[u] = ticket[u]
        BY <3>1, <3>3 DEF Calm
      <4> QED
        BY <4>1, <4>2 DEF card
    <3>4. CASE t \notin Contended
      <4>1. /\ ticket'[t].status = Wanted(r).status
            /\ ticket'[t].resolved_at = Wanted(r).resolved_at
            /\ ticket'[t].is_active = Wanted(r).is_active
            /\ t \in DOMAIN ticket <=> o.kind # "create"
            /\ o.kind # "create" =>
                  /\ req[r].seen = ticket[t] /\ ticket[t].is_active
                  /\ o.kind = "status" => o.status \in AllowedFrom(ticket[t].status)
        BY <1>2, <2>2, <3>4, CalmCommit DEF Columns
      <4>2. /\ Lifecycle!Only(t) /\ t \in TicketIds \ Contended
            /\ card'[t] = [status    |-> ticket'[t].status, is_active |-> ticket'[t].is_active,
                           resolved  |-> ticket'[t].resolved_at # NULL]
            /\ t \in DOMAIN card <=> o.kind # "create"
            /\ o.kind # "create" =>
                  card[t] = [status    |-> ticket[t].status, is_active |-> ticket[t].is_active,
                             resolved  |-> ticket[t].resolved_at # NULL]
        <5>1. t \in Calm' /\ (t \in Calm <=> o.kind # "create") /\ Calm' = Calm \cup {t}
          BY <3>1, <3>4, <4>1 DEF Calm
        <5>2. Lifecycle!Only(t)
          BY <3>2, <5>1 DEF Lifecycle!Only
        <5> QED
          BY <3>1, <3>2, <3>4, <5>1, <5>2 DEF card
      <4>3. req[r].pc = "ready"
        BY <2>2 DEF Commit
      <4>4. o.kind # "create" => ticket[t].is_active = TRUE
        BY <1>2, <4>1 DEF TypeOK, RowOK
      <4> HIDE DEF o, t
      <4>5. CASE o.kind = "create"
        <5>1. Lifecycle!Open(t)
          BY <4>1, <4>2, <4>5, CreatedColumns DEF Lifecycle!Open, o
        <5> QED
          BY <4>2, <5>1 DEF Lifecycle!Next
      <4>6. CASE o.kind = "status"
        <5>1. /\ Wanted(r).status = o.status /\ Wanted(r).resolved_at = ResolvedAt(r)
              /\ Wanted(r).is_active = TRUE
          BY <1>2, <4>1, <4>3, <4>6, WantedColumns DEF o
        <5>2. ticket[t].status \in Status
          BY <1>2, <4>1, <4>2, <4>6, <3>1 DEF TypeOK, RowOK
        <5>3. ticket[t].status \in Lifecycle!Before(o.status) /\ o.status \in Lifecycle!Workflow
          BY <4>1, <4>6, <5>2 DEF AllowedFrom, Status, Lifecycle!Before, Lifecycle!Workflow,
                                  Lifecycle!Answered, Lifecycle!Final
        <5>4. ResolvedAt(r) # NULL <=> o.status \in Lifecycle!Answered
          BY ResolvedWhenDue DEF o, ResolvedStates, Lifecycle!Answered, Lifecycle!Final
        <5>5. card'[t] = [status |-> o.status, is_active |-> TRUE,
                          resolved |-> o.status \in Lifecycle!Answered]
          <6>1. /\ ticket'[t].status = o.status /\ ticket'[t].is_active = TRUE
                /\ (ticket'[t].resolved_at # NULL) = (o.status \in Lifecycle!Answered)
            BY <4>1, <5>1, <5>4
          <6> QED
            BY <4>2, <6>1
        <5>6. Lifecycle!Move(t)
          <6>1. t \in DOMAIN card /\ card[t].is_active /\ card[t].status = ticket[t].status
            BY <4>2, <4>6, <4>4
          <6> QED
            BY <4>2, <5>3, <5>5, <6>1 DEF Lifecycle!Move
        <5> QED
          BY <4>2, <5>6 DEF Lifecycle!Next
      <4>7. CASE o.kind = "deactivate"
        <5>1. /\ Wanted(r).status = ticket[t].status
              /\ Wanted(r).resolved_at = ticket[t].resolved_at
              /\ Wanted(r).is_active = FALSE
          BY <1>2, <4>1, <4>3, <4>7, WantedColumns DEF o
        <5>2. Lifecycle!Remove(t)
          <6>1. /\ ticket'[t].status = ticket[t].status /\ ticket'[t].is_active = FALSE
                /\ (ticket'[t].resolved_at # NULL) = (ticket[t].resolved_at # NULL)
            BY <4>1, <5>1
          <6>2. card'[t] = [status |-> ticket[t].status, is_active |-> FALSE,
                            resolved |-> ticket[t].resolved_at # NULL]
            BY <4>2, <6>1
          <6>3. /\ t \in DOMAIN card /\ card[t].is_active /\ card[t].status = ticket[t].status
                /\ card[t].resolved = (ticket[t].resolved_at # NULL)
            BY <4>2, <4>7, <4>4
          <6> QED
            BY <4>2, <6>2, <6>3 DEF Lifecycle!Remove
        <5> QED
          BY <4>2, <5>2 DEF Lifecycle!Next
      <4>8. CASE o.kind \notin {"create", "status", "deactivate"}
        <5>1. /\ Wanted(r).status = ticket[t].status
              /\ Wanted(r).resolved_at = ticket[t].resolved_at
              /\ Wanted(r).is_active = ticket[t].is_active
          BY <1>2, <4>1, <4>3, <4>8, WantedColumns DEF o
        <5>2. card'[t] = card[t] /\ t \in DOMAIN card
          BY <4>1, <4>2, <4>8, <5>1
        <5>3. DOMAIN card' = DOMAIN card /\ \A u \in DOMAIN card : card'[u] = card[u]
          BY <3>2, <4>2, <5>2 DEF Lifecycle!Only
        <5>4. card' = card
          BY <5>3 DEF card
        <5> QED
          BY <5>4
      <4> QED
        BY <4>5, <4>6, <4>7, <4>8
    <3> QED
      BY <3>3, <3>4
  <2> QED
    BY <1>2, <2>1, <2>2, TablesMove
<1> QED
  BY <1>1, <1>2, TypeCorrect, RequestsSound, CalmSeen, ResolutionFits, PTL
     DEF Spec, FollowsLifecycle, Lifecycle!Spec
==============================================================================
