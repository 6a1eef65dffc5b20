------------------------------- MODULE Tickets -------------------------------
(***************************************************************************)
(* Support tickets (src/app/modules/tickets/service.py).  A request loads  *)
(* its ticket, checks what it may do to the row it loaded, assigns columns *)
(* and commits; the flush writes the assigned columns that differ from the *)
(* loaded ones (module Orm).  Between the load and the commit other        *)
(* requests may commit to the same ticket.                                 *)
(*                                                                         *)
(* X_Defect before an operator X is X with a plausible bug, see Purchases. *)
(***************************************************************************)
EXTENDS Orm

CONSTANTS
    NULL,
    Users,         \* callers with a local user row
    Admins,        \* those of them with the admin role
    TokenAdmin,    \* caller with the admin role by its token only (id is None)
    Requests,      \* requests to the ticket endpoints, each handled once
    Seed,          \* stands for the requests handled before
    Ops,           \* bodies a request may have
    Switched,      \* users that get (de)activated
    InitTickets,   \* the tickets that exist at first
    InitActive,    \* the users that are active at first
    Contended      \* tickets on which requests may overlap

\* A ticket created here is known by the request that creates it.
TicketIds == Requests \cup DOMAIN InitTickets
Callers   == Users \cup {TokenAdmin}

(***************************************************************************)
(* TicketStatusPolicy: the statuses of a ticket, the changes of status an  *)
(* admin may ask for, and the statuses that carry a resolution time.       *)
(***************************************************************************)

Status == {"open", "in_progress", "resolved", "closed", "rejected"}

AllowedFrom_ReopensClosed(status) ==
    CASE status = "open"        -> Status
      [] status = "in_progress" -> Status \ {"open"}
      [] status = "resolved"    -> {"resolved", "closed", "in_progress"}
      [] status = "closed"      -> {"closed", "in_progress"}
      [] status = "rejected"    -> {"rejected", "open"}

\* ALLOWED_TRANSITIONS.
AllowedFrom(status) ==
    CASE status = "open"        -> Status
      [] status = "in_progress" -> Status \ {"open"}
      [] status = "resolved"    -> {"resolved", "closed", "in_progress"}
      [] status = "closed"      -> {"closed"}
      [] status = "rejected"    -> {"rejected", "open"}

ResolvedStates == {"resolved", "closed"}

(***************************************************************************)
(* Rows and request bodies.  `title` stands for the columns a PATCH may    *)
(* set and that cannot be null, `description` for the ones that can.       *)
(***************************************************************************)

Columns == {"title", "description", "status", "created_by", "assigned_to",
            "changed_by", "resolved_at", "is_active"}

NotNull_Unchecked(row) == TRUE
NotNull(row) == row.title # NULL

\* A resolution time is known by the request that took it; NULL when there is none.
Times == Requests \cup {Seed}

RowOK(row) ==
    /\ DOMAIN row = Columns
    /\ row.title # NULL
    /\ row.status \in Status
    /\ row.created_by \in Users
    /\ row.assigned_to \in Users \cup {NULL}
    /\ row.changed_by \in Users \cup {NULL}
    /\ row.resolved_at \in Times \cup {NULL}
    /\ row.is_active \in BOOLEAN

\* TicketCreate, TicketUpdate, TicketStatusUpdate, TicketAssignRequest, DELETE.
Body(o) ==
    /\ o.caller \in Callers
    /\ \/ o.kind = "create" /\ o.assignee \in Users \cup {NULL} /\ o.title # NULL
       \/ /\ o.kind = "update"
          /\ o.ticket \in TicketIds /\ DOMAIN o.set \subseteq {"title", "description"}
       \/ o.kind = "status" /\ o.ticket \in TicketIds /\ o.status \in Status
       \/ o.kind = "assign" /\ o.ticket \in TicketIds /\ o.assignee \in Users \cup {NULL}
       \/ o.kind = "deactivate" /\ o.ticket \in TicketIds

ASSUME NullAssumption == NULL \notin Users \cup Times \cup {403, 404, 422}
ASSUME CallerAssumption == Admins \subseteq Users /\ TokenAdmin \notin Users
ASSUME SeedAssumption == Seed \notin Requests
ASSUME OpsAssumption == \A o \in Ops : Body(o)
ASSUME SwitchedAssumption == Switched \subseteq Users /\ InitActive \subseteq Users
ASSUME ContendedAssumption == Contended \subseteq TicketIds
ASSUME InitAssumption ==
    /\ DOMAIN InitTickets \cap Requests = {}
    /\ \A t \in DOMAIN InitTickets :
          /\ RowOK(InitTickets[t])
          /\ InitTickets[t].resolved_at # NULL <=> InitTickets[t].status \in ResolvedStates

VARIABLES
    active,     \* the users whose is_active is set
    ticket,     \* tickets: the rows, by id
    req,        \* what each request has loaded so far
    seated      \* history: every user that was ever active (the first assignees were)

vars == <<active, ticket, req, seated>>

Idle == [pc |-> "idle", op |-> NULL, seen |-> NULL, code |-> NULL]
Done(code) == [Idle EXCEPT !.pc = "done", !.code = code]

Init ==
    /\ active = InitActive
    /\ ticket = InitTickets
    /\ req = [r \in Requests |-> Idle]
    /\ seated = InitActive \cup ({InitTickets[t].assigned_to : t \in DOMAIN InitTickets} \ {NULL})

(***************************************************************************)
(* One request: idle -> checking (an assignee) -> ready -> done.           *)
(***************************************************************************)

Target(r) == IF req[r].op.kind = "create" THEN r ELSE req[r].op.ticket

\* The session of r is open: its transaction neither committed nor rolled back.
Open(r) == req[r].pc \in {"checking", "ready"}

IsAdmin(caller) == caller \in Admins \cup {TokenAdmin}

\* What only an admin may do.
AdminOnly(o) == o.kind \in {"status", "assign", "deactivate"}

\* TicketAccessPolicy._can_access_ticket.
CanAccess(caller, row) == IsAdmin(caller) \/ caller = row.created_by

\* The early returns up to the load of the ticket and the check of its status.
Refusal(o) ==
    IF o.caller \notin Users                                       THEN 403
    ELSE IF AdminOnly(o) /\ ~IsAdmin(o.caller)                     THEN 403
    ELSE IF o.kind = "create"                                      THEN NULL
    ELSE IF o.ticket \notin DOMAIN ticket                          THEN 404
    ELSE IF ~ticket[o.ticket].is_active                            THEN 404
    ELSE IF ~CanAccess(o.caller, ticket[o.ticket])                 THEN 403
    ELSE IF /\ o.kind = "status"
            /\ o.status \notin AllowedFrom(ticket[o.ticket].status) THEN 422
    ELSE NULL

ChecksAssignee(o) == o.kind \in {"create", "assign"} /\ o.assignee # NULL

\* No other open request works on the ticket, unless it is a contended one.
MayStart(o) ==
    o.kind # "create" /\ o.ticket \notin Contended
        => \A r \in Requests : Open(r) => Target(r) # o.ticket

Begin(o) == [Idle EXCEPT !.pc   = IF ChecksAssignee(o) THEN "checking" ELSE "ready",
                         !.op   = o,
                         !.seen = IF o.kind = "create" THEN NULL ELSE ticket[o.ticket]]

\* A request arrives: it is refused, or it goes on with the row it loaded.
Load(r, o) ==
    /\ req[r].pc = "idle"
    /\ MayStart(o)
    /\ req' = [req EXCEPT ![r] = IF Refusal(o) # NULL THEN Done(Refusal(o)) ELSE Begin(o)]
    /\ UNCHANGED <<active, ticket, seated>>

\* TicketUserLookupService.get_active_or_422, a query of its own.
MayBeAssigned_AnyUser(user) == user \in Users
MayBeAssigned(user) == user \in active

CheckAssignee(r) ==
    /\ req[r].pc = "checking"
    /\ req' = [req EXCEPT ![r] = IF MayBeAssigned(@.op.assignee)
                                 THEN [@ EXCEPT !.pc = "ready"] ELSE Done(422)]
    /\ UNCHANGED <<active, ticket, seated>>

\* The time a status change records.
ResolvedAt_KeepsOld(r) ==
    IF req[r].op.status \in ResolvedStates THEN r ELSE req[r].seen.resolved_at
ResolvedAt(r) == IF req[r].op.status \in ResolvedStates THEN r ELSE NULL

\* The row as the session of r holds it when it commits.
Wanted(r) ==
    LET o == req[r].op IN
    CASE o.kind = "create" ->
            [title |-> o.title, description |-> NULL, status |-> "open",
             created_by |-> o.caller, assigned_to |-> o.assignee,
             changed_by |-> NULL, resolved_at |-> NULL, is_active |-> TRUE]
      [] o.kind = "update" -> Assign(req[r].seen, o.set)
      [] o.kind = "status" -> [req[r].seen EXCEPT !.status      = o.status,
                                                  !.changed_by  = o.caller,
                                                  !.resolved_at = ResolvedAt(r)]
      [] o.kind = "assign" -> [req[r].seen EXCEPT !.assigned_to = o.assignee,
                                                  !.changed_by  = o.caller]
      [] o.kind = "deactivate" -> [req[r].seen EXCEPT !.is_active = FALSE]

\* Flush and commit; a null in a column that cannot be null answers 409.
Commit(r) ==
    LET o == req[r].op
        t == Target(r)
    IN  /\ req[r].pc = "ready"
        /\ \/ /\ NotNull(Wanted(r))
              /\ ticket' = Put(ticket, t, IF o.kind = "create" THEN Wanted(r)
                                          ELSE Flush(ticket[t], req[r].seen, Wanted(r)))
              /\ req' = [req EXCEPT ![r] = Done(200)]
           \/ /\ ~NotNull(Wanted(r))
              /\ req' = [req EXCEPT ![r] = Done(409)]
              /\ UNCHANGED ticket
        /\ UNCHANGED <<active, seated>>

\* The session closes without commit: the process or its connection died.
Abort(r) ==
    /\ Open(r)
    /\ req' = [req EXCEPT ![r] = Done(500)]
    /\ UNCHANGED <<active, ticket, seated>>

\* A user is deactivated, or activated again (users/service.py).
SetActive(u) ==
    /\ active' = IF u \in active THEN active \ {u} ELSE active \cup {u}
    /\ seated' = seated \cup active'
    /\ UNCHANGED <<ticket, req>>

Terminated == (\A r \in Requests : req[r].pc = "done") /\ UNCHANGED vars

Next ==
    \/ \E r \in Requests : \/ \E o \in Ops : Load(r, o)
                           \/ CheckAssignee(r) \/ Commit(r) \/ Abort(r)
    \/ \E u \in Switched : SetActive(u)
    \/ Terminated

Spec == Init /\ [][Next]_vars
==============================================================================
