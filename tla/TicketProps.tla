---------------------------- MODULE TicketProps -----------------------------
(***************************************************************************)
(* What is claimed of Tickets.                                             *)
(***************************************************************************)
EXTENDS Tickets

(***************************************************************************)
(* Types.                                                                  *)
(***************************************************************************)

Code == {NULL, 200, 403, 404, 409, 422, 500}

ReqOK(q) ==
    /\ DOMAIN q = DOMAIN Idle
    /\ q.pc \in {"idle", "checking", "ready", "done"} /\ q.code \in Code
    /\ q.pc \in {"checking", "ready"} =>
          /\ q.op \in Ops /\ q.op.caller \in Users
          /\ q.op.kind # "create" => RowOK(q.seen) /\ q.op.ticket \in DOMAIN ticket

\* Every ticket row holds values of its columns' types (no column that cannot be
\* null is null), and every request is at one of its stages.
TypeOK ==
    /\ active \subseteq Users /\ seated \subseteq Users
    /\ DOMAIN ticket \subseteq TicketIds
    /\ \A t \in DOMAIN ticket : RowOK(ticket[t])
    /\ DOMAIN req = Requests /\ \A r \in Requests : ReqOK(req[r])

(***************************************************************************)
(* What holds however requests overlap.                                    *)
(***************************************************************************)

\* Only a PATCH of the status changes a status, to the one it names and along a
\* transition allowed from the status it loaded: an edit of the text, an
\* assignment or a removal that loaded the ticket earlier never puts an old
\* status back, because its flush writes changed columns only.
StatusChangesAreRequested ==
    [][\A t \in DOMAIN ticket : ticket'[t].status # ticket[t].status
          => \E r \in Requests :
                /\ req[r].pc = "ready" /\ req'[r].pc = "done"
                /\ req[r].op.kind = "status" /\ Target(r) = t
                /\ ticket'[t].status = req[r].op.status
                /\ ticket'[t].status \in AllowedFrom(req[r].seen.status)]_vars

\* A ticket that was removed stays removed, whatever loaded it before.
RemovalIsFinal ==
    [][\A t \in DOMAIN ticket : ~ticket[t].is_active
          => t \in DOMAIN ticket' /\ ~ticket'[t].is_active]_vars

\* Whoever a ticket is assigned to was an active user at some time, although
\* users are deactivated between the check of the assignee and the commit.
AssigneesWereActive ==
    \A t \in DOMAIN ticket : ticket[t].assigned_to \in seated \cup {NULL}

(***************************************************************************)
(* What holds of the tickets that no two requests work on at once.         *)
(***************************************************************************)

Calm == DOMAIN ticket \ Contended

\* A ticket has a resolution time if and only if it is resolved or closed, also
\* after it was taken up again or resolved twice.
ResolvedAtFits ==
    \A t \in Calm : ticket[t].resolved_at # NULL <=> ticket[t].status \in ResolvedStates

\* Those tickets as the lifecycle sees them.
card == [t \in Calm |-> [status    |-> ticket[t].status,
                         is_active |-> ticket[t].is_active,
                         resolved  |-> ticket[t].resolved_at # NULL]]

Lifecycle == INSTANCE TicketLifecycle WITH board <- card, TicketIds <- TicketIds \ Contended

\* Those tickets follow the lifecycle.
FollowsLifecycle == Lifecycle!Spec

(***************************************************************************)
(* What makes those properties inductive.                                  *)
(***************************************************************************)

\* A ticket created here appears when the request that creates it commits.
CreatedOnce == \A r \in Requests : r \in DOMAIN ticket => req[r].pc = "done"

\* What an open request has checked still holds of the row it loaded.
RequestsChecked ==
    \A r \in Requests : Open(r) =>
        /\ req[r].op.kind # "create" => req[r].seen.is_active
        /\ req[r].op.kind = "status" => req[r].op.status \in AllowedFrom(req[r].seen.status)
        /\ req[r].pc = "ready" /\ ChecksAssignee(req[r].op) => req[r].op.assignee \in seated

\* Every user that is active now has been active.
ActiveAreSeated == active \subseteq seated

\* On a calm ticket there is one open request at most, and the row it loaded is
\* still the ticket's row.
CalmRequestsSeeAll ==
    \A r \in Requests : Open(r) /\ req[r].op.kind # "create" /\ Target(r) \notin Contended =>
        /\ req[r].seen = ticket[Target(r)]
        /\ \A s \in Requests : Open(s) /\ Target(s) = Target(r) => s = r

(***************************************************************************)
(* What the repository says and the handlers do not do.                    *)
(***************************************************************************)

\* A status only ever changes along ALLOWED_TRANSITIONS: what
\* TicketStatusPolicy checks of the row it is given.
TransitionsAllowed ==
    [][\A t \in DOMAIN ticket : ticket'[t].status \in AllowedFrom(ticket[t].status)]_vars
==============================================================================
