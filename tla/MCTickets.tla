------------------------------ MODULE MCTickets ------------------------------
(***************************************************************************)
(* Instances of Tickets for TLC.  Two tickets of user u: `busy`, resolved, *)
(* on which requests may overlap, and `calm`, open, on which they do not.  *)
(* User gone is inactive at first and may be activated; adm is an admin    *)
(* that may be deactivated.                                                *)
(***************************************************************************)
EXTENDS TicketProps

CONSTANTS busy, calm, adm, u, gone, r1

Row(status, at) ==
    [title |-> "t", description |-> NULL, status |-> status, created_by |-> u,
     assigned_to |-> NULL, changed_by |-> NULL, resolved_at |-> at, is_active |-> TRUE]

MCUsers   == {adm, u, gone}
MCTicketRows == [t \in {busy, calm} |->
    IF t = busy THEN [Row("resolved", Seed) EXCEPT !.changed_by = adm] ELSE Row("open", NULL)]

Create(caller, user)      == [kind |-> "create", caller |-> caller, title |-> "t", assignee |-> user]
Edit(caller, t, set)      == [kind |-> "update", caller |-> caller, ticket |-> t, set |-> set]
Move(caller, t, status)   == [kind |-> "status", caller |-> caller, ticket |-> t, status |-> status]
Assignment(caller, t, user) == [kind |-> "assign", caller |-> caller, ticket |-> t, assignee |-> user]
Remove(caller, t)         == [kind |-> "deactivate", caller |-> caller, ticket |-> t]

MCOps ==
    {Move(adm, busy, s) : s \in {"closed", "in_progress", "open"}}
    \cup {Move(adm, calm, s) : s \in {"resolved", "closed", "in_progress"}}
    \cup {Create(u, gone), Create(TokenAdmin, NULL), Move(adm, r1, "rejected"),
          Edit(u, busy, [title |-> "t2"]), Edit(u, calm, [title |-> NULL]),
          Edit(gone, calm, [description |-> "d"]),
          Assignment(adm, busy, adm), Assignment(adm, calm, gone), Assignment(u, calm, u),
          Remove(adm, busy), Remove(adm, calm)}

MCMoves == {Move(adm, busy, s) : s \in {"closed", "in_progress"}}
MCWork  == {Move(adm, calm, "in_progress"), Assignment(u, calm, u), Assignment(adm, calm, u),
            Edit(u, calm, [title |-> "t2"])}
==============================================================================
