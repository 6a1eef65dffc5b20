--------------------------- MODULE TicketLifecycle ---------------------------
(***************************************************************************)
(* What the ticket endpoints promise of one ticket after another: a ticket *)
(* opens, an admin moves it from status to status along the workflow, it   *)
(* carries a resolution time exactly while it is resolved or closed, a     *)
(* closed one stays closed, and one that was removed is never touched.     *)
(* Module Tickets is shown to implement this for the tickets that never    *)
(* have two requests at work on them at once.                              *)
(***************************************************************************)
CONSTANT TicketIds

\* The tickets that exist: [status, is_active, resolved : has a resolution time].
VARIABLE board

Final    == "closed"
Answered == {"resolved", Final}

\* The workflow, by the statuses that may come before each status.
Before(status) ==
    CASE status = "open"        -> {"open", "rejected"}
      [] status = "in_progress" -> {"open", "in_progress", "resolved"}
      [] status = "resolved"    -> {"open", "in_progress", "resolved"}
      [] status = Final         -> {"open", "in_progress", "resolved", Final}
      [] status = "rejected"    -> {"open", "in_progress", "rejected"}

Workflow == {"open", "in_progress", "rejected"} \cup Answered

Init == \A t \in DOMAIN board : board[t].resolved <=> board[t].status \in Answered

Only(t) == /\ DOMAIN board' = DOMAIN board \cup {t}
           /\ \A u \in DOMAIN board \ {t} : board'[u] = board[u]

Open(t) ==
    /\ t \notin DOMAIN board
    /\ Only(t)
    /\ board'[t] = [status |-> "open", is_active |-> TRUE, resolved |-> FALSE]

Move(t) ==
    /\ t \in DOMAIN board
    /\ board[t].is_active
    /\ Only(t)
    /\ \E status \in Workflow :
          /\ board[t].status \in Before(status)
          /\ board'[t] = [status |-> status, is_active |-> TRUE, resolved |-> status \in Answered]

Remove(t) ==
    /\ t \in DOMAIN board
    /\ board[t].is_active
    /\ Only(t)
    /\ board'[t] = [status |-> board[t].status, is_active |-> FALSE,
                    resolved |-> board[t].resolved]

Next == \E t \in TicketIds : Open(t) \/ Move(t) \/ Remove(t)

Spec == Init /\ [][Next]_board
==============================================================================
