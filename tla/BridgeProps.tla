---------------------------- MODULE BridgeProps -----------------------------
(***************************************************************************)
(* What is claimed of Bridge.                                              *)
(***************************************************************************)
EXTENDS Bridge

(***************************************************************************)
(* Types.                                                                  *)
(***************************************************************************)

\* What a request can have been answered.
Answers(o) == Failures \cup (IF Checks(o) THEN {Fine} ELSE Subs \cup {Missing})

ReqOK(q) ==
    /\ DOMAIN q = DOMAIN Idle
    /\ q.pc \in {"idle", "sweeping", "calling", "half", "ready", "done"}
    /\ q.code \in {NULL, 200, 404, 409, 500, 502}
    /\ q.todo \subseteq DOMAIN bridge
    /\ q.pc \notin {"idle", "done"} => q.op \in Ops
    /\ q.pc = "sweeping" => q.op.kind = "sweep"
    /\ q.pc \in {"calling", "half", "ready"} =>
          /\ q.customer \in Customers
          /\ q.seen = NULL \/ (RowOK(q.seen) /\ q.customer \in DOMAIN bridge)
          /\ q.op.kind # "configure" =>
                /\ RowOK(q.seen) /\ Resolved(q.seen) /\ q.at \in Nat
                /\ q.pc = "ready" => q.answer \in Answers(q.op)
    /\ q.pc = "half" => ~Checks(q.op) /\ q.answer \in Subs
    /\ q.pc \in {"calling", "half"} => q.op.kind # "configure"

\* Every row holds values of its columns' types, and every request is at one of
\* its stages.
TypeOK ==
    /\ isActive \subseteq Customers
    /\ DOMAIN bridge \subseteq Customers /\ \A c \in DOMAIN bridge : RowOK(bridge[c])
    /\ remote \in [Urls -> Subs \cup {NULL}]
    /\ DOMAIN req = Requests /\ \A r \in Requests : ReqOK(req[r])
    /\ clock \in Nat
    /\ answered \subseteq Customers \X Urls \X Subs

(***************************************************************************)
(* What holds however requests overlap.                                    *)
(***************************************************************************)

\* The URL and the switch of a bridge change only at the commit of a request
\* that names them: an answer that comes after the configuration was changed
\* never puts the old one back.
ConfiguredByRequest ==
    [][\A c \in DOMAIN bridge : \A k \in {"base_url", "is_enabled"} :
          bridge'[c][k] # bridge[c][k]
             => \E r \in Requests :
                   /\ req[r].pc = "ready" /\ req'[r].pc = "done"
                   /\ req[r].op.kind = "configure" /\ req[r].customer = c
                   /\ k \in DOMAIN req[r].op.set /\ bridge'[c][k] = req[r].op.set[k]]_vars

\* Whatever is remembered of a subscription, some bridge of that customer once
\* answered it, although the columns may come from different answers.
CachedWasAnswered ==
    \A c \in DOMAIN bridge :
        /\ bridge[c].cached_term # NULL =>
              \E t \in answered : t[1] = c /\ t[3].term = bridge[c].cached_term
        /\ bridge[c].cached_on # NULL =>
              \E t \in answered : t[1] = c /\ t[3].on = bridge[c].cached_on

\* Why: the subscription in a request's hands is one that the bridge of its
\* customer, at the URL it has loaded, has answered with.
AnswersHeard ==
    \A r \in Requests :
        req[r].pc \in {"half", "ready"} /\ req[r].answer \in Subs =>
            <<req[r].customer, Url(r), req[r].answer>> \in answered

\* A request that has begun ends, the script with its list of bridges included.
RequestsEnd == \A r \in Requests : Open(r) ~> req[r].pc = "done"

(***************************************************************************)
(* What holds of the customers on whose bridge nothing overlaps.           *)
(***************************************************************************)

Calm == Customers \ Contended

HealthOf(row) ==
    CASE row.online = NULL /\ row.checked_at = NULL /\ row.health_error = NULL -> "unknown"
      [] row.online = TRUE /\ row.checked_at # NULL /\ row.health_error = NULL -> "online"
      [] row.online = FALSE /\ row.checked_at # NULL /\ row.health_error # NULL -> "offline"
      [] OTHER -> "confused"

Entry(row) ==
    [url     |-> row.base_url,
     enabled |-> row.is_enabled,
     health  |-> HealthOf(row),
     sub     |-> IF row.cached_term = NULL /\ row.cached_on = NULL THEN NULL
                 ELSE [term |-> row.cached_term, on |-> row.cached_on],
     synced  |-> row.synced_at,
     failed  |-> row.sub_error # NULL]

book == [c \in DOMAIN bridge \cap Calm |-> Entry(bridge[c])]

Book == INSTANCE BridgeBook WITH Customers <- Calm, said <- answered

Working(r) == req[r].pc \in {"calling", "half", "ready"}

\* What is remembered of those bridges was learned from the bridge configured
\* now, as a whole and in the order of asking.
FollowsBook == Book!Spec

\* Why: one request at most is at work on such a bridge,
OneAtWork ==
    \A r, s \in Requests :
        Working(r) /\ Working(s) /\ req[r].customer = req[s].customer
        /\ req[r].customer \in Calm => r = s

\* the row it has loaded is still what is stored,
SeenIsCurrent ==
    \A r \in Requests : Working(r) /\ req[r].customer \in Calm => req[r].seen = Row(req[r].customer)

\* and its time is later than those of the answers remembered before.
LaterThanSeen ==
    /\ \A c \in DOMAIN bridge : bridge[c].synced_at # NULL => bridge[c].synced_at < clock
    /\ \A r \in Requests : Working(r) /\ req[r].op.kind # "configure" =>
          /\ req[r].at < clock
          /\ req[r].seen.synced_at # NULL => req[r].seen.synced_at < req[r].at
==============================================================================
