------------------------------ MODULE OtpProps -------------------------------
(***************************************************************************)
(* What is claimed of Otp.                                                 *)
(***************************************************************************)
EXTENDS Otp

(***************************************************************************)
(* Types.                                                                  *)
(***************************************************************************)

Code == {NULL, 200, 400, 401, 404, 429, 500, 503}

RowOK(row) ==
    /\ DOMAIN row = {"mobile", "code", "created_at", "expires_at", "is_used"}
    /\ row.mobile \in Mobiles /\ row.code \in Codes /\ row.is_used \in BOOLEAN
    /\ row.created_at \in Nat /\ row.expires_at \in Nat

AskOK(a) ==
    /\ DOMAIN a = DOMAIN AskIdle
    /\ a.pc \in {"idle", "known", "within", "spending", "spent", "sent", "done"}
    /\ a.code \in Code /\ a.spends \subseteq DOMAIN otp
    /\ a.pc \in {"known", "within", "spending", "spent", "sent"} =>
          a.mobile \in Mobiles /\ a.began \in Nat
    /\ a.pc = "sent" => a.otp_code \in Codes /\ a.expires_at \in Nat

SignOK(s) ==
    /\ DOMAIN s = DOMAIN SignIdle
    /\ s.pc \in {"idle", "matched", "member", "stranger", "done"}
    /\ s.code \in Code
    /\ s.pc \in {"matched", "member", "stranger"} => s.mobile \in Mobiles /\ s.row \in DOMAIN otp

\* Every stored code has values of its columns' types (none of which can be
\* null), and every request and sign-in is at one of its stages.
TypeOK ==
    /\ now \in Nat
    /\ active \subseteq Mobiles
    /\ DOMAIN otp \subseteq Requests /\ \A c \in DOMAIN otp : RowOK(otp[c])
    /\ DOMAIN ask = Requests /\ \A r \in Requests : AskOK(ask[r])
    /\ DOMAIN sign = SignIns /\ \A v \in SignIns : SignOK(sign[v])
    /\ delivered \subseteq Requests
    /\ earlier \in [Requests -> SUBSET Requests]
    /\ accepted \in [Requests -> SUBSET SignIns]

(***************************************************************************)
(* What holds however requests and sign-ins overlap.                       *)
(***************************************************************************)

\* A code that can be used was delivered: one that the provider reports as
\* failed is never stored, although it is added to the session before.
StoredWereSent == DOMAIN otp \subseteq delivered

\* A code that let a sign-in through cannot be loaded by one that begins
\* later, and no request or sign-in that overlapped makes it unused again.
AcceptedAreUsed == \A c \in DOMAIN otp : accepted[c] # {} => otp[c].is_used

\* Of two codes of a mobile that are both unused, neither was stored when the
\* request for the other began: a code outlives a later request only by overlap.
UnusedOverlapped ==
    \A m \in Mobiles : \A c, d \in Unused(m) : c # d => c \notin earlier[d]

\* The codes that were stored when a request began, and still counted when its
\* own was sent, were fewer than the limit: more codes than the limit, in one
\* window, take requests that overlap.
LimitCountsEarlier ==
    \A c \in DOMAIN otp :
        Cardinality({d \in earlier[c] :
                        /\ otp[d].mobile = otp[c].mobile
                        /\ otp[d].created_at + Window >= otp[c].expires_at - ExpireAfter}) < Limit

(***************************************************************************)
(* Why it holds: what is so of a request while it is on its way.           *)
(***************************************************************************)

\* A row appears with the commit of its request, which then is over.
CreatedOnce == \A r \in DOMAIN otp : ask[r].pc = "done"

\* A code that waits for its commit was delivered.
SentWereDelivered == \A r \in Requests : ask[r].pc = "sent" => r \in delivered

\* A code that let a sign-in through is stored.
AcceptedAreStored == \A c \in Requests : accepted[c] # {} => c \in DOMAIN otp

\* Codes that were stored when a request began still are.
EarlierAreStored == \A r \in Requests : earlier[r] \subseteq DOMAIN otp

\* A request whose UPDATE has begun spends whatever is unused of the codes of
\* its mobile that were stored when it began.
SpendsEarlier ==
    \A r \in Requests : ask[r].pc \in {"spending", "spent", "sent"} =>
        earlier[r] \cap Unused(ask[r].mobile) \subseteq ask[r].spends

\* The codes stored when r began that count for its mobile at the time t.
Counted(r, t) ==
    {d \in earlier[r] : otp[d].mobile = ask[r].mobile /\ otp[d].created_at + Window >= t}

\* A request past its rate check has counted those codes, and as time goes by
\* they only get fewer.
CountedWithinLimit ==
    \A r \in Requests :
        /\ ask[r].pc \in {"within", "spending", "spent"} => Cardinality(Counted(r, now)) < Limit
        /\ ask[r].pc = "sent" =>
              Cardinality(Counted(r, ask[r].expires_at - ExpireAfter)) < Limit

(***************************************************************************)
(* What holds of the mobiles on which nothing overlaps.                    *)
(***************************************************************************)

Calm == Mobiles \ Contended

CalmRows == {c \in DOMAIN otp : otp[c].mobile \in Calm}

issued == [c \in CalmRows |-> [mobile |-> otp[c].mobile, at |-> otp[c].created_at]]
valid  == [m \in Calm |-> Unused(m)]
served == UNION {{c} \X accepted[c] : c \in CalmRows}

Desk == INSTANCE OtpDesk WITH Mobiles <- Calm, Cards <- Requests, Guests <- SignIns

\* Those mobiles have one unused code at most, the last one sent, stay within
\* the limit, and each of their codes lets one sign-in through at most.
FollowsDesk == Desk!Spec

\* Why: at most one request or sign-in is at work on such a mobile,
OneAtWork ==
    \A m \in Calm :
        /\ \A r, s \in Requests : /\ Asking(r) /\ ask[r].mobile = m
                                 /\ Asking(s) /\ ask[s].mobile = m => r = s
        /\ \A v, w \in SignIns : /\ Signing(v) /\ sign[v].mobile = m
                                /\ Signing(w) /\ sign[w].mobile = m => v = w
        /\ \A r \in Requests, v \in SignIns :
              ~(Asking(r) /\ ask[r].mobile = m /\ Signing(v) /\ sign[v].mobile = m)

\* whatever is at work touches codes of its own mobile only,
OwnCodesOnly ==
    /\ \A r \in Requests :
          /\ Asking(r) => ask[r].began <= now
          /\ ask[r].pc \in {"spending", "spent", "sent"} =>
                \A c \in ask[r].spends : otp[c].mobile = ask[r].mobile
    /\ \A v \in SignIns : Signing(v) => otp[sign[v].row].mobile = sign[v].mobile

\* what it has checked or found of them still holds,
CalmChecked ==
    /\ \A r \in Requests : Asking(r) /\ ask[r].mobile \in Calm =>
          /\ ask[r].pc # "known" => Cardinality(Recent(ask[r].mobile)) < Limit
          /\ ask[r].pc \in {"spending", "spent", "sent"} =>
                Unused(ask[r].mobile) \subseteq ask[r].spends
    /\ \A v \in SignIns : Signing(v) /\ sign[v].mobile \in Calm =>
          sign[v].row \in Unused(sign[v].mobile)

\* and no two of its codes are unused.
OneUnused == \A m \in Calm : \A c, d \in Unused(m) : c = d

(***************************************************************************)
(* What the repository says and the handlers do not do.                    *)
(***************************************************************************)

\* "test_otp_is_single_use": a code that let a sign-in through lets no other
\* one through.
SingleUse == \A c \in DOMAIN otp : Cardinality(accepted[c]) <= 1
==============================================================================
