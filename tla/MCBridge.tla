------------------------------ MODULE MCBridge -------------------------------
(***************************************************************************)
(* Instances of Bridge for TLC.  Customers busy and calm have a bridge,    *)
(* with a subscription behind the one and none behind the other; fresh has *)
(* none yet.  Requests may overlap on busy and on fresh.                   *)
(***************************************************************************)
EXTENDS BridgeProps

CONSTANTS busy, calm, fresh, u1, u2, t1, t2, down

Sub(term, on) == [term |-> term, on |-> on]

MCSubs   == {Sub(t1, TRUE), Sub(t2, FALSE)}
MCBridges == [c \in {busy, calm} |->
    [k \in Columns |-> CASE k = "base_url"   -> IF c = busy THEN u1 ELSE u2
                         [] k = "is_enabled" -> TRUE
                         [] k = "online"     -> IF c = busy THEN TRUE ELSE NULL
                         [] k = "checked_at" -> IF c = busy THEN 0 ELSE NULL
                         [] k \in {"cached_term", "cached_on", "synced_at"} ->
                                IF c = calm THEN NULL
                                ELSE IF k = "cached_term" THEN t1
                                ELSE IF k = "cached_on" THEN TRUE ELSE 0
                         [] OTHER            -> NULL]]
MCRemote == [u \in {u1, u2} |-> IF u = u1 THEN Sub(t1, TRUE) ELSE NULL]

Configure(c, set) == [kind |-> "configure", customer |-> c, set |-> set]
Ask(kind, c)      == [kind |-> kind, customer |-> c]
Update(c, sub)    == [kind |-> "update", customer |-> c, sub |-> sub]
Sync(c, sub, m)   == [kind |-> "sync", customer |-> c, sub |-> sub, messages |-> m]
Sweep             == [kind |-> "sweep"]

MCOps == {
    Configure(busy, [base_url |-> u2]), Configure(calm, [base_url |-> u1]),
    Configure(calm, [is_enabled |-> FALSE]), Configure(busy, [is_enabled |-> NULL]),
    Configure(fresh, [base_url |-> NULL]),
    Ask("health", calm), Ask("refresh", busy), Ask("fetch", busy), Ask("config", calm),
    Update(busy, Sub(t2, FALSE)), Sync(calm, Sub(t1, TRUE), TRUE), Sweep}
==============================================================================
