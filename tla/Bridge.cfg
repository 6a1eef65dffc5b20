CONSTANTS
    NULL = NULL
    Missing = Missing
    Fine = Fine
    busy = busy
    calm = calm
    fresh = fresh
    u1 = u1
    u2 = u2
    t1 = t1
    t2 = t2
    down = down
    Customers = {busy, calm, fresh}
    Urls = {u1, u2}
    Subs <- MCSubs
    Failures = {down}
    Requests = {r1, r2}
    Ops <- MCOps
    InitBridge <- MCBridges
    InitRemote <- MCRemote
    Switched = {calm}
    Shifting = {u1}
    Contended = {busy, fresh}
SPECIFICATION FairSpec
INVARIANTS
    TypeOK
    CachedWasAnswered
PROPERTIES
    ConfiguredByRequest
    FollowsBook
    RequestsEnd
