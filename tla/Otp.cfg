CONSTANTS
    NULL = NULL
    Mobiles = {busy, calm}
    InitActive = {busy, calm}
    Switched = {calm}
    Codes = {c1}
    Entered = {c1, c2}
    Requests = {r1, r2, r3}
    SignIns = {v1, v2}
    Limit = 2
    Window = 0
    ExpireAfter = 1
    MaxTime = 1
    Contended = {busy}
SPECIFICATION Spec
SYMMETRY Symmetry
INVARIANTS
    TypeOK
    StoredWereSent
    AcceptedAreUsed
    UnusedOverlapped
    LimitCountsEarlier
PROPERTIES
    FollowsDesk
