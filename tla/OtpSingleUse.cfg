CONSTANTS
    NULL = NULL
    Mobiles = {busy}
    InitActive = {busy}
    Switched = {}
    Codes = {c1}
    Entered = {c1, c2}
    Requests = {r1}
    SignIns = {v1, v2}
    Limit = 2
    Window = 0
    ExpireAfter = 1
    MaxTime = 1
    Contended = {busy}
SPECIFICATION Spec
INVARIANT SingleUse
