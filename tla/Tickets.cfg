CONSTANTS
    NULL = NULL
    TokenAdmin = TokenAdmin
    Seed = Seed
    busy = busy
    calm = calm
    adm = adm
    u = u
    gone = gone
    r1 = r1
    Users <- MCUsers
    Admins = {adm}
    Requests = {r1, r2, r3}
    Ops <- MCOps
    Switched = {adm, gone}
    InitTickets <- MCTicketRows
    InitActive = {adm, u}
    Contended = {busy}
SPECIFICATION Spec
INVARIANTS
    TypeOK
    AssigneesWereActive
    ResolvedAtFits
PROPERTIES
    StatusChangesAreRequested
    RemovalIsFinal
    FollowsLifecycle
