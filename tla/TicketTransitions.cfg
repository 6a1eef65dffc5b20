CONSTANTS
    NULL = NULL
    TokenAdmin = TokenAdmin
    Seed = Seed
    busy = busy
    calm = calm
    adm = adm
    u = u
    gone = gone
    r1 = r1
    Users <- MCUsers
    Admins = {adm}
    Requests = {r1, r2}
    Ops <- MCMoves
    Switched = {gone}
    InitTickets <- MCTicketRows
    InitActive = {adm, u}
    Contended = {busy}
SPECIFICATION Spec
PROPERTY
    TransitionsAllowed
