CONSTANTS
    NULL = NULL
    Header = Header
    n1 = n1
    n2 = n2
    n4 = n4
    k1 = k1
    k2 = k2
    t1 = t1
    s1 = s1
    s2 = s2
    bad = bad
    m1 = m1
    m2 = m2
    m3 = m3
    p1 = p1
    p2 = p2
    org = org
    Names = {n1, n2, n4}
    Codes = {k1, k2}
    Labels = {t1}
    Order <- MCNames
    Secrets = {s1, s2, bad}
    Malformed = {bad}
    Mobiles = {m1, m2, m3}
    Passwords = {p1, p2}
    AdminMobile = m3
    Requests = {1, 2, 3}
    Ops <- MCOps
    InitCustomers <- MCCustomers
    InitSummaries <- MCSummaries
    InitLines <- MCLines
    InitConnections <- MCConnections
    InitUsers <- MCUsers
SPECIFICATION Spec
INVARIANTS
    TypeOK
    ConnectionTested
PROPERTIES
    FollowsBook
    ProfileRequested
    PasswordKept
