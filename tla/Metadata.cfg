CONSTANTS
    NULL = NULL
    s1 = s1
    s2 = s2
    n1 = n1
    n2 = n2
    a = a
    b = b
    f = f
    g = g
    t1 = t1
    t2 = t2
    SourceKeys = {s1, s2}
    Words = {n1, n2}
    ModelLabels = {a, b}
    FieldNames = {f, g}
    Texts = {t1, t2}
    Requests = {1, 2, 3}
    Ops <- MCOps
    InitSources <- MCSources
    InitRows <- MCRows
    InitRuns <- MCRuns
SPECIFICATION Spec
INVARIANTS
    TypeOK
PROPERTIES
    FollowsBook
