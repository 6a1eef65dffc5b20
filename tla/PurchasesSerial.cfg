CONSTANTS
    NULL = NULL
    Admin = Admin
    TokenAdmin = TokenAdmin
    Seed = Seed
    k1 = k1
    k2 = k2
    s1 = s1
    s2 = s2
    s3 = s3
    pr = pr
    g1 = g1
    g2 = g2
    Customers <- MCCustomers
    Services <- MCServices
    Projects = {pr}
    Groups = {g1, g2}
    InitLineage <- MCLineage
    Buyers = {b1, b2}
    Editors = {e1}
    PurchaseOps <- MCPurchaseOps
    ConfigOps <- MCConfigOps
    Switched = {k1, g2}
    Moved = {s2}
    InitConfig <- MCInitConfig
    InitOwner = k1
    InitSelection <- MCInitSelection
    Overlap = FALSE
SPECIFICATION Spec
INVARIANT
    TotalsMatchItems
PROPERTY
    ImplementsLedger
SYMMETRY Symmetry
