SPECIFICATION Spec
CONSTANTS
    a1 = a1  a2 = a2  p1 = p1  p2 = p2  free = free  gold = gold
    c1 = c1  r1 = r1  r2 = r2  None = None
    Apps = {a1, a2}
    Products = {p1}
    Plans = {free}
    ClientIds = {c1}
    Requests = {r1}
    Catalogue <- PlainCatalogue
    Edits <- MigratingEdit
    PlanTable <- PaidTable
    PlanEdits <- LimitEdits
    Ops <- ExactOps
    SandboxConfigured = TRUE
    IssuerConfigured = TRUE
    MaxSubs = 2
    MaxKeys = 3
    MaxInvoices = 2
    MaxFaults = 0
SYMMETRY AppSymmetry
INVARIANTS KeysAgree SandboxRouteIsRule RouteIsActiveSet DeletedIsErased LimitFollowsPlan
    DeletedProductUnrouted
PROPERTIES RotatedKeyStaysDead OAuthApprovalConverges MigrationStrandsNobody
CHECK_DEADLOCK FALSE
