SPECIFICATION FairSpec
CONSTANTS
    a1 = a1  a2 = a2  p1 = p1  p2 = p2  free = free  gold = gold
    c1 = c1  r1 = r1  r2 = r2  None = None
    Apps = {a1}
    Products = {p1}
    Plans = {free}
    ClientIds = {c1}
    Requests = {r1, r2}
    Catalogue <- KeyAuthCatalogue
    Edits <- AnyEdit
    PlanTable <- PaidTable
    PlanEdits <- GoldEdits
    Ops <- LifeCycle
    SandboxConfigured = FALSE
    IssuerConfigured = TRUE
    MaxSubs = 1
    MaxKeys = 3
    MaxInvoices = 2
    MaxFaults = 0
PROPERTIES StatusTransitions
CHECK_DEADLOCK FALSE
