SPECIFICATION FairSpec
CONSTANTS
    a1 = a1  a2 = a2  p1 = p1  p2 = p2  free = free  gold = gold
    c1 = c1  r1 = r1  r2 = r2  None = None
    Apps = {a1}
    Products = {p1, p2}
    Plans = {gold}
    ClientIds = {c1}
    Requests = {r1}
    Catalogue <- LoopCatalogue
    Edits <- AnyEdit
    PlanTable <- NoPlanTable
    PlanEdits <- GoldEdits
    Ops <- LoopOps
    SandboxConfigured = TRUE
    IssuerConfigured = TRUE
    MaxSubs = 2
    MaxKeys = 2
    MaxInvoices = 2
    MaxFaults = 0
INVARIANTS PaidIsInvoiced
PROPERTIES RevocationTakesEffect EveryRequestReturns
CHECK_DEADLOCK FALSE
