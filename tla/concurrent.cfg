SPECIFICATION Spec
CONSTANTS
    a1 = a1  a2 = a2  p1 = p1  p2 = p2  free = free  gold = gold
    c1 = c1  r1 = r1  r2 = r2  None = None
    Apps = {a1}
    Products = {p1}
    Plans = {free, gold}
    ClientIds = {c1}
    Requests = {r1, r2}
    Catalogue <- MixedCatalogue
    Edits <- AnyEdit
    PlanTable <- EqualTable
    PlanEdits <- GoldEdits
    Ops <- RaceOps
    SandboxConfigured = TRUE
    IssuerConfigured = TRUE
    MaxSubs = 1
    MaxKeys = 2
    MaxInvoices = 3
    MaxFaults = 0
SYMMETRY PlanSymmetry
INVARIANTS PlanOutlivesSubscriptions NoGrantWithoutApproval ActiveWasApproved InvoiceForApprovedPlan ConsumerBeforeRoute
CHECK_DEADLOCK FALSE
