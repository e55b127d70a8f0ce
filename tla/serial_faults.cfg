SPECIFICATION Spec
CONSTANTS
    a1 = a1  a2 = a2  p1 = p1  p2 = p2  free = free  gold = gold
    c1 = c1  r1 = r1  r2 = r2  None = None
    Apps = {a1, a2}
    Products = {p1}
    Plans = {free, gold}
    ClientIds = {c1}
    Requests = {r1}
    Catalogue <- KeyAuthCatalogue
    Edits <- ClosingEdit
    PlanTable <- PaidTable
    PlanEdits <- GoldEdits
    Ops <- FaultOps
    SandboxConfigured = FALSE
    IssuerConfigured = TRUE
    MaxSubs = 2
    MaxKeys = 4
    MaxInvoices = 2
    MaxFaults = 1
SYMMETRY AppSymmetry
INVARIANTS ActiveImpliesProvisioned ActivePlanApproved OneLiveInvoice StoredKeyNotAhead
PROPERTIES StatusTransitions ApprovalConverges ApprovalSettles ImplementsAdmission
