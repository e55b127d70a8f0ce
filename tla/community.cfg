SPECIFICATION Spec
CONSTANTS
    boss = boss  dev = dev  t1 = t1  t2 = t2  t3 = t3  x1 = x1  x2 = x2  c1 = c1  c2 = c2  None = None
    Emails = {boss, dev}
    Keys = {boss, dev}
    Limiters = {"login", "resend"}
    Burst <- Two
    Refill <- One
    Token = 1
    SweepEvery = 1
    IdleTTL = 2
    Lower <- SameKey
    Admin = boss
    TeamIds = {t1, t2, t3}
    AppIds = {x1, x2}
    Calls = {c1, c2}
    Worlds <- SmallWorlds
    LinkTTL = 2
    SessionTTL = 2
SYMMETRY CommunitySymmetry
INVARIANTS GateHeld TokenIffUnverified OneOwner AppsHaveTeam
PROPERTIES NewestLinkVerifies ImplementsBuckets
CHECK_DEADLOCK FALSE
