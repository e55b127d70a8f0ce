SPECIFICATION Spec
CONSTANTS
    p1 = p1  p2 = p2  e1 = e1  u1 = u1  u2 = u2  c1 = c1  c2 = c2  s1 = s1  s2 = s2  None = None
    Products = {p1, p2}
    EntryIds = {e1}
    Slugs = {s1, s2}
    Paths <- SmallPaths
    Bodies <- SmallBodies
    Users = {u1, u2}
    Stars = {2, 5}
    Calls = {c1, c2}
    Worlds <- SmallWorlds
SYMMETRY CatalogueSymmetry
INVARIANTS PathsDisjoint RatingFresh IconsShown NoOrphans
CHECK_DEADLOCK FALSE
