SPECIFICATION CatalogSpec
CONSTANTS
  Callers = {c1, c2}
  Deployers = {d1}
  r1 = r1  r2 = r2  a1 = a1  a2 = a2
  Registries = {r1, r2}
  Apps = {a1, a2}
  Described <- MCDescribed
  Contains <- MCContains
  None = None
INVARIANT CreatedFromItsRepo
CHECK_DEADLOCK FALSE
