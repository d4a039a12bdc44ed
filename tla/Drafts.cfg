SPECIFICATION Spec
CONSTANTS
  c1 = c1 c2 = c2 u1 = u1 u2 = u2
  Creates = {c1, c2}
  Updates = {u1, u2}
  Deletes = {d1}
  MaxId = 4
  Slow = TRUE
  Crashes = TRUE
CONSTRAINT Bounded
CHECK_DEADLOCK FALSE
INVARIANTS
  TypeOK
  Conserved
  OneDraft
  SeedKept
  NoOrphans
