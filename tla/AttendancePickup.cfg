CONSTANTS
  Window = 0
  MinHits = 1
  Students = {s1}
  Requests = {r1, r2}
  MaxClock = 0
  MaxOps = 3
SPECIFICATION Spec
SYMMETRY Symmetry
CHECK_DEADLOCK FALSE
INVARIANT
  PickedUpOnlyIfPresent
