CONSTANTS
  Window = 0
  MinHits = 2
  Students = {s1}
  Requests = {r1, r2}
  MaxClock = 1
  MaxOps = 6
SPECIFICATION Spec
SYMMETRY Symmetry
CHECK_DEADLOCK FALSE
INVARIANTS
  TypeOK
  VerifiedOnlyAfterRepeatedSightings
  NoPairMissed
  HandEntryNeverVerified
  SystemArrivalAnnouncedOnce
PROPERTIES
  
  ImplementsContract
