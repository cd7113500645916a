CONSTANTS
  Students = {s1}
  Nobody = Nobody
  Requests = {r1, r2}
  MaxPhotos = 2
  MaxOps = 5
SPECIFICATION Spec
SYMMETRY Symmetry
CHECK_DEADLOCK FALSE
INVARIANTS
  TypeOK
  PreviousStays
  ErasedIsGone
  IndexFollowsDisk
  OrphansExplained
  ServedFromListedSet
PROPERTIES
  ImplementsPhotoSets
