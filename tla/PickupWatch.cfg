CONSTANTS
  Window = 1
  MinHits = 1
  Students = {s1}
  From = 1
  To = 7
  PromptEvery = 1
  PromptTTL = 1
  AbsentFor = 3
  RunEvery = 1
  Delay = 1
  MaxClock = 7
  MaxOps = 4
SPECIFICATION Spec
CHECK_DEADLOCK FALSE
INVARIANTS
  TypeOK
  SilentStudentsPickedUp
  PickupAnnouncedOnce
PROPERTIES
  PickupNeedsSilence
  TeacherAskedFirst
  UndoneOnlyWhenSeen
  KeepsContract
