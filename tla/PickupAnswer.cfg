CONSTANTS
  Window = 0
  MinHits = 1
  Students = {s1}
  From = 1
  To = 6
  PromptEvery = 1
  PromptTTL = 1
  AbsentFor = 3
  RunEvery = 1
  Delay = 0
  MaxClock = 5
  MaxOps = 4
SPECIFICATION Spec
CHECK_DEADLOCK FALSE
PROPERTY
  ManualPickupStands
