CONSTANTS
  Centers = {c1}
  Starters = {t1, t2}
  DayLen = 4
  Windows <- MCWindows
  Grace = 2
  StaleAfter = 2
  CleanupEvery = 1
  MaxClock = 6
  MaxSessions = 3
  MaxOps = 4
SPECIFICATION Spec
SYMMETRY Symmetry
CHECK_DEADLOCK FALSE
INVARIANTS
  TypeOK
  StopMeansStop
  TeacherSessionsStand
  
