CONSTANTS
  a1 = a1
  a2 = a2
  t1 = t1
  t2 = t2
  p1 = p1
  p2 = p2
  s1 = s1
  s2 = s2
  c1 = c1
  c2 = c2
  Users <- MCUsers
  Nobody = Nobody
  Students <- MCStudents
  Centers <- MCCenters
  NoCenter = NoCenter
  Listed <- MCListed
  Requests = {r1, r2}
  Start <- MCStart
  MaxOps = 2
SPECIFICATION Spec
SYMMETRY Symmetry
CHECK_DEADLOCK FALSE
INVARIANTS
  TypeOK
  
PROPERTIES
  FamiliesStayTogether
  LastAdminStays
