CONSTANTS
  Albums = {a1}
  Materials = {m1}
  Students = {s1}
  Users = {u1}
  Requests = {r1, r2}
  MaxFiles = 3
  MaxBatch = 2
  MaxOps = 4
SPECIFICATION Spec
SYMMETRY Symmetry
CHECK_DEADLOCK FALSE
INVARIANTS
  TypeOK
  RowsHaveObjects
  NothingLeftBehind
