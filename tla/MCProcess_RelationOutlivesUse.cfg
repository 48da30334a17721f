CONSTANTS
  Procs = {p1, p2, p3}
  MAIN = MAIN
  NULL = NULL
  Statuses <- ExitStatuses
SPECIFICATION Spec
INVARIANT RelationOutlivesUse
SYMMETRY ProcSymmetry
