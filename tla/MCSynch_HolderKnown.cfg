SPECIFICATION Spec
CONSTANTS
  Threads = {t1, t2, t3}
  Locks = {l1, l2}
  Sems = {}
  Priorities = {1, 2}
  MaxValue = 1
  IDLE = IDLE
  NULL = NULL
  READY_LIST = READY_LIST
  SLEEPING_LIST = SLEEPING_LIST
SYMMETRY ThreadLockSymmetry
INVARIANT HolderKnown
CHECK_DEADLOCK FALSE
