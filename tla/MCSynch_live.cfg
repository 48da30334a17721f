SPECIFICATION LiveSpec
CONSTANTS
  Threads = {t1, t2, t3}
  Locks = {l1}
  Sems = {s1}
  Priorities = {1}
  MaxValue = 1
  IDLE = IDLE
  NULL = NULL
  READY_LIST = READY_LIST
  SLEEPING_LIST = SLEEPING_LIST
PROPERTIES ReadyRuns 
