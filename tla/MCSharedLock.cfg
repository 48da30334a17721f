CONSTANTS
  t1 = t1  t2 = t2  t3 = t3  t4 = t4
  NULL = NULL
  Threads <- Four
  Priority <- FourPriorities
SPECIFICATION LiveSpec
INVARIANTS OnlyWritersWait SignalKept NobodyStranded
PROPERTIES RWSpec ReaderWoken
