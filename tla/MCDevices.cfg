CONSTANTS
  t1 = t1  t2 = t2  t3 = t3  t4 = t4
  IDLE = IDLE
  TIME_SLICE = 4
  Bytes = {a, b}
  INTQ_BUFSIZE = 3
  READER = READER
  WRITER = WRITER
  NULL = NULL
  Threads = {u1, u2}
  Boot = u1
  Devices = {0, 1}
  Sectors = {s}
  Values = {v, w}
  None = None
  MaxSpurious = 2
SPECIFICATION Spec
SYMMETRY Symmetry
INVARIANTS InversionBounded InterruptsInOrder  SnapshotConsistent OutputExact
PROPERTIES  QueuesSound  YieldsAsAsked
