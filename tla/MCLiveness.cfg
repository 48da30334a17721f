CONSTANTS
  NULL = NULL
  None = None
  Procs = {p1, p2}
  MAIN = MAIN
  Names = {a}
  Inodes = {i1}
  Files = {f1, f2}
  Bytes = {b}
  READER = READER
  WRITER = WRITER
  Callers = {u1, u2}
  Boot = u1
  Sectors = {s}
  Values = {v}
  CodePages = {code}
  StackPages = {top, low}
  Top = top
  WildPages = {wild}
  KPages = {k1, k2}
  FREED = FREED
SPECIFICATION LiveSpec
PROPERTIES FamilyCallsEnd  DevicesServe 
CHECK_DEADLOCK FALSE
