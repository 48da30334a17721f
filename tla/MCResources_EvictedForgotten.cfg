CONSTANTS
  Threads = {x1, x2, x3}
  Three = {x1, x2, x3}
  Two = {y1, y2}
  None = None
  free_pages = 6
  user_page_limit = 2
  PGSIZE = 4096
  ELEM_BITS = 32
  MaxRun = 2
  CodePages = {code}
  StackPages = {top, low}
  Top = top
  WildPages = {wild}
  FreeSlots = 3
  NULL = NULL
  FREED = FREED
  Base = Base
  Spare = {x4}
  MAIN = MAIN
  Names = {a}
  Inodes = {i, j}
SPECIFICATION ResourcesSpec
SYMMETRY Symmetry
INVARIANT EvictedForgotten
