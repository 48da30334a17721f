CONSTANTS
  NULL = NULL
  Lists = {"l", "m"}
  Elems = {a, b, c}
  Vals = {1, 2}
  HashKeys = {0, 1, 2, 3, 4}
  SmallSizes = {0, 1, 2, 3, 5, 10}
  SmallFactors = {0, 2, 3}
  HEAP_MOD = 64
  BITMAP_ERROR = BITMAP_ERROR
  Half = 4
  MaxLength = 5
SPECIFICATION Spec
SYMMETRY Symmetry
INVARIANTS HeapExact BitmapIsSet ArithmeticExact SortsAndFinds StringsExact ProgramImage
PROPERTIES  IsMap
