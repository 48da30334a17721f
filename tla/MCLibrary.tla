----------------------------- MODULE MCLibrary ------------------------------
(***************************************************************************)
(* The library: lists (KernelList), hash tables (HashTable), bitmaps       *)
(* (Bitmap), the block allocator (Malloc); and the algorithms of the       *)
(* library and of the loader, each on every input of a bounded set.  They  *)
(* share no state, so each behaviour is one of a single part; the          *)
(* variables of the others are not used.                                   *)
(***************************************************************************)
EXTENDS Integers, Sequences, TLC

CONSTANTS
  NULL,
  Lists, Elems, Vals, HashKeys,           \* lists and hash tables
  SmallSizes, SmallFactors, HEAP_MOD,     \* malloc
  BITMAP_ERROR,                           \* bitmaps
  Half, MaxLength                         \* inputs of the algorithms

VARIABLES
  part,
  link, in, val,
  h, last,
  heap, live,
  b, file, marked,
  input             \* of an algorithm

L == INSTANCE KernelList
H == INSTANCE HashTable WITH
  Hash  <- LAMBDA k : (3 * k) % 8,
  Elems <- [key: HashKeys, id: {1}] \union [key: {0}, id: {2}],
  MinBuckets <- 2, Best <- 1
(* Pages of 10 bytes, headers of 2 bytes, and blocks of 2 and 4 bytes. *)
Heap == INSTANCE Malloc WITH
  PGSIZE <- 10, MIN_BLOCK <- 2, ARENA <- 2, NPages <- 3, SIZE_MOD <- HEAP_MOD,
  Sizes <- SmallSizes, Factors <- SmallFactors, MaxLive <- 4
Bitset == INSTANCE Bitmap WITH ELEM_BITS <- 2, Sizes <- {0, 3, 4}
Divide == INSTANCE Division WITH Bits <- Half
Sort == INSTANCE Sorting
(* Pages of 8 bytes and 6-bit addresses, of which the lower half are of    *)
(* the user.                                                               *)
Program == INSTANCE Loader WITH PGSIZE <- 8, PHYS_BASE <- 32, Wrap <- 64
Timer == INSTANCE Calibration

ASSUME LibraryAssumption ==
  /\ Heap!MallocAssumption /\ Bitset!BitmapAssumption
  /\ Divide!BitsAssumption /\ Program!LoaderAssumption

list   == <<link, in, val>>
hash   == <<h, last>>
heaps  == <<heap, live>>
bitmap == <<b, file, marked>>
vars == <<part, list, hash, heaps, bitmap, input>>

Symmetry == Permutations(Elems)
-----------------------------------------------------------------------------
(* The inputs.  Characters are numbers; 1 is the space. *)
Texts(chars, max) == UNION {[1..n -> chars] : n \in 0..max}
Keys(max) == UNION {[1..n -> 0..3] : n \in 0..max}
Few == {0, 1, 2, 7, 8, 9, 10}
Headers ==
  {p \in [p_vaddr: (0..33) \union {62, 63}, p_offset: 0..16, p_filesz: Few,
          p_memsz: Few \union {17, 62, 63}] :
     p.p_vaddr % 4 \in {0, 3} /\ (p.p_vaddr - p.p_offset) % 8 \in {0, 1}}
Moves == {m \in [dst: 0..7, src: 0..7, size: 0..8] :
            m.dst + m.size <= 8 /\ m.src + m.size <= 8}

Algorithms == {"divide", "timer", "sort", "strings", "move", "arguments", "segment"}
Inputs(algorithm) ==
  CASE algorithm = "divide"    -> [n: 0..(4^Half - 1), d: 1..(4^Half - 1)]
    [] algorithm = "timer"     -> 0..4000
    [] algorithm = "sort"      -> Keys(MaxLength + 1)
    [] algorithm = "strings"   -> [s: Texts({1, 2}, 3), t: Texts({1, 2}, 3)]
    [] algorithm = "move"      -> Moves
    [] algorithm = "arguments" -> Texts({1, 2, 3}, MaxLength)
    [] algorithm = "segment"   -> Headers

(* The variables of a part that does not move. *)
NoList   == link = NULL /\ in = NULL /\ val = NULL
NoHash   == h = NULL /\ last = NULL
NoHeap   == heap = NULL /\ live = NULL
NoBitmap == b = NULL /\ file = NULL /\ marked = NULL

Init ==
  /\ part \in {"list", "hash", "heap", "bitmap"} \union Algorithms
  /\ IF part = "list"   THEN L!Init    ELSE NoList
  /\ IF part = "hash"   THEN H!Init    ELSE NoHash
  /\ IF part = "heap"   THEN Heap!Init ELSE NoHeap
  /\ IF part = "bitmap" THEN Bitset!Init ELSE NoBitmap
  /\ IF part \in Algorithms THEN input \in Inputs(part) ELSE input = NULL

Next ==
  /\ UNCHANGED <<part, input>>
  /\ \/ part = "list"   /\ L!Next    /\ UNCHANGED <<hash, heaps, bitmap>>
     \/ part = "hash"   /\ H!Next    /\ UNCHANGED <<list, heaps, bitmap>>
     \/ part = "heap"   /\ Heap!Next /\ UNCHANGED <<list, hash, bitmap>>
     \/ part = "bitmap" /\ Bitset!Next /\ UNCHANGED <<list, hash, heaps>>
     \/ part \in Algorithms /\ UNCHANGED vars    \* there is only the input

Spec == Init /\ [][Next]_vars
-----------------------------------------------------------------------------

(* lib/kernel/hash.c implements a map, whatever rehash does, and its       *)
(* iterator sees every element once.                                       *)
IsMap == [][part = "hash" => H!AsMap]_hash

(* malloc, calloc, realloc and free: blocks in use do not overlap, and     *)
(* every block of an arena is in use or on its free list, once.            *)
HeapExact ==
  part = "heap" => Heap!TypeOK /\ Heap!BlocksDisjoint /\ Heap!FreeListsExact

(* lib/kernel/bitmap.c implements a set of bit numbers. *)
BitmapIsSet == part = "bitmap" => Bitset!BitmapIsSet

(* lib/arithmetic.c divides exactly; timer_calibrate, the sleeps and       *)
(* delays of timer.c and pit_configure_channel compute within their bounds.*)
ArithmeticExact ==
  /\ part = "divide" => /\ Divide!QuotientsExact(input.n, input.d)
                        /\ Divide!RemaindersFit(input.n, input.d)
  /\ part = "timer" =>
       LET speed == 1024 + 37 * input
       IN  /\ Timer!CalibrationWithinTwo(speed)
           /\ \A n \in {1, 9, 10, 999} : Timer!DelaysShort(n, 1000, speed)
           /\ Timer!DelaysShort(2 * input, 1000000, 20480)
           /\ Timer!CountersNear(input) /\ Timer!CountersNear(19 + input * input)

(* sort sorts, and binary_search finds what is there. *)
SortsAndFinds ==
  part = "sort" =>
    Sort!SortsAndFinds([i \in 1..Len(input) |-> [key |-> input[i], tag |-> i]], -1..4)

(* lib/string.c on two strings that follow each other in memory, and       *)
(* memmove on ranges that overlap.                                         *)
StringsExact ==
  /\ part = "strings" =>
       LET text == input.s \o <<0>> \o input.t \o <<0>>
           t    == Len(input.s) + 1
           mem  == [i \in 0..11 |-> IF i < Len(text) THEN text[i + 1] ELSE 9]
       IN  /\ \A size \in 0..t : Program!CopiesBounded(mem, 0, t, size)
           /\ \A c \in 0..3 : Program!SearchesExact(mem, 0, t, c)
  /\ part = "move" =>
       Program!MovesExact([i \in 0..7 |-> i + 1], input.dst, input.src, input.size)

(* load_segment lays out what the program header says or load rejects it;  *)
(* start_process passes the words of the command line.                     *)
ProgramImage ==
  /\ part = "segment" => \A length \in {8, 20} : Program!SegmentImage(input, length)
  /\ part = "arguments" =>
       LET mem == [a \in 0..59 |-> IF a = 0 THEN 1
                                   ELSE IF a \in 2..(Len(input) + 1) THEN input[a - 1]
                                   ELSE IF a < 20 THEN 0 ELSE 9]
       IN  Program!ArgumentsPassed(mem, 2, 0, {1}, 60)
=============================================================================
