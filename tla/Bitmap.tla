------------------------------- MODULE Bitmap -------------------------------
(***************************************************************************)
(* lib/kernel/bitmap.c: a bitmap as an array of words.  A word is a number *)
(* of ELEM_BITS bits, and the code's masks and shifts are arithmetic on    *)
(* it.  The bitmap can be written to a file and read back.                 *)
(***************************************************************************)
EXTENDS Integers, FiniteSets, Bitwise
LOCAL INSTANCE SequencesExt

CONSTANTS
  ELEM_BITS,
  Sizes,         \* arguments of bitmap_create
  BITMAP_ERROR,
  NULL

BitmapAssumption == ELEM_BITS \in Nat \ {0} /\ Sizes \subseteq Nat

VARIABLES
  b,             \* the bitmap: its bit_cnt and its words
  file,          \* what was written to the file, with the same bit_cnt
  marked         \* history: the set of the bits that are to be true

vars == <<b, file, marked>>

elem_idx(bit_idx) == (bit_idx \div ELEM_BITS) + 1
bit_mask(bit_idx) == 2^(bit_idx % ELEM_BITS)
elem_cnt(bit_cnt) == (bit_cnt + ELEM_BITS - 1) \div ELEM_BITS

(* Mutant: no bit of a full last word is used. *)
last_mask_none(bit_cnt) == 2^(bit_cnt % ELEM_BITS) - 1

last_mask(bit_cnt) == IF bit_cnt % ELEM_BITS # 0 THEN 2^(bit_cnt % ELEM_BITS) - 1
                      ELSE 2^ELEM_BITS - 1

Max_word == 2^ELEM_BITS - 1

bitmap_mark(bits, i) == [bits EXCEPT ![elem_idx(i)] = @ | bit_mask(i)]
bitmap_reset(bits, i) == [bits EXCEPT ![elem_idx(i)] = @ & (Max_word - bit_mask(i))]
bitmap_flip(bits, i) == [bits EXCEPT ![elem_idx(i)] = @ ^^ bit_mask(i)]

bitmap_set(bits, i, value) == IF value THEN bitmap_mark(bits, i) ELSE bitmap_reset(bits, i)

bitmap_test(bits, i) == (bits[elem_idx(i)] & bit_mask(i)) # 0

(* The loop of bitmap_set_multiple. *)
bitmap_set_multiple(bits, start, cnt, value) ==
  FoldLeft(LAMBDA w, i : bitmap_set(w, start + i - 1, value), bits,
           [i \in 1..cnt |-> i])

bitmap_contains(bits, start, cnt, value) ==
  \E i \in start..(start + cnt - 1) : bitmap_test(bits, i) = value

bitmap_count(bits, start, cnt, value) ==
  Cardinality({i \in start..(start + cnt - 1) : bitmap_test(bits, i) = value})

(* Mutant: the last place a group can start at is not tried. *)
bitmap_scan_short(bm, start, cnt, value) ==
  LET found == {i \in start..(bm.bit_cnt - cnt - 1) :
                  ~bitmap_contains(bm.bits, i, cnt, ~value)}
  IN  IF found = {} THEN BITMAP_ERROR ELSE CHOOSE i \in found : \A j \in found : i <= j

(* bitmap_scan; if cnt > bit_cnt there is no place to start at. *)
bitmap_scan(bm, start, cnt, value) ==
  LET found == {i \in start..(bm.bit_cnt - cnt) :
                  ~bitmap_contains(bm.bits, i, cnt, ~value)}
  IN  IF found = {} THEN BITMAP_ERROR ELSE CHOOSE i \in found : \A j \in found : i <= j
-----------------------------------------------------------------------------
Init == b = NULL /\ file = NULL /\ marked = {}

(* bitmap_create, with the bitmap_set_all it ends with; malloc gives words *)
(* with any contents, here all ones.                                       *)
Create(n) ==
  /\ b = NULL
  /\ b' = [bit_cnt |-> n,
           bits |-> bitmap_set_multiple([i \in 1..elem_cnt(n) |-> Max_word], 0, n, FALSE)]
  /\ marked' = {}
  /\ UNCHANGED file

Destroy == b # NULL /\ b' = NULL /\ marked' = {} /\ file' = NULL

Set(i, value) ==
  /\ b' = [b EXCEPT !.bits = bitmap_set(@, i, value)]
  /\ marked' = IF value THEN marked \union {i} ELSE marked \ {i}
  /\ UNCHANGED file

Flip(i) ==
  /\ b' = [b EXCEPT !.bits = bitmap_flip(@, i)]
  /\ marked' = (marked \union {i}) \ (marked \intersect {i})
  /\ UNCHANGED file

SetMultiple(start, cnt, value) ==
  /\ b' = [b EXCEPT !.bits = bitmap_set_multiple(@, start, cnt, value)]
  /\ marked' = IF value THEN marked \union start..(start + cnt - 1)
               ELSE marked \ (start..(start + cnt - 1))
  /\ UNCHANGED file

(* The bits i..i+cnt-1 are marked, or none of them is. *)
Group(i, cnt, value) ==
  IF value THEN i..(i + cnt - 1) \subseteq marked
  ELSE i..(i + cnt - 1) \intersect marked = {}

ScanAndFlip(start, cnt, value) ==
  LET idx == bitmap_scan(b, start, cnt, value)
      groups == {i \in start..(b.bit_cnt - cnt) : Group(i, cnt, value)}
  IN  /\ b' = IF idx = BITMAP_ERROR THEN b
              ELSE [b EXCEPT !.bits = bitmap_set_multiple(@, idx, cnt, ~value)]
      /\ marked' = IF groups = {} THEN marked
                   ELSE LET i == CHOOSE i \in groups : \A j \in groups : i <= j
                        IN  IF value THEN marked \ (i..(i + cnt - 1))
                            ELSE marked \union i..(i + cnt - 1)
      /\ UNCHANGED file

(* bitmap_write. *)
Write == /\ file' = [words |-> b.bits, set |-> marked]
         /\ UNCHANGED <<b, marked>>

(* bitmap_read of the whole file; the unused bits of the last word are     *)
(* cleared.                                                                *)
Read ==
  /\ file # NULL
  /\ b' = IF b.bit_cnt = 0 THEN b
          ELSE [b EXCEPT !.bits = [file.words EXCEPT ![elem_cnt(b.bit_cnt)] =
                                     @ & last_mask(b.bit_cnt)]]
  /\ marked' = file.set
  /\ UNCHANGED file

Next ==
  \/ \E n \in Sizes : Create(n)
  \/ /\ b # NULL
     /\ \/ Destroy \/ Write \/ Read
        \/ \E i \in 0..(b.bit_cnt - 1) : Flip(i) \/ \E v \in BOOLEAN : Set(i, v)
        \/ \E start \in 0..b.bit_cnt, v \in BOOLEAN :
             \/ \E cnt \in 0..(b.bit_cnt - start) : SetMultiple(start, cnt, v)
             \/ \E cnt \in 0..(b.bit_cnt + 1) : ScanAndFlip(start, cnt, v)

Spec == Init /\ [][Next]_vars
-----------------------------------------------------------------------------
(* Through every operation, a write to a file and the reading of it back   *)
(* included, the words stand for the set of bits that the operations are   *)
(* documented to set, and the tests of groups of bits agree with that set, *)
(* also where a group crosses the end of a word.                           *)
BitmapIsSet ==
  b # NULL =>
    /\ \A i \in 0..(b.bit_cnt - 1) : bitmap_test(b.bits, i) <=> i \in marked
    /\ \A start \in 0..b.bit_cnt : \A cnt \in 0..(b.bit_cnt - start) :
         LET in == marked \intersect start..(start + cnt - 1)
         IN  /\ bitmap_count(b.bits, start, cnt, TRUE) = Cardinality(in)
             /\ bitmap_contains(b.bits, start, cnt, TRUE) <=> in # {}
             /\ bitmap_contains(b.bits, start, cnt, FALSE) <=> Cardinality(in) < cnt
=============================================================================
