------------------------------ MODULE HashOps -------------------------------
(***************************************************************************)
(* The operations of lib/kernel/hash.c on a table: its buckets, which are  *)
(* lists, and its count of elements.  An element is a record with a key,   *)
(* by which less compares.  The hash functions are a constant.  mem says   *)
(* whether malloc finds memory for new buckets.                            *)
(***************************************************************************)
EXTENDS Integers, Sequences, SequencesExt, Bitwise

CONSTANTS
  Hash(_),      \* the hash of a key, below 2^32
  MinBuckets,   \* 4 in the code
  Best          \* BEST_ELEMS_PER_BUCKET, 2 in the code

NONE == [key |-> -1]

Empty(n) == [i \in 0..(n - 1) |-> <<>>]

(* hash_init *)
NewTable == [buckets |-> Empty(MinBuckets), cnt |-> MinBuckets, elem_cnt |-> 0]

find_bucket(h, e) == Hash(e.key) & (h.cnt - 1)

find_elem(h, b, e) ==
  LET hits == {i \in DOMAIN h.buckets[b] : h.buckets[b][i].key = e.key}
  IN  IF hits = {} THEN NONE
      ELSE h.buckets[b][CHOOSE i \in hits : \A j \in hits : i <= j]

insert_elem(h, b, e) ==
  [h EXCEPT !.elem_cnt = @ + 1, !.buckets[b] = <<e>> \o @]

remove_elem(h, b, e) ==
  [h EXCEPT !.elem_cnt = @ - 1, !.buckets[b] = Remove(@, e)]

turn_off_least_1bit(x) == x & (x - 1)

is_power_of_2(x) == x # 0 /\ turn_off_least_1bit(x) = 0

RECURSIVE RoundDown(_)
RoundDown(n) == IF is_power_of_2(n) THEN n ELSE RoundDown(turn_off_least_1bit(n))

new_bucket_cnt(elem_cnt) ==
  LET n == elem_cnt \div Best
  IN  RoundDown(IF n < MinBuckets THEN MinBuckets ELSE n)

(* The elements of the old buckets, in order, go to the front of the new. *)
MoveAll(old, h) ==
  LET Move(k, e) == [k EXCEPT !.buckets[find_bucket(k, e)] = <<e>> \o @]
  IN  FoldLeft(Move, h, FlattenSeq(old))

rehash(h, mem) ==
  LET n == new_bucket_cnt(h.elem_cnt)
  IN  IF n = h.cnt \/ ~mem THEN h
      ELSE MoveAll([i \in 1..h.cnt |-> h.buckets[i - 1]],
                   [buckets |-> Empty(n), cnt |-> n, elem_cnt |-> h.elem_cnt])

hash_find(h, e) == find_elem(h, find_bucket(h, e), e)

hash_insert(h, e, mem) ==
  LET b == find_bucket(h, e)
  IN  rehash(IF find_elem(h, b, e) = NONE THEN insert_elem(h, b, e) ELSE h, mem)

(* Mutant: the old element stays where it is. *)
hash_replace_late(h, e, mem) ==
  rehash(insert_elem(h, find_bucket(h, e), e), mem)

hash_replace(h, e, mem) ==
  LET b   == find_bucket(h, e)
      old == find_elem(h, b, e)
      k   == IF old # NONE THEN remove_elem(h, b, old) ELSE h
  IN  rehash(insert_elem(k, b, e), mem)

hash_delete(h, e, mem) ==
  LET b     == find_bucket(h, e)
      found == find_elem(h, b, e)
  IN  IF found = NONE THEN h ELSE rehash(remove_elem(h, b, found), mem)

(* hash_clear without a destructor *)
hash_clear(h) == [h EXCEPT !.buckets = Empty(h.cnt), !.elem_cnt = 0]

(* The iterator is at position i of bucket b; hash_first puts it before    *)
(* the first position of the first bucket.                                 *)
RECURSIVE hash_next(_, _, _)
hash_next(h, b, i) ==
  IF i + 1 <= Len(h.buckets[b]) THEN <<b, i + 1>>
  ELSE IF b + 1 >= h.cnt THEN <<>>
  ELSE hash_next(h, b + 1, 0)

RECURSIVE Visited(_, _, _)
Visited(h, b, i) ==
  LET n == hash_next(h, b, i)
  IN  IF n = <<>> THEN <<>>
      ELSE <<h.buckets[n[1]][n[2]]>> \o Visited(h, n[1], n[2])

(* What an iteration, or hash_apply, sees. *)
hash_apply(h) == Visited(h, 0, 0)
=============================================================================
