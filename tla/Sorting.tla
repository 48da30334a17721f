------------------------------ MODULE Sorting -------------------------------
(***************************************************************************)
(* The heap sort and the binary search of lib/stdlib.c.  An array is a     *)
(* sequence (its indexes are 1-based in the code too); its elements are    *)
(* records with a key, which is all that COMPARE looks at.                 *)
(***************************************************************************)
EXTENDS Integers, Sequences
LOCAL INSTANCE SequencesExt

(* do_compare and the comparison functions behind it: a strcmp()-type      *)
(* result.                                                                 *)
compare(x, y) == x.key - y.key

do_swap(array, i, j) == [array EXCEPT ![i] = array[j], ![j] = array[i]]

(* Mutant: the right child is not looked at when it is the last element. *)
LargestOfLeft(array, i, cnt) ==
  LET left == 2 * i
      right == 2 * i + 1
      m == IF left <= cnt /\ compare(array[left], array[i]) > 0 THEN left ELSE i
  IN  IF right < cnt /\ compare(array[right], array[m]) > 0 THEN right ELSE m

(* The index of the largest among element i and its children. *)
Largest(array, i, cnt) ==
  LET left == 2 * i
      right == 2 * i + 1
      m == IF left <= cnt /\ compare(array[left], array[i]) > 0 THEN left ELSE i
  IN  IF right <= cnt /\ compare(array[right], array[m]) > 0 THEN right ELSE m

RECURSIVE heapify(_, _, _)
(* Floats element i down among the first cnt. *)
heapify(array, i, cnt) ==
  LET m == Largest(array, i, cnt)
  IN  IF m = i THEN array ELSE heapify(do_swap(array, i, m), m, cnt)

(* The indexes from..to, downwards. *)
Down(from, to) == IF from < to THEN <<>> ELSE [k \in 1..(from - to + 1) |-> from + 1 - k]

(* sort, and qsort: build a heap, then take its largest element to the end *)
(* again and again.                                                        *)
sort(array) ==
  LET cnt == Len(array)
      heap == FoldLeft(LAMBDA a, i : heapify(a, i, cnt), array, Down(cnt \div 2, 1))
  IN  FoldLeft(LAMBDA a, i : heapify(do_swap(a, 1, i), 1, i - 1), heap, Down(cnt, 2))

RECURSIVE SearchBetween(_, _, _, _)
(* The loop of binary_search; 0 is the null pointer. *)
SearchBetween(key, array, first, last) ==
  LET middle == first + ((last - first) \div 2)
      cmp == compare(key, array[middle])
  IN  IF first >= last THEN 0
      ELSE IF cmp < 0 THEN SearchBetween(key, array, first, middle)
      ELSE IF cmp > 0 THEN SearchBetween(key, array, middle + 1, last)
      ELSE middle

(* binary_search, and bsearch. *)
binary_search(key, array) == SearchBetween(key, array, 1, Len(array) + 1)
-----------------------------------------------------------------------------
(* sort leaves the elements it was given, each as often as before, in      *)
(* increasing order, and binary_search then finds a key exactly when some  *)
(* element has it, and returns such an element.                            *)
SortsAndFinds(array, keys) ==
  LET s == sort(array)
      Count(a, x) == Len(SelectSeq(a, LAMBDA y : y = x))
  IN  /\ Len(s) = Len(array)
      /\ \A i \in 1..Len(array) : Count(s, array[i]) = Count(array, array[i])
      /\ \A i \in 1..(Len(s) - 1) : compare(s[i], s[i + 1]) <= 0
      /\ \A k \in keys :
           LET found == binary_search([key |-> k], s)
           IN  IF \E i \in 1..Len(s) : s[i].key = k
               THEN found \in 1..Len(s) /\ s[found].key = k
               ELSE found = 0
=============================================================================
