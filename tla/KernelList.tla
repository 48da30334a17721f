----------------------------- MODULE KernelList -----------------------------
(***************************************************************************)
(* Doubly linked lists (lib/kernel/list.c), pointer by pointer.            *)
(*                                                                         *)
(* A list has a head and a tail, which are nodes; an element is a node.    *)
(* The lists are changed with interrupts off or under a lock, so an        *)
(* operation is one step.  An operator takes the links and returns the     *)
(* new ones.                                                               *)
(***************************************************************************)
EXTENDS Integers, Sequences, FiniteSets

CONSTANTS Lists, Elems, Vals, NULL

VARIABLES
  link,    \* the fields prev and next of all nodes
  in,      \* which list an element was put in, NULL if none
  val      \* what the less functions compare

vars == <<link, in, val>>

list_head(l) == <<l, "head">>
list_end(l)  == <<l, "tail">>
Nodes == Elems \union {list_head(l) : l \in Lists} \union {list_end(l) : l \in Lists}

less(a, b) == val[a] < val[b]

TypeOK ==
  /\ link \in [prev: [Nodes -> Nodes \union {NULL}], next: [Nodes -> Nodes \union {NULL}]]
  /\ in \in [Elems -> Lists \union {NULL}]
  /\ val \in [Elems -> Vals]

(* list_init for all lists; the links of an element are not initialized. *)
Init ==
  /\ link = [prev |-> [n \in Nodes |-> IF \E l \in Lists : n = list_end(l)
                                       THEN <<n[1], "head">> ELSE NULL],
             next |-> [n \in Nodes |-> IF \E l \in Lists : n = list_head(l)
                                       THEN <<n[1], "tail">> ELSE NULL]]
  /\ in = [e \in Elems |-> NULL]
  /\ val \in [Elems -> Vals]

list_begin(k, l) == k.next[list_head(l)]
list_empty(k, l) == list_begin(k, l) = list_end(l)
-----------------------------------------------------------------------------
list_insert(k, before, elem) ==
  [prev |-> [k.prev EXCEPT ![elem] = k.prev[before], ![before] = elem],
   next |-> [k.next EXCEPT ![elem] = before, ![k.prev[before]] = elem]]

list_remove(k, elem) ==
  [prev |-> [k.prev EXCEPT ![k.next[elem]] = k.prev[elem]],
   next |-> [k.next EXCEPT ![k.prev[elem]] = k.next[elem]]]

(* Mutant: the range is put in its new place before it is taken out. *)
list_splice_late(k, before, first, last) ==
  IF first = last THEN k
  ELSE LET z == k.prev[last]
       IN  [prev |-> [k.prev EXCEPT ![last] = k.prev[first], ![first] = k.prev[before],
                                    ![before] = z],
            next |-> [k.next EXCEPT ![k.prev[first]] = last, ![z] = before,
                                    ![k.prev[before]] = first]]

(* The elements from first up to last, exclusive, move before BEFORE; the  *)
(* assignments come in two pairs, and the second reads what the first      *)
(* wrote.                                                                  *)
list_splice(k, before, first, last) ==
  IF first = last THEN k
  ELSE LET z == k.prev[last]
           c == [prev |-> [k.prev EXCEPT ![k.next[z]] = k.prev[first]],
                 next |-> [k.next EXCEPT ![k.prev[first]] = k.next[z]]]
       IN  [prev |-> [c.prev EXCEPT ![first] = c.prev[before], ![before] = z],
            next |-> [c.next EXCEPT ![z] = before, ![c.prev[before]] = first]]

(* list_reverse: every node is turned round, then the ends. *)
RECURSIVE Turn(_, _, _)
Turn(k, e, end) ==
  IF e = end THEN k
  ELSE LET s == [prev |-> [k.prev EXCEPT ![e] = k.next[e]],
                 next |-> [k.next EXCEPT ![e] = k.prev[e]]]
       IN  Turn(s, s.prev[e], end)

list_reverse(k, l) ==
  IF list_empty(k, l) THEN k
  ELSE LET t == Turn(k, list_begin(k, l), list_end(l))
           front == t.prev[list_end(l)]
           back  == t.next[list_head(l)]
       IN  [prev |-> [t.prev EXCEPT ![list_end(l)] = back, ![front] = t.next[back]],
            next |-> [t.next EXCEPT ![list_head(l)] = front, ![back] = t.prev[front]]]
-----------------------------------------------------------------------------
(* list_sort: a natural merge sort. *)
RECURSIVE find_end_of_run(_, _, _)
find_end_of_run(k, a, b) ==
  LET n == k.next[a]
  IN  IF n # b /\ ~less(n, k.prev[n]) THEN find_end_of_run(k, n, b) ELSE n

(* Mutant: of equal elements the one from the second run comes first. *)
RECURSIVE inplace_merge_unstable(_, _, _, _)
inplace_merge_unstable(k, a0, a1b0, b1) ==
  IF a0 = a1b0 \/ a1b0 = b1 THEN k
  ELSE IF less(a0, a1b0) THEN inplace_merge_unstable(k, k.next[a0], a1b0, b1)
  ELSE LET n == k.next[a1b0]
       IN  inplace_merge_unstable(list_splice(k, a0, k.prev[n], n), a0, n, b1)

RECURSIVE inplace_merge(_, _, _, _)
inplace_merge(k, a0, a1b0, b1) ==
  IF a0 = a1b0 \/ a1b0 = b1 THEN k
  ELSE IF ~less(a1b0, a0) THEN inplace_merge(k, k.next[a0], a1b0, b1)
  ELSE LET n == k.next[a1b0]
       IN  inplace_merge(list_splice(k, a0, k.prev[n], n), a0, n, b1)

(* One pass from a0 on: the links and the number of runs. *)
RECURSIVE Pass(_, _, _, _)
Pass(k, l, a0, runs) ==
  IF a0 = list_end(l) THEN <<k, runs>>
  ELSE LET a1b0 == find_end_of_run(k, a0, list_end(l))
           b1   == find_end_of_run(k, a1b0, list_end(l))
       IN  IF a1b0 = list_end(l) THEN <<k, runs + 1>>
           ELSE Pass(inplace_merge(k, a0, a1b0, b1), l, b1, runs + 1)

RECURSIVE list_sort(_, _)
list_sort(k, l) ==
  LET p == Pass(k, l, list_begin(k, l), 0)
  IN  IF p[2] > 1 THEN list_sort(p[1], l) ELSE p[1]

(* The first element from e on that is larger, or the end. *)
RECURSIVE FirstLarger(_, _, _, _)
FirstLarger(k, l, e, v) ==
  IF e = list_end(l) \/ v < val'[e] THEN e ELSE FirstLarger(k, l, k.next[e], v)

list_insert_ordered(k, l, elem) ==
  list_insert(k, FirstLarger(k, l, list_begin(k, l), val'[elem]), elem)

(* A removed element goes to the end of list m, if there is one. *)
MoveTo(k, m, n) == IF m = NULL THEN k ELSE list_insert(k, list_end(m), n)

(* list_unique from element e on; m is the list for duplicates or NULL. *)
RECURSIVE UniqueFrom(_, _, _, _, _)
UniqueFrom(k, w, l, m, e) ==
  LET n == k.next[e]
  IN  IF n = list_end(l) THEN <<k, w>>
      ELSE IF ~less(e, n) /\ ~less(n, e)
      THEN UniqueFrom(MoveTo(list_remove(k, n), m, n), [w EXCEPT ![n] = m], l, m, e)
      ELSE UniqueFrom(k, w, l, m, n)
-----------------------------------------------------------------------------
(* list_insert, list_push_front and list_push_back of an element that is   *)
(* in no list.                                                             *)
Insert(l, before, e) ==
  /\ in[e] = NULL
  /\ before = list_end(l) \/ (before \in Elems /\ in[before] = l)
  /\ link' = list_insert(link, before, e)
  /\ in' = [in EXCEPT ![e] = l]
  /\ UNCHANGED val

InsertOrdered(l, e) ==
  /\ in[e] = NULL
  /\ UNCHANGED val
  /\ link' = list_insert_ordered(link, l, e)
  /\ in' = [in EXCEPT ![e] = l]

(* list_remove, list_pop_front and list_pop_back *)
Remove(e) ==
  /\ in[e] # NULL
  /\ link' = list_remove(link, e)
  /\ in' = [in EXCEPT ![e] = NULL]
  /\ UNCHANGED val

(* list_update_elem after the value of the element has changed *)
UpdateElem(e, v) ==
  /\ in[e] # NULL
  /\ val' = [val EXCEPT ![e] = v]
  /\ link' = list_insert_ordered(list_remove(link, e), in[e], e)
  /\ UNCHANGED in

(* The elements from n up to the node z. *)
RECURSIVE Between(_, _, _)
Between(k, n, z) == IF n = z THEN <<>> ELSE <<n>> \o Between(k, k.next[n], z)

Elements(l) == Between(link, list_begin(link, l), list_end(l))

(* list_splice of a range that BEFORE is not in.  Of no elements it does   *)
(* nothing.                                                                *)
Splice(l, m, before) ==
  LET s == Elements(l) \o <<list_end(l)>>
  IN  /\ before = list_end(m) \/ (before \in Elems /\ in[before] = m)
      /\ \E i, j \in 1..Len(s) :
           LET moved == {s[x] : x \in i..(j - 1)}
           IN  /\ i < j /\ before \notin moved
               /\ link' = list_splice(link, before, s[i], s[j])
               /\ in' = [e \in Elems |-> IF e \in moved THEN m ELSE in[e]]
      /\ UNCHANGED val

Reverse(l) == link' = list_reverse(link, l) /\ UNCHANGED <<in, val>>

Sort(l) == link' = list_sort(link, l) /\ UNCHANGED <<in, val>>

Unique(l, m) ==
  /\ l # m
  /\ ~list_empty(link, l)
  /\ LET u == UniqueFrom(link, in, l, m, list_begin(link, l))
     IN  link' = u[1] /\ in' = u[2]
  /\ UNCHANGED val

Next ==
  \E l \in Lists :
    \/ Reverse(l) \/ Sort(l)
    \/ \E e \in Elems : \/ Remove(e) \/ InsertOrdered(l, e)
                        \/ \E n \in Nodes : Insert(l, n, e)
                        \/ \E v \in Vals : UpdateElem(e, v)
    \/ \E m \in Lists : \E n \in Nodes : Splice(l, m, n)
    \/ \E m \in Lists \union {NULL} : Unique(l, m)

Spec == Init /\ [][Next]_vars
-----------------------------------------------------------------------------
(* The links are those of lists: forward and backward links match, only    *)
(* the ends have null links, and an element is reached from the list it    *)
(* was put in.                                                             *)
WellFormed ==
  /\ TypeOK
  /\ \A l \in Lists :
    /\ link.prev[list_head(l)] = NULL /\ link.next[list_end(l)] = NULL
    /\ LET s == <<list_head(l)>> \o Elements(l) \o <<list_end(l)>>
       IN  /\ \A i \in 1..(Len(s) - 1) :
                link.next[s[i]] = s[i + 1] /\ link.prev[s[i + 1]] = s[i]
           /\ {s[i] : i \in 2..(Len(s) - 1)} = {e \in Elems : in[e] = l}

(* Lists are sequences, and every operation does to them what its name     *)
(* promises: an insertion goes where it is told, list_sort sorts stably    *)
(* whatever runs the list has, list_insert_ordered and list_update_elem    *)
(* put an element after its equals.                                        *)
Seqs == [l \in Lists |-> Elements(l)]
Abstract == INSTANCE ListSpec WITH seq <- Seqs

Place(l, n) == CHOOSE i \in 1..(Len(Elements(l)) + 1) :
                 n = Append(Elements(l), list_end(l))[i]

AsNamed ==
  \A l \in Lists :
    /\ Reverse(l) => Abstract!Reverse(l)
    /\ Sort(l) => Abstract!Sort(l)
    /\ \A m \in Lists \union {NULL} : Unique(l, m) => Abstract!Unique(l, m)
    /\ \A e \in Elems :
         /\ InsertOrdered(l, e) => Abstract!InsertOrdered(l, e)
         /\ \A n \in Nodes : Insert(l, n, e) => Abstract!Insert(l, Place(l, n), e)
         /\ \A v \in Vals :
              UpdateElem(e, v) /\ in[e] = l => Abstract!Update(l, e, v)

SequenceStep == [Abstract!Next]_<<Seqs, val>> /\ AsNamed
ListsAreSequences == Abstract!Init /\ [][SequenceStep]_vars
=============================================================================
