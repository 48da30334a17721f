---------------------------- MODULE PriorityList ----------------------------
(***************************************************************************)
(* The lists of lib/kernel/list.c as the scheduler uses them: sequences of *)
(* threads, kept in decreasing order of priority by thread_cmp.  A list    *)
(* element is the thread that embeds it; the two-pointer representation of *)
(* the list is not visible here.                                           *)
(***************************************************************************)
EXTENDS Naturals, Sequences

PRI_MIN == 0
PRI_MAX == 63

(* The elements of a list. *)
Members(list) == {list[i] : i \in 1..Len(list)}

(* Mutant: a thread goes before its equals. *)
thread_cmp_not_strict(pri, a, b) == pri[a] >= pri[b]

(* thread_cmp: A goes before B when its priority is strictly higher. *)
thread_cmp(pri, a, b) == pri[a] > pri[b]

(* Where list_insert_ordered stops: the first element that t must precede, *)
(* or the tail.  Elements of equal priority stay in front of t.            *)
InsertPos(list, t, pri) ==
  CHOOSE i \in 1..(Len(list) + 1) :
    /\ i <= Len(list) => thread_cmp(pri, t, list[i])
    /\ \A j \in 1..(i - 1) : ~thread_cmp(pri, t, list[j])

list_insert_ordered(list, t, pri) ==
  LET i == InsertPos(list, t, pri)
  IN  SubSeq(list, 1, i - 1) \o <<t>> \o SubSeq(list, i, Len(list))

(* list_remove unlinks the one occurrence of t. *)
RemovePos(list, t) == CHOOSE i \in 1..Len(list) : list[i] = t

list_remove(list, t) ==
  LET i == RemovePos(list, t)
  IN  SubSeq(list, 1, i - 1) \o SubSeq(list, i + 1, Len(list))

(* Moves t, whose priority has changed, to its new place in the list. *)
list_update_elem(list, t, pri) ==
  list_insert_ordered(list_remove(list, t), t, pri)

(* The priority at the front of a list, PRI_MIN when it is empty. *)
thread_list_top_pri(list, pri) ==
  IF list = <<>> THEN PRI_MIN ELSE pri[Head(list)]

(* Highest priority first. *)
Sorted(list, pri) ==
  \A i, j \in 1..Len(list) : i < j => pri[list[i]] >= pri[list[j]]

(* No element is linked twice. *)
NoDuplicates(list) ==
  \A i, j \in 1..Len(list) : list[i] = list[j] => i = j
=============================================================================
