------------------------------ MODULE ListSpec ------------------------------
(* What lib/kernel/list.h promises: lists are sequences, an element is in  *)
(* one of them at most, and every operation is what it is called.          *)
EXTENDS Integers, Sequences, FiniteSets

CONSTANTS Lists, Elems, Vals, NULL

VARIABLES
  seq,   \* the elements of every list, in order
  val    \* the value every element is compared by

Range(s) == {s[i] : i \in DOMAIN s}
Listed == UNION {Range(seq[l]) : l \in Lists}

InsertAt(s, i, e) == SubSeq(s, 1, i - 1) \o <<e>> \o SubSeq(s, i, Len(s))
Without(s, e) == SelectSeq(s, LAMBDA x : x # e)
Reversed(s) == [i \in 1..Len(s) |-> s[Len(s) + 1 - i]]

(* Before the first element that is larger, or at the end. *)
InsertSorted(s, e) ==
  LET larger == {i \in 1..Len(s) : val'[e] < val'[s[i]]}
      place  == IF larger = {} THEN Len(s) + 1
                ELSE CHOOSE i \in larger : \A j \in larger : i <= j
  IN  InsertAt(s, place, e)

(* In order, and equal elements in the order they were in. *)
StablySorted(s) ==
  LET before(i) == {j \in 1..Len(s) : \/ val[s[j]] < val[s[i]]
                                      \/ val[s[j]] = val[s[i]] /\ j < i}
  IN  [n \in 1..Len(s) |->
         s[CHOOSE i \in 1..Len(s) : Cardinality(before(i)) = n - 1]]

(* The elements that differ from the one before them; the others. *)
Firsts(s) == LET keep == {i \in 1..Len(s) : i = 1 \/ val[s[i]] # val[s[i - 1]]}
             IN  SelectSeq(s, LAMBDA x : \E i \in keep : s[i] = x)
Repeats(s) == SelectSeq(s, LAMBDA x : x \notin Range(Firsts(s)))

Init == /\ seq = [l \in Lists |-> <<>>]
        /\ val \in [Elems -> Vals]

Insert(l, i, e) ==
  /\ e \notin Listed /\ i \in 1..(Len(seq[l]) + 1)
  /\ seq' = [seq EXCEPT ![l] = InsertAt(@, i, e)]
  /\ UNCHANGED val

InsertOrdered(l, e) ==
  /\ e \notin Listed
  /\ UNCHANGED val
  /\ seq' = [seq EXCEPT ![l] = InsertSorted(@, e)]

Remove(e) ==
  /\ e \in Listed
  /\ seq' = [l \in Lists |-> Without(seq[l], e)]
  /\ UNCHANGED val

Update(l, e, v) ==
  /\ e \in Range(seq[l])
  /\ val' = [val EXCEPT ![e] = v]
  /\ seq' = [seq EXCEPT ![l] = InsertSorted(Without(@, e), e)]

(* Elements i..j of list l move before element p of list m. *)
Splice(l, i, j, m, p) ==
  LET moved == SubSeq(seq[l], i, j)
      rest  == SubSeq(seq[l], 1, i - 1) \o SubSeq(seq[l], j + 1, Len(seq[l]))
      q     == IF l = m /\ p > j THEN p - Len(moved) ELSE p
      into  == IF l = m THEN rest ELSE seq[m]
  IN  /\ 1 <= i /\ i <= j /\ j <= Len(seq[l])
      /\ p \in 1..(Len(seq[m]) + 1)
      /\ l = m => p <= i \/ p > j
      /\ seq' = [seq EXCEPT ![l] = rest,
                            ![m] = SubSeq(into, 1, q - 1) \o moved
                                     \o SubSeq(into, q, Len(into))]
      /\ UNCHANGED val

Reverse(l) == seq' = [seq EXCEPT ![l] = Reversed(@)] /\ UNCHANGED val

Sort(l) == seq' = [seq EXCEPT ![l] = StablySorted(@)] /\ UNCHANGED val

(* The repeated elements go to the end of list m, or nowhere. *)
Unique(l, m) ==
  /\ l # m
  /\ seq' = [x \in Lists |-> CASE x = l -> Firsts(seq[l])
                              [] x = m -> seq[m] \o Repeats(seq[l])
                              [] OTHER -> seq[x]]
  /\ UNCHANGED val

N == 1..(Cardinality(Elems) + 1)

Next ==
  \E l \in Lists :
    \/ Reverse(l) \/ Sort(l)
    \/ \E e \in Elems : \/ Remove(e) \/ InsertOrdered(l, e)
                        \/ \E i \in N : Insert(l, i, e)
                        \/ \E v \in Vals : Update(l, e, v)
    \/ \E m \in Lists \union {NULL} : Unique(l, m)
    \/ \E m \in Lists : \E i, j, p \in N : Splice(l, i, j, m, p)

Spec == Init /\ [][Next]_<<seq, val>>
=============================================================================
