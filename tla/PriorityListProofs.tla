------------------------- MODULE PriorityListProofs -------------------------
(* What the list operations of PriorityList do to a list, for every list. *)
EXTENDS PriorityList, SequenceTheorems, WellFoundedInduction, TLAPS

(* A non-empty set of naturals has a least element. *)
LEMMA LeastNatural ==
  ASSUME NEW T, T \subseteq Nat, T # {}
  PROVE  \E x \in T : \A y \in T : x <= y
<1>1. PICK x \in T : \A y \in T : ~(<<y, x>> \in OpToRel(<, Nat))
  BY WFMin, NatLessThanWellFounded
<1>2. \A y \in T : ~(y < x)
  BY <1>1 DEF OpToRel
<1> QED
  BY <1>2

(* The loop of list_insert_ordered stops at a place that exists. *)
LEMMA InsertPosProperties ==
  ASSUME NEW S, NEW list \in Seq(S), NEW t, NEW pri
  PROVE  LET i == InsertPos(list, t, pri)
         IN  /\ i \in 1..(Len(list) + 1)
             /\ i <= Len(list) => thread_cmp(pri, t, list[i])
             /\ \A j \in 1..(i - 1) : ~thread_cmp(pri, t, list[j])
<1> DEFINE Stops == {i \in 1..(Len(list) + 1) :
                       i <= Len(list) => thread_cmp(pri, t, list[i])}
<1>1. Len(list) \in Nat
  BY LenProperties
<1>2. Stops \subseteq Nat /\ Len(list) + 1 \in Stops
  BY <1>1
<1>3. PICK i \in Stops : \A y \in Stops : i <= y
  BY <1>2, LeastNatural
<1>4. \A j \in 1..(i - 1) : ~thread_cmp(pri, t, list[j])
  BY <1>1, <1>3
<1> HIDE DEF Stops
<1>5. \E k \in 1..(Len(list) + 1) :
        /\ k <= Len(list) => thread_cmp(pri, t, list[k])
        /\ \A j \in 1..(k - 1) : ~thread_cmp(pri, t, list[j])
  BY <1>3, <1>4 DEF Stops
<1> QED
  BY <1>5 DEF InsertPos

(* list_insert_ordered moves the elements from the insertion point on up   *)
(* by one and leaves the others alone.                                     *)
LEMMA InsertProperties ==
  ASSUME NEW S, NEW list \in Seq(S), NEW t \in S, NEW pri
  PROVE  LET i == InsertPos(list, t, pri)
             r == list_insert_ordered(list, t, pri)
         IN  /\ r \in Seq(S)
             /\ Len(r) = Len(list) + 1
             /\ \A j \in 1..Len(r) :
                  r[j] = IF j < i THEN list[j]
                         ELSE IF j = i THEN t ELSE list[j - 1]
<1> DEFINE i == InsertPos(list, t, pri)
           front == SubSeq(list, 1, i - 1)
           back == SubSeq(list, i, Len(list))
<1>1. Len(list) \in Nat /\ i \in 1..(Len(list) + 1)
  BY LenProperties, InsertPosProperties
<1>2. \A j \in 1..Len(list) : list[j] \in S
  BY ElementOfSeq
<1> HIDE DEF i
<1>3. /\ front \in Seq(S)
      /\ Len(front) = i - 1
      /\ \A j \in 1..(i - 1) : front[j] = list[j]
  BY <1>1, <1>2, SubSeqProperties
<1>4. /\ back \in Seq(S)
      /\ Len(back) = Len(list) - i + 1
      /\ \A j \in 1..(Len(list) - i + 1) : back[j] = list[i + j - 1]
  BY <1>1, <1>2, SubSeqProperties
<1> HIDE DEF front, back
<1>5. /\ <<t>> \in Seq(S) /\ Len(<<t>>) = 1 /\ <<t>>[1] = t
  OBVIOUS
<1> DEFINE upTo == front \o <<t>>
           r == upTo \o back
<1>6. /\ upTo \in Seq(S)
      /\ Len(upTo) = i
      /\ \A j \in 1..i : upTo[j] = IF j < i THEN list[j] ELSE t
  BY <1>1, <1>3, <1>5, ConcatProperties
<1> HIDE DEF upTo
<1>7. /\ r \in Seq(S)
      /\ Len(r) = Len(upTo) + Len(back)
      /\ \A j \in 1..(Len(upTo) + Len(back)) :
           r[j] = IF j <= Len(upTo) THEN upTo[j] ELSE back[j - Len(upTo)]
  BY <1>4, <1>6, ConcatProperties
<1> HIDE DEF r
<1>8. Len(upTo) = i /\ Len(upTo) + Len(back) = Len(list) + 1
  BY <1>1, <1>4, <1>6
<1>9. \A j \in 1..(Len(list) + 1) :
        r[j] = IF j < i THEN list[j] ELSE IF j = i THEN t ELSE list[j - 1]
  <2> SUFFICES ASSUME NEW j \in 1..(Len(list) + 1)
               PROVE  r[j] = IF j < i THEN list[j]
                             ELSE IF j = i THEN t ELSE list[j - 1]
    OBVIOUS
  <2>1. CASE j <= i
    BY <2>1, <1>1, <1>6, <1>7, <1>8
  <2>2. CASE j > i
    <3>1. j - i \in 1..(Len(list) - i + 1) /\ i + (j - i) - 1 = j - 1
      BY <2>2, <1>1
    <3>2. r[j] = back[j - i]
      BY <2>2, <1>1, <1>7, <1>8
    <3>3. back[j - i] = list[j - 1]
      BY <3>1, <1>4
    <3> QED
      BY <2>2, <3>2, <3>3, <1>1
  <2> QED
    BY <2>1, <2>2, <1>1
<1>10. r = list_insert_ordered(list, t, pri)
  BY DEF r, upTo, front, back, i, list_insert_ordered
<1> QED
  BY <1>7, <1>8, <1>9, <1>10 DEF i

(* list_insert_ordered adds the element and keeps the others. *)
LEMMA InsertMembers ==
  ASSUME NEW S, NEW list \in Seq(S), NEW t \in S, NEW pri
  PROVE  Members(list_insert_ordered(list, t, pri)) = Members(list) \union {t}
<1> DEFINE i == InsertPos(list, t, pri)
           r == list_insert_ordered(list, t, pri)
<1>1. Len(list) \in Nat /\ i \in 1..(Len(list) + 1)
  BY LenProperties, InsertPosProperties
<1>2. /\ Len(r) = Len(list) + 1
      /\ \A j \in 1..Len(r) :
           r[j] = IF j < i THEN list[j] ELSE IF j = i THEN t ELSE list[j - 1]
  BY InsertProperties
<1> HIDE DEF i, r
<1>3. ASSUME NEW j \in 1..Len(r)
      PROVE  r[j] \in Members(list) \union {t}
  <2>1. CASE j < i
    BY <2>1, <1>1, <1>2 DEF Members
  <2>2. CASE j = i
    BY <2>2, <1>1, <1>2
  <2>3. CASE j > i
    <3>1. j - 1 \in 1..Len(list)
      BY <2>3, <1>1, <1>2
    <3>2. r[j] = list[j - 1]
      BY <2>3, <1>1, <1>2
    <3> QED
      BY <3>1, <3>2 DEF Members
  <2> QED
    BY <2>1, <2>2, <2>3, <1>1, <1>2
<1>4. t \in Members(r)
  <2>1. i \in 1..Len(r) /\ r[i] = t
    BY <1>1, <1>2
  <2> QED
    BY <2>1 DEF Members
<1>5. ASSUME NEW j \in 1..Len(list)
      PROVE  list[j] \in Members(r)
  <2>1. CASE j < i
    <3>1. j \in 1..Len(r) /\ r[j] = list[j]
      BY <2>1, <1>1, <1>2
    <3> QED
      BY <3>1 DEF Members
  <2>2. CASE j >= i
    <3>1. j + 1 \in 1..Len(r) /\ ~(j + 1 < i) /\ j + 1 # i /\ (j + 1) - 1 = j
      BY <2>2, <1>1, <1>2
    <3>2. r[j + 1] = list[j]
      BY <3>1, <1>2
    <3> QED
      BY <3>1, <3>2 DEF Members
  <2> QED
    BY <2>1, <2>2, <1>1
<1>6. Members(r) = Members(list) \union {t}
  BY <1>3, <1>4, <1>5 DEF Members
<1> QED
  BY <1>6 DEF r

(* list_insert_ordered keeps a list in priority order. *)
LEMMA InsertSorted ==
  ASSUME NEW S, NEW list \in Seq(S), NEW t \in S, NEW pri \in [S -> Nat],
         Sorted(list, pri)
  PROVE  Sorted(list_insert_ordered(list, t, pri), pri)
<1> DEFINE i == InsertPos(list, t, pri)
           r == list_insert_ordered(list, t, pri)
<1>1. /\ Len(list) \in Nat /\ i \in 1..(Len(list) + 1)
      /\ i <= Len(list) => pri[t] > pri[list[i]]
      /\ \A j \in 1..(i - 1) : ~(pri[t] > pri[list[j]])
  BY LenProperties, InsertPosProperties DEF thread_cmp
<1>2. /\ Len(r) = Len(list) + 1
      /\ \A j \in 1..Len(r) :
           r[j] = IF j < i THEN list[j] ELSE IF j = i THEN t ELSE list[j - 1]
  BY InsertProperties
<1>3. \A j \in 1..Len(list) : pri[list[j]] \in Nat
  BY ElementOfSeq
<1>4. pri[t] \in Nat
  OBVIOUS
<1> HIDE DEF i, r
<1>5. \A j \in 1..Len(list) : j < i => pri[list[j]] >= pri[t]
  BY <1>1, <1>3, <1>4
<1>6. \A j \in 1..Len(list) : j >= i => pri[t] >= pri[list[j]]
  <2> SUFFICES ASSUME NEW j \in 1..Len(list), j >= i
               PROVE  pri[t] >= pri[list[j]]
    OBVIOUS
  <2>1. i \in 1..Len(list) /\ pri[t] > pri[list[i]]
    BY <1>1
  <2>2. pri[list[i]] >= pri[list[j]]
    BY <2>1, <1>1, <1>3 DEF Sorted
  <2> QED
    BY <2>1, <2>2, <1>3, <1>4
<1>7. ASSUME NEW j \in 1..Len(r), NEW k \in 1..Len(r), j < k
      PROVE  pri[r[j]] >= pri[r[k]]
  <2>1. CASE k < i
    <3>1. /\ j \in 1..Len(list) /\ k \in 1..Len(list)
          /\ r[j] = list[j] /\ r[k] = list[k]
      BY <2>1, <1>1, <1>2, <1>7
    <3> QED
      BY <3>1, <1>7 DEF Sorted
  <2>2. CASE k = i
    BY <2>2, <1>1, <1>2, <1>5, <1>7
  <2>3. CASE k > i
    <3>1. k - 1 \in 1..Len(list) /\ r[k] = list[k - 1]
      BY <2>3, <1>1, <1>2
    <3>2. CASE j < i
      <4>1. j \in 1..Len(list) /\ (j < k - 1 \/ j = k - 1)
        BY <3>2, <2>3, <1>1, <1>2, <1>7
      <4>2. r[j] = list[j]
        BY <3>2, <1>1, <1>2
      <4>3. pri[list[j]] >= pri[list[k - 1]]
        BY <4>1, <3>1, <1>3 DEF Sorted
      <4> QED
        BY <4>2, <4>3, <3>1
    <3>3. CASE j = i
      BY <3>1, <3>3, <2>3, <1>1, <1>2, <1>6
    <3>4. CASE j > i
      <4>1. j - 1 \in 1..Len(list) /\ r[j] = list[j - 1] /\ j - 1 < k - 1
        BY <3>4, <1>1, <1>2, <1>7
      <4> QED
        BY <4>1, <3>1 DEF Sorted
    <3> QED
      BY <3>2, <3>3, <3>4, <1>1
  <2> QED
    BY <2>1, <2>2, <2>3, <1>1, <1>2
<1>8. Sorted(r, pri)
  BY <1>7 DEF Sorted
<1> QED
  BY <1>8 DEF r

(* An element that is in no list may be linked into one. *)
LEMMA InsertNoDuplicates ==
  ASSUME NEW S, NEW list \in Seq(S), NEW t \in S, NEW pri,
         NoDuplicates(list), t \notin Members(list)
  PROVE  NoDuplicates(list_insert_ordered(list, t, pri))
<1> DEFINE i == InsertPos(list, t, pri)
           r == list_insert_ordered(list, t, pri)
<1>1. Len(list) \in Nat /\ i \in 1..(Len(list) + 1)
  BY LenProperties, InsertPosProperties
<1>2. /\ Len(r) = Len(list) + 1
      /\ \A j \in 1..Len(r) :
           r[j] = IF j < i THEN list[j] ELSE IF j = i THEN t ELSE list[j - 1]
  BY InsertProperties
<1> HIDE DEF i, r
<1>3. \A j \in 1..Len(list) : list[j] # t
  BY DEF Members
<1>4. ASSUME NEW j \in 1..Len(r), NEW k \in 1..Len(r), r[j] = r[k], j < k
      PROVE  FALSE
  <2>1. CASE j < i /\ k < i
    BY <2>1, <1>1, <1>2, <1>4 DEF NoDuplicates
  <2>2. CASE j < i /\ k = i
    BY <2>2, <1>1, <1>2, <1>3, <1>4
  <2>3. CASE j < i /\ k > i
    <3>1. j \in 1..Len(list) /\ k - 1 \in 1..Len(list) /\ k - 1 >= i
      BY <2>3, <1>1, <1>2
    <3>2. list[j] = list[k - 1]
      BY <2>3, <1>1, <1>2, <1>4
    <3> QED
      BY <3>1, <3>2, <2>3, <1>1 DEF NoDuplicates
  <2>4. CASE j = i
    <3>1. k - 1 \in 1..Len(list) /\ list[k - 1] = t
      BY <2>4, <1>1, <1>2, <1>4
    <3> QED
      BY <3>1, <1>3
  <2>5. CASE j > i
    <3>1. /\ j - 1 \in 1..Len(list) /\ k - 1 \in 1..Len(list)
          /\ list[j - 1] = list[k - 1]
      BY <2>5, <1>1, <1>2, <1>4
    <3> QED
      BY <3>1, <1>4 DEF NoDuplicates
  <2> QED
    BY <2>1, <2>2, <2>3, <2>4, <2>5, <1>1, <1>4
<1>5. NoDuplicates(r)
  <2> SUFFICES ASSUME NEW j \in 1..Len(r), NEW k \in 1..Len(r), r[j] = r[k]
               PROVE  j = k
    BY DEF NoDuplicates
  <2> QED
    BY <1>1, <1>2, <1>4
<1> QED
  BY <1>5 DEF r

(* list_remove moves the elements behind t down by one. *)
LEMMA RemoveProperties ==
  ASSUME NEW S, NEW list \in Seq(S), NEW t \in Members(list)
  PROVE  LET i == RemovePos(list, t)
             r == list_remove(list, t)
         IN  /\ i \in 1..Len(list) /\ list[i] = t
             /\ r \in Seq(S)
             /\ Len(r) = Len(list) - 1
             /\ \A j \in 1..Len(r) :
                  r[j] = IF j < i THEN list[j] ELSE list[j + 1]
<1> DEFINE i == RemovePos(list, t)
           front == SubSeq(list, 1, i - 1)
           back == SubSeq(list, i + 1, Len(list))
           r == front \o back
<1>1. Len(list) \in Nat /\ i \in 1..Len(list) /\ list[i] = t
  BY LenProperties DEF Members, RemovePos
<1>2. \A j \in 1..Len(list) : list[j] \in S
  BY ElementOfSeq
<1> HIDE DEF i
<1>3. /\ front \in Seq(S)
      /\ Len(front) = i - 1
      /\ \A j \in 1..(i - 1) : front[j] = list[j]
  BY <1>1, <1>2, SubSeqProperties
<1>4. /\ back \in Seq(S)
      /\ Len(back) = Len(list) - i
      /\ \A j \in 1..(Len(list) - i) : back[j] = list[i + j]
  <2>1. /\ back \in Seq(S)
        /\ Len(back) = IF i + 1 <= Len(list) THEN Len(list) - (i + 1) + 1
                       ELSE 0
        /\ \A j \in 1..(Len(list) - (i + 1) + 1) : back[j] = list[(i + 1) + j - 1]
    BY <1>1, <1>2, SubSeqProperties
  <2> HIDE DEF back
  <2>2. \A j \in 1..(Len(list) - i) : (i + 1) + j - 1 = i + j
    BY <1>1
  <2>3. Len(list) - (i + 1) + 1 = Len(list) - i
    BY <1>1
  <2>4. Len(back) = Len(list) - i
    BY <2>1, <1>1
  <2>5. \A j \in 1..(Len(list) - i) : back[j] = list[i + j]
    BY <2>1, <2>2, <2>3
  <2> QED
    BY <2>1, <2>4, <2>5
<1> HIDE DEF front, back
<1>5. /\ r \in Seq(S)
      /\ Len(r) = Len(front) + Len(back)
      /\ \A j \in 1..(Len(front) + Len(back)) :
           r[j] = IF j <= Len(front) THEN front[j] ELSE back[j - Len(front)]
  BY <1>3, <1>4, ConcatProperties
<1>6. Len(front) = i - 1 /\ Len(front) + Len(back) = Len(list) - 1
  BY <1>1, <1>3, <1>4
<1> HIDE DEF r
<1>7. ASSUME NEW j \in 1..Len(r)
      PROVE  r[j] = IF j < i THEN list[j] ELSE list[j + 1]
  <2>1. CASE j < i
    BY <2>1, <1>1, <1>3, <1>5, <1>6
  <2>2. CASE j >= i
    <3>1. j - (i - 1) \in 1..(Len(list) - i) /\ i + (j - (i - 1)) = j + 1
      BY <2>2, <1>1, <1>5, <1>6
    <3>2. r[j] = back[j - (i - 1)]
      BY <2>2, <1>1, <1>5, <1>6
    <3>3. back[j - (i - 1)] = list[j + 1]
      BY <3>1, <1>4
    <3> QED
      BY <2>2, <3>2, <3>3, <1>1
  <2> QED
    BY <2>1, <2>2, <1>1, <1>5, <1>6
<1>8. r = list_remove(list, t)
  BY DEF r, front, back, i, RemovePos, list_remove
<1> QED
  BY <1>1, <1>5, <1>6, <1>7, <1>8 DEF i

(* list_remove links in nothing new, and keeps every element but t. *)
LEMMA RemoveMembers ==
  ASSUME NEW S, NEW list \in Seq(S), NEW t \in Members(list)
  PROVE  /\ Members(list_remove(list, t)) \subseteq Members(list)
         /\ Members(list) \subseteq Members(list_remove(list, t)) \union {t}
         /\ NoDuplicates(list) => t \notin Members(list_remove(list, t))
<1> DEFINE i == RemovePos(list, t)
           r == list_remove(list, t)
<1>1. /\ Len(list) \in Nat /\ i \in 1..Len(list) /\ list[i] = t
      /\ Len(r) = Len(list) - 1
      /\ \A j \in 1..Len(r) : r[j] = IF j < i THEN list[j] ELSE list[j + 1]
  BY LenProperties, RemoveProperties
<1> HIDE DEF i, r
<1>2. ASSUME NEW j \in 1..Len(r)
      PROVE  \E k \in 1..Len(list) : r[j] = list[k] /\ k # i
  <2>1. CASE j < i
    <3>1. j \in 1..Len(list) /\ r[j] = list[j] /\ j # i
      BY <2>1, <1>1
    <3> QED
      BY <3>1
  <2>2. CASE j >= i
    <3>1. j + 1 \in 1..Len(list) /\ r[j] = list[j + 1] /\ j + 1 # i
      BY <2>2, <1>1
    <3> QED
      BY <3>1
  <2> QED
    BY <2>1, <2>2, <1>1
<1>3. ASSUME NEW k \in 1..Len(list), k # i
      PROVE  list[k] \in Members(r)
  <2>1. CASE k < i
    <3>1. k \in 1..Len(r) /\ r[k] = list[k]
      BY <2>1, <1>1
    <3> QED
      BY <3>1 DEF Members
  <2>2. CASE k > i
    <3>1. k - 1 \in 1..Len(r) /\ ~(k - 1 < i) /\ (k - 1) + 1 = k
      BY <2>2, <1>1
    <3>2. r[k - 1] = list[k]
      BY <3>1, <1>1
    <3> QED
      BY <3>1, <3>2 DEF Members
  <2> QED
    BY <2>1, <2>2, <1>1, <1>3
<1>4. Members(r) \subseteq Members(list)
  BY <1>2 DEF Members
<1>5. Members(list) \subseteq Members(r) \union {t}
  BY <1>1, <1>3 DEF Members
<1>6. ASSUME NoDuplicates(list) PROVE t \notin Members(r)
  BY <1>1, <1>2, <1>6 DEF Members, NoDuplicates
<1> QED
  BY <1>4, <1>5, <1>6 DEF r

(* list_remove keeps the order of a list, and links no element twice. *)
LEMMA RemoveKeepsOrder ==
  ASSUME NEW S, NEW list \in Seq(S), NEW t \in Members(list), NEW pri
  PROVE  /\ Sorted(list, pri) => Sorted(list_remove(list, t), pri)
         /\ NoDuplicates(list) => NoDuplicates(list_remove(list, t))
<1> DEFINE i == RemovePos(list, t)
           r == list_remove(list, t)
           from(j) == IF j < i THEN j ELSE j + 1
<1>1. /\ Len(list) \in Nat /\ i \in 1..Len(list)
      /\ Len(r) = Len(list) - 1
      /\ \A j \in 1..Len(r) : r[j] = IF j < i THEN list[j] ELSE list[j + 1]
  BY LenProperties, RemoveProperties
<1> HIDE DEF i, r
<1>2. ASSUME NEW j \in 1..Len(r)
      PROVE  from(j) \in 1..Len(list) /\ r[j] = list[from(j)]
  BY <1>1
<1>3. ASSUME NEW j \in 1..Len(r), NEW k \in 1..Len(r)
      PROVE  /\ j < k => from(j) < from(k)
             /\ from(j) = from(k) => j = k
  BY <1>1
<1> HIDE DEF from
<1>4. ASSUME Sorted(list, pri) PROVE Sorted(r, pri)
  BY <1>2, <1>3, <1>4 DEF Sorted
<1>5. ASSUME NoDuplicates(list) PROVE NoDuplicates(r)
  BY <1>2, <1>3, <1>5 DEF NoDuplicates
<1> QED
  BY <1>4, <1>5 DEF r
=============================================================================
