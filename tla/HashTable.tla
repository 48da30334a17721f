----------------------------- MODULE HashTable ------------------------------
(***************************************************************************)
(* A hash table under any sequence of its operations (lib/kernel/hash.c).  *)
(* The callers hold a lock; malloc may fail at any time.                   *)
(***************************************************************************)
EXTENDS HashOps, FiniteSets

CONSTANTS Elems      \* records with a key and an identity

VARIABLES
  h,     \* the table
  last   \* the last operation, its argument and what it returned

vars == <<h, last>>

Stored == UNION {ToSet(h.buckets[b]) : b \in DOMAIN h.buckets}

Call(op, e, ret) == [op |-> op, elem |-> e, ret |-> ret]

Init == h = NewTable /\ last = Call("init", NONE, NONE)

(* The element itself is in no table. *)
Insert(e) ==
  /\ e \notin Stored
  /\ \E mem \in BOOLEAN : h' = hash_insert(h, e, mem)
  /\ last' = Call("insert", e, hash_find(h, e))

Replace(e) ==
  /\ e \notin Stored
  /\ \E mem \in BOOLEAN : h' = hash_replace(h, e, mem)
  /\ last' = Call("replace", e, hash_find(h, e))

Delete(e) ==
  /\ \E mem \in BOOLEAN : h' = hash_delete(h, e, mem)
  /\ last' = Call("delete", e, hash_find(h, e))

Clear == h' = hash_clear(h) /\ last' = Call("clear", NONE, NONE)

Next == Clear \/ \E e \in Elems : Insert(e) \/ Replace(e) \/ Delete(e)

Spec == Init /\ [][Next]_vars
-----------------------------------------------------------------------------
(* An iteration sees every element once, wherever the empty buckets are.   *)
IterationComplete ==
  LET seen == hash_apply(h)
  IN  ToSet(seen) = Stored /\ Len(seen) = Cardinality(Stored)

(* The table is a partial function from keys to elements: an insertion     *)
(* does not replace, a replacement does, and each returns the element that *)
(* was there.  Rehashing is not seen, whether it happens or fails, and an   *)
(* iteration sees every element of the map once.                           *)
Keys == {e.key : e \in Elems}
Contents == [k \in Keys |-> LET s == {e \in Stored : e.key = k}
                            IN  IF s = {} THEN NONE ELSE CHOOSE e \in s : TRUE]

OnePerKey == \A e, f \in Stored : e.key = f.key => e = f

MapStep ==
  LET map == Contents
      e   == last'.elem
      old == map[e.key]
      put == CASE last'.op = "insert"  -> IF old = NONE THEN e ELSE old
               [] last'.op = "replace" -> e
               [] last'.op = "delete"  -> NONE
  IN  IF last'.op = "clear" THEN Contents' = [k \in Keys |-> NONE]
      ELSE last'.ret = old /\ Contents' = [map EXCEPT ![e.key] = put]

AsMap == OnePerKey /\ IterationComplete /\ MapStep
IsMap == [][AsMap]_vars
=============================================================================
