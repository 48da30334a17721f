------------------------------- MODULE Palloc -------------------------------
(***************************************************************************)
(* The page allocator (threads/palloc.c).  palloc_get_multiple scans and   *)
(* sets the bitmap of a pool under the pool's lock; palloc_free_multiple   *)
(* clears bits without it.  Each bit is tested, set and cleared by one     *)
(* instruction (lib/kernel/bitmap.c), so a step is one bit.                *)
(*                                                                         *)
(* A page is its number from the start of free memory on.  alloc is what   *)
(* the callers hold: a run is passed to palloc_free_multiple once, whole,  *)
(* and by any thread.                                                      *)
(***************************************************************************)
EXTENDS Integers

CONSTANTS
  Threads, None,
  free_pages, user_page_limit,   \* palloc_init's sizes
  PGSIZE, ELEM_BITS,             \* bytes in a page, bits in a bitmap element
  MaxRun                         \* bound: pages asked for in one call

ASSUME PallocAssumption ==
  /\ free_pages \in Nat /\ user_page_limit \in Nat
  /\ PGSIZE \in Nat \ {0} /\ ELEM_BITS \in Nat \ {0}
  /\ MaxRun \in Nat
  /\ None \notin Threads

Pools == {"kernel", "user"}

(* palloc_init: half of the memory, or less, for user pages. *)
user_pages == IF free_pages \div 2 > user_page_limit
              THEN user_page_limit ELSE free_pages \div 2
kernel_pages == free_pages - user_pages

(* init_pool: the first pages of a pool of n pages hold its bitmap. *)
bm_pages(n) ==
  (((n + ELEM_BITS - 1) \div ELEM_BITS) * (ELEM_BITS \div 8) + PGSIZE - 1)
    \div PGSIZE

(* The pages of a pool are those from its base up to its limit. *)
base(p) == IF p = "kernel" THEN bm_pages(kernel_pages)
           ELSE kernel_pages + bm_pages(user_pages)
limit(p) == IF p = "kernel" THEN kernel_pages ELSE free_pages

(* init_pool panics if a pool has no room for its bitmap. *)
ASSUME RoomAssumption == \A p \in Pools : base(p) <= limit(p)

Pages == 0..(free_pages - 1)

(* The N pages from FIRST on. *)
Run(first, n) == first..(first + n - 1)

Runs == {r \in [first: Pages, cnt: 1..MaxRun] :
           \E p \in Pools : r.first >= base(p) /\ r.first + r.cnt <= limit(p)}

VARIABLES
  used,                   \* the bitmaps: is the page in use?
  lock,                   \* who holds the lock of a pool
  alloc,                  \* the runs callers hold
  pc, pool, cnt, idx, k   \* of every thread: place, pool, pages asked for or
                          \* freed, candidate or first page, bits done
vars == <<used, lock, alloc, pc, pool, cnt, idx, k>>

TypeOK ==
  /\ used \in [Pages -> BOOLEAN]
  /\ lock \in [Pools -> Threads \union {None}]
  /\ alloc \in SUBSET Runs
  /\ pc \in [Threads -> {"idle", "acquire", "scan", "set", "got", "failed",
                         "clear"}]
  /\ pool \in [Threads -> Pools]
  /\ cnt \in [Threads -> 0..MaxRun]
  /\ idx \in [Threads -> 0..free_pages]
  /\ k \in [Threads -> 0..MaxRun]
-----------------------------------------------------------------------------
(* The call returns; the thread's local variables are gone. *)
Done(t) ==
  /\ pc' = [pc EXCEPT ![t] = "idle"]
  /\ pool' = [pool EXCEPT ![t] = "kernel"]
  /\ cnt' = [cnt EXCEPT ![t] = 0]
  /\ idx' = [idx EXCEPT ![t] = 0]
  /\ k' = [k EXCEPT ![t] = 0]

Init ==
  /\ used = [pg \in Pages |-> FALSE]
  /\ lock = [p \in Pools |-> None]
  /\ alloc = {}
  /\ pc = [t \in Threads |-> "idle"]
  /\ pool = [t \in Threads |-> "kernel"]
  /\ cnt = [t \in Threads |-> 0]
  /\ idx = [t \in Threads |-> 0]
  /\ k = [t \in Threads |-> 0]

(* palloc_get_multiple(flags, n), n > 0: flags select the pool. *)
Get(t, p, n) ==
  /\ pc[t] = "idle"
  /\ pc' = [pc EXCEPT ![t] = "acquire"]
  /\ pool' = [pool EXCEPT ![t] = p]
  /\ cnt' = [cnt EXCEPT ![t] = n]
  /\ UNCHANGED <<used, lock, alloc, idx, k>>

(* Mutant: the scan does not take the lock. *)
AcquireNot(t) ==
  /\ pc[t] = "acquire"
  /\ pc' = [pc EXCEPT ![t] =
              IF base(pool[t]) + cnt[t] <= limit(pool[t]) THEN "scan"
              ELSE "failed"]
  /\ idx' = [idx EXCEPT ![t] = base(pool[t])]
  /\ k' = [k EXCEPT ![t] = 0]
  /\ UNCHANGED <<used, lock, alloc, pool, cnt>>

(* lock_acquire, and bitmap_scan up to its loop; a request for more pages  *)
(* than the pool has fails.                                                *)
Acquire(t) ==
  /\ pc[t] = "acquire" /\ lock[pool[t]] = None
  /\ lock' = [lock EXCEPT ![pool[t]] = t]
  /\ pc' = [pc EXCEPT ![t] =
              IF base(pool[t]) + cnt[t] <= limit(pool[t]) THEN "scan"
              ELSE "failed"]
  /\ idx' = [idx EXCEPT ![t] = base(pool[t])]
  /\ k' = [k EXCEPT ![t] = 0]
  /\ UNCHANGED <<used, alloc, pool, cnt>>

(* One bitmap_test in bitmap_scan: a bit in use ends bitmap_contains, and  *)
(* the next candidate is tried unless it would run past the end.           *)
TestBit(t) ==
  /\ pc[t] = "scan"
  /\ IF used[idx[t] + k[t]]
     THEN IF idx[t] + 1 + cnt[t] <= limit(pool[t])
          THEN /\ idx' = [idx EXCEPT ![t] = @ + 1]
               /\ k' = [k EXCEPT ![t] = 0]
               /\ UNCHANGED pc
          ELSE /\ pc' = [pc EXCEPT ![t] = "failed"]
               /\ UNCHANGED <<idx, k>>
     ELSE IF k[t] + 1 < cnt[t]
          THEN /\ k' = [k EXCEPT ![t] = @ + 1]
               /\ UNCHANGED <<pc, idx>>
          ELSE /\ pc' = [pc EXCEPT ![t] = "set"]
               /\ k' = [k EXCEPT ![t] = 0]
               /\ UNCHANGED idx
  /\ UNCHANGED <<used, lock, alloc, pool, cnt>>

(* One bitmap_mark in bitmap_scan_and_flip. *)
SetBit(t) ==
  /\ pc[t] = "set"
  /\ used' = [used EXCEPT ![idx[t] + k[t]] = TRUE]
  /\ k' = [k EXCEPT ![t] = @ + 1]
  /\ pc' = [pc EXCEPT ![t] = IF k[t] + 1 = cnt[t] THEN "got" ELSE "set"]
  /\ UNCHANGED <<lock, alloc, pool, cnt, idx>>

(* lock_release, and the run or a null pointer goes to the caller. *)
Return(t) ==
  /\ pc[t] \in {"got", "failed"}
  /\ lock' = [lock EXCEPT ![pool[t]] = None]
  /\ alloc' = alloc \union (IF pc[t] = "got"
                            THEN {[first |-> idx[t], cnt |-> cnt[t]]} ELSE {})
  /\ Done(t)
  /\ UNCHANGED used

(* palloc_free_multiple up to the clearing of the bits.  (The pool that    *)
(* page_from_pool finds is the one whose pages these are.)                 *)
Free(t, r) ==
  /\ pc[t] = "idle"
  /\ r \in alloc
  /\ alloc' = alloc \ {r}
  /\ pc' = [pc EXCEPT ![t] = "clear"]
  /\ cnt' = [cnt EXCEPT ![t] = r.cnt]
  /\ idx' = [idx EXCEPT ![t] = r.first]
  /\ k' = [k EXCEPT ![t] = 0]
  /\ UNCHANGED <<used, lock, pool>>

(* Mutant: the last bit of the run stays set. *)
ClearBitButLast(t) ==
  /\ pc[t] = "clear"
  /\ used' = [used EXCEPT ![idx[t] + k[t]] = k[t] + 1 = cnt[t]]
  /\ IF k[t] + 1 = cnt[t] THEN Done(t)
     ELSE k' = [k EXCEPT ![t] = @ + 1] /\ UNCHANGED <<pc, pool, cnt, idx>>
  /\ UNCHANGED <<lock, alloc>>

(* One bitmap_reset in palloc_free_multiple. *)
ClearBit(t) ==
  /\ pc[t] = "clear"
  /\ used' = [used EXCEPT ![idx[t] + k[t]] = FALSE]
  /\ IF k[t] + 1 = cnt[t] THEN Done(t)
     ELSE k' = [k EXCEPT ![t] = @ + 1] /\ UNCHANGED <<pc, pool, cnt, idx>>
  /\ UNCHANGED <<lock, alloc>>

Step(t) == \/ Acquire(t) \/ TestBit(t) \/ SetBit(t) \/ Return(t) \/ ClearBit(t)

Next == \E t \in Threads :
          \/ Step(t)
          \/ \E p \in Pools, n \in 1..MaxRun : Get(t, p, n)
          \/ \E r \in alloc : Free(t, r)

Spec == Init /\ [][Next]_vars
-----------------------------------------------------------------------------
(* The pages a thread has in its hands in the middle of a call: marked     *)
(* already, or not yet cleared.                                            *)
InHand(t) == CASE pc[t] = "set" -> Run(idx[t], k[t])
               [] pc[t] = "got" -> Run(idx[t], cnt[t])
               [] pc[t] = "clear" -> Run(idx[t] + k[t], cnt[t] - k[t])
               [] OTHER -> {}

(* No page is given to two callers, whatever allocations and frees are     *)
(* going on: the runs in use are disjoint.                                 *)
PagesExclusive ==
  \A r, s \in alloc : r # s => Run(r.first, r.cnt) \intersect Run(s.first, s.cnt) = {}

(* The bitmaps are exact: a page is marked if and only if a caller holds   *)
(* it or a call in progress has it in hand.  So no page is lost, and the   *)
(* assertion in palloc_free_multiple that its pages are marked holds.      *)
BitmapExact ==
  \A pg \in Pages :
    used[pg] <=> \/ \E r \in alloc : pg \in Run(r.first, r.cnt)
                 \/ \E t \in Threads : pg \in InHand(t)
=============================================================================
