---------------------------- MODULE PallocProofs ----------------------------
(***************************************************************************)
(* No page is given out twice, and the bitmaps are exact, for any number   *)
(* of threads and pages: although palloc_free_multiple takes no lock.      *)
(***************************************************************************)
EXTENDS Palloc, TLAPS

(* A quotient of natural numbers is a natural number (DIV_ROUND_UP).      *)
LEMMA DivNat == \A a \in Nat, b \in Nat \ {0} : a \div b \in Nat
  BY SMT

(* The bitmap of a pool takes a natural number of pages (init_pool).      *)
LEMMA BmNat == \A n \in Nat : bm_pages(n) \in Nat
<1> SUFFICES ASSUME NEW n \in Nat PROVE bm_pages(n) \in Nat
  OBVIOUS
<1> DEFINE a == (n + ELEM_BITS - 1) \div ELEM_BITS
           b == ELEM_BITS \div 8
<1>1. a \in Nat
  BY DivNat, PallocAssumption
<1>2. b \in Nat
  BY DivNat, PallocAssumption
<1>3. a * b \in Nat
  <2> HIDE DEF a, b
  <2> QED  BY <1>1, <1>2
<1>4. a * b + PGSIZE - 1 \in Nat
  <2> HIDE DEF a, b
  <2> QED  BY <1>3, PallocAssumption
<1>5. (a * b + PGSIZE - 1) \div PGSIZE \in Nat
  <2> HIDE DEF a, b
  <2> QED  BY <1>4, DivNat, PallocAssumption
<1> QED  BY <1>5 DEF bm_pages

(* palloc_init splits the pages: the pools lie within them and apart.     *)
LEMMA PoolFacts ==
  /\ \A p \in Pools : /\ base(p) \in Nat /\ limit(p) \in Nat
                      /\ base(p) <= limit(p) /\ limit(p) <= free_pages
  /\ limit("kernel") <= base("user")
<1>1. user_pages \in Nat /\ kernel_pages \in Nat
  BY PallocAssumption DEF user_pages, kernel_pages
<1>2. bm_pages(user_pages) \in Nat /\ bm_pages(kernel_pages) \in Nat
  BY <1>1, BmNat
<1>3. kernel_pages <= free_pages
  BY <1>1, PallocAssumption DEF kernel_pages, user_pages
<1> QED  BY <1>1, <1>2, <1>3, PallocAssumption, RoomAssumption DEF Pools, base, limit

-----------------------------------------------------------------------------
(* Page PG belongs to run R; thread T has PG in hand. *)
In(pg, r) == r.first <= pg /\ pg < r.first + r.cnt

Has(t, pg) ==
  \/ pc[t] = "set" /\ idx[t] <= pg /\ pg < idx[t] + k[t]
  \/ pc[t] = "got" /\ idx[t] <= pg /\ pg < idx[t] + cnt[t]
  \/ pc[t] = "clear" /\ idx[t] + k[t] <= pg /\ pg < idx[t] + cnt[t]

(* The lock of its pool is held by the thread that scans or sets bits. *)
LockInv == \A t \in Threads :
  pc[t] \in {"scan", "set", "got", "failed"} => lock[pool[t]] = t

(* The run a thread works on lies in one pool. *)
RangeInv == \A t \in Threads :
  /\ pc[t] # "idle" => cnt[t] >= 1
  /\ pc[t] \in {"scan", "set", "clear"} => k[t] < cnt[t]
  /\ pc[t] \in {"scan", "set", "got"} =>
       base(pool[t]) <= idx[t] /\ idx[t] + cnt[t] <= limit(pool[t])
  /\ pc[t] = "clear" => idx[t] + cnt[t] <= free_pages

(* The bits that were tested and found clear still are. *)
TestedInv == \A t \in Threads, pg \in Pages :
  /\ pc[t] = "scan" /\ idx[t] <= pg /\ pg < idx[t] + k[t] => ~used[pg]
  /\ pc[t] = "set" /\ idx[t] + k[t] <= pg /\ pg < idx[t] + cnt[t] => ~used[pg]

(* A marked page has exactly one owner, an unmarked one none. *)
OwnerInv == \A pg \in Pages :
  /\ used[pg] <=> (\E r \in alloc : In(pg, r)) \/ (\E t \in Threads : Has(t, pg))
  /\ \A r, s \in alloc : In(pg, r) /\ In(pg, s) => r = s
  /\ \A t, u \in Threads : Has(t, pg) /\ Has(u, pg) => t = u
  /\ \A t \in Threads, r \in alloc : ~(Has(t, pg) /\ In(pg, r))

(* The inductive invariant: exactness needs the tested bits to stay clear, *)
(* which the lock and the pools' being apart give.                         *)
IInv == TypeOK /\ LockInv /\ RangeInv /\ TestedInv /\ OwnerInv

(* The pages of a run are pages, and its parts are numbers (bitmap_scan   *)
(* stays below the end of the pool).                                       *)
LEMMA RunFacts ==
  ASSUME NEW r \in Runs
  PROVE  /\ r.first \in Nat /\ r.cnt \in Nat /\ r.cnt >= 1
         /\ r.first + r.cnt <= free_pages
         /\ r = [first |-> r.first, cnt |-> r.cnt]
<1>1. r \in [first: Pages, cnt: 1..MaxRun]
  BY DEF Runs
<1>2. r.first \in Nat /\ r.cnt \in Nat /\ r.cnt >= 1
  BY <1>1, PallocAssumption DEF Pages
<1>3. PICK p \in Pools : r.first + r.cnt <= limit(p)
  BY DEF Runs
<1> QED
  BY <1>1, <1>2, <1>3, PoolFacts, PallocAssumption

(* A new kernel has no page in use (palloc_init).                          *)
LEMMA InitIInv == Init => IInv
<1> SUFFICES ASSUME Init PROVE IInv
  OBVIOUS
<1>1. TypeOK
  BY PallocAssumption DEF Init, TypeOK, Pools
<1>2. LockInv /\ RangeInv /\ TestedInv
  BY DEF Init, LockInv, RangeInv, TestedInv
<1>3. OwnerInv
  BY DEF Init, OwnerInv, Has
<1> QED
  BY <1>1, <1>2, <1>3 DEF IInv

(* Every step keeps the types; indices stay within the pool because        *)
(* bitmap_scan stops before its end.                                       *)
LEMMA NextTypeOK == IInv /\ [Next]_vars => TypeOK'
<1> SUFFICES ASSUME IInv, [Next]_vars PROVE TypeOK'
  OBVIOUS
<1> USE DEF IInv
<1>1. ASSUME NEW t \in Threads, NEW p \in Pools, NEW n \in 1..MaxRun, Get(t, p, n)
      PROVE  TypeOK'
  BY <1>1 DEF Get, TypeOK
<1>2. ASSUME NEW t \in Threads, Acquire(t) PROVE TypeOK'
  <2>1. base(pool[t]) \in 0..free_pages
    BY PoolFacts, PallocAssumption DEF TypeOK
  <2> QED
    BY <1>2, <2>1, PallocAssumption DEF Acquire, TypeOK
<1>3. ASSUME NEW t \in Threads, TestBit(t) PROVE TypeOK'
  <2>1. pool[t] \in Pools /\ limit(pool[t]) \in Nat /\ limit(pool[t]) <= free_pages
    BY PoolFacts DEF TypeOK
  <2>2. CASE used[idx[t] + k[t]] /\ idx[t] + 1 + cnt[t] <= limit(pool[t])
    <3>1. idx[t] + 1 \in 0..free_pages
      BY <2>1, <2>2, PallocAssumption DEF TypeOK
    <3> QED
      BY <1>3, <2>2, <3>1, PallocAssumption DEF TestBit, TypeOK
  <2>3. CASE used[idx[t] + k[t]] /\ ~(idx[t] + 1 + cnt[t] <= limit(pool[t]))
    BY <1>3, <2>3 DEF TestBit, TypeOK
  <2>4. CASE ~used[idx[t] + k[t]] /\ k[t] + 1 < cnt[t]
    <3>1. k[t] + 1 \in 0..MaxRun
      BY <2>4, PallocAssumption DEF TypeOK
    <3> QED
      BY <1>3, <2>4, <3>1 DEF TestBit, TypeOK
  <2>5. CASE ~used[idx[t] + k[t]] /\ ~(k[t] + 1 < cnt[t])
    BY <1>3, <2>5, PallocAssumption DEF TestBit, TypeOK
  <2> QED
    BY <2>2, <2>3, <2>4, <2>5
<1>4. ASSUME NEW t \in Threads, SetBit(t) PROVE TypeOK'
  <2>1. k[t] + 1 \in 0..MaxRun
    BY <1>4, PallocAssumption DEF SetBit, RangeInv, TypeOK
  <2> QED
    BY <1>4, <2>1 DEF SetBit, TypeOK
<1>5. ASSUME NEW t \in Threads, Return(t) PROVE TypeOK'
  <2>1. pc[t] = "got" => [first |-> idx[t], cnt |-> cnt[t]] \in Runs
    <3> SUFFICES ASSUME pc[t] = "got" PROVE [first |-> idx[t], cnt |-> cnt[t]] \in Runs
      OBVIOUS
    <3>1. /\ base(pool[t]) <= idx[t] /\ idx[t] + cnt[t] <= limit(pool[t])
          /\ cnt[t] >= 1 /\ pool[t] \in Pools
      BY DEF RangeInv, TypeOK
    <3>2. idx[t] \in Pages /\ cnt[t] \in 1..MaxRun
      BY <3>1, PoolFacts, PallocAssumption DEF TypeOK, Pages
    <3> QED
      BY <3>1, <3>2 DEF Runs
  <2>2. alloc' \subseteq Runs
    BY <1>5, <2>1 DEF Return, TypeOK
  <2>3. /\ used' = used
        /\ lock' = [lock EXCEPT ![pool[t]] = None]
        /\ Done(t)
    BY <1>5 DEF Return
  <2> QED
    BY <2>2, <2>3, PallocAssumption DEF Done, TypeOK, Pools
<1>6. ASSUME NEW t \in Threads, NEW r \in alloc, Free(t, r) PROVE TypeOK'
  <2>1. r \in [first: Pages, cnt: 1..MaxRun]
    BY DEF TypeOK, Runs
  <2>2. r.first \in 0..free_pages /\ r.cnt \in 0..MaxRun
    BY <2>1, PallocAssumption DEF Pages
  <2> QED
    BY <1>6, <2>2, PallocAssumption DEF Free, TypeOK
<1>7. ASSUME NEW t \in Threads, ClearBit(t) PROVE TypeOK'
  <2>1. CASE k[t] + 1 = cnt[t]
    <3>1. /\ used' = [used EXCEPT ![idx[t] + k[t]] = FALSE]
          /\ lock' = lock /\ alloc' = alloc
          /\ Done(t)
      BY <1>7, <2>1 DEF ClearBit
    <3>2. used' \in [Pages -> BOOLEAN]
      BY <3>1 DEF TypeOK
    <3>3. 0 \in 0..MaxRun /\ 0 \in 0..free_pages /\ "kernel" \in Pools
      BY PallocAssumption DEF Pools
    <3> QED
      BY <3>1, <3>2, <3>3 DEF Done, TypeOK
  <2>2. CASE k[t] + 1 # cnt[t]
    <3>1. k[t] + 1 \in 0..MaxRun
      BY <1>7, PallocAssumption DEF ClearBit, RangeInv, TypeOK
    <3> QED
      BY <1>7, <2>2, <3>1 DEF ClearBit, TypeOK
  <2> QED
    BY <2>1, <2>2
<1>8. CASE UNCHANGED vars
  BY <1>8 DEF vars, TypeOK
<1> QED
  BY <1>1, <1>2, <1>3, <1>4, <1>5, <1>6, <1>7, <1>8 DEF Next, Step

(* A pool's lock is given to one thread at a time (palloc_get_multiple).   *)
LEMMA NextLock == IInv /\ [Next]_vars => LockInv'
<1> SUFFICES ASSUME IInv, [Next]_vars, NEW u \in Threads,
                    pc'[u] \in {"scan", "set", "got", "failed"}
             PROVE  lock'[pool'[u]] = u
  BY DEF LockInv
<1> USE PallocAssumption DEF IInv, LockInv, TypeOK
<1>1. ASSUME NEW t \in Threads, NEW p \in Pools, NEW n \in 1..MaxRun, Get(t, p, n)
      PROVE  lock'[pool'[u]] = u
  BY <1>1 DEF Get
<1>2. ASSUME NEW t \in Threads, Acquire(t) PROVE lock'[pool'[u]] = u
  BY <1>2 DEF Acquire
<1>3. ASSUME NEW t \in Threads, TestBit(t) PROVE lock'[pool'[u]] = u
  BY <1>3 DEF TestBit
<1>4. ASSUME NEW t \in Threads, SetBit(t) PROVE lock'[pool'[u]] = u
  BY <1>4 DEF SetBit
<1>5. ASSUME NEW t \in Threads, Return(t) PROVE lock'[pool'[u]] = u
  BY <1>5 DEF Return, Done
<1>6. ASSUME NEW t \in Threads, NEW r \in alloc, Free(t, r)
      PROVE  lock'[pool'[u]] = u
  BY <1>6 DEF Free
<1>7. ASSUME NEW t \in Threads, ClearBit(t) PROVE lock'[pool'[u]] = u
  BY <1>7 DEF ClearBit, Done
<1>8. CASE UNCHANGED vars
  BY <1>8 DEF vars
<1> QED
  BY <1>1, <1>2, <1>3, <1>4, <1>5, <1>6, <1>7, <1>8 DEF Next, Step

(* A thread works on a run within a pool (bitmap_scan's bounds).           *)
LEMMA NextRange == IInv /\ [Next]_vars => RangeInv'
<1> DEFINE Ok(u) == /\ pc[u] # "idle" => cnt[u] >= 1
                    /\ pc[u] \in {"scan", "set", "clear"} => k[u] < cnt[u]
                    /\ pc[u] \in {"scan", "set", "got"} =>
                         /\ base(pool[u]) <= idx[u]
                         /\ idx[u] + cnt[u] <= limit(pool[u])
                    /\ pc[u] = "clear" => idx[u] + cnt[u] <= free_pages
<1> SUFFICES ASSUME IInv, [Next]_vars, NEW u \in Threads PROVE Ok(u)'
  BY DEF RangeInv
<1>0. Ok(u) /\ TypeOK
  BY DEF IInv, RangeInv
<1>1. ASSUME NEW t \in Threads, NEW p \in Pools, NEW n \in 1..MaxRun, Get(t, p, n)
      PROVE  Ok(u)'
  BY <1>0, <1>1, PallocAssumption DEF Get, TypeOK
<1>2. ASSUME NEW t \in Threads, Acquire(t) PROVE Ok(u)'
  <2>1. base(pool[t]) \in Nat /\ cnt[t] \in Nat
    BY <1>0, PoolFacts DEF TypeOK
  <2>2. cnt[t] >= 1
    BY <1>2 DEF IInv, RangeInv, Acquire
  <2> QED
    BY <1>0, <1>2, <2>1, <2>2, PallocAssumption DEF Acquire, TypeOK
<1>3. ASSUME NEW t \in Threads, TestBit(t) PROVE Ok(u)'
  <2>1. /\ base(pool[t]) \in Nat /\ cnt[t] \in Nat /\ idx[t] \in Nat /\ k[t] \in Nat
        /\ limit(pool[t]) \in Nat
    BY <1>0, PoolFacts DEF TypeOK
  <2>2. CASE u = t
    BY <1>0, <1>3, <2>1, <2>2 DEF TestBit, TypeOK
  <2>3. CASE u # t
    BY <1>0, <1>3, <2>3 DEF TestBit, TypeOK
  <2> QED
    BY <2>2, <2>3
<1>4. ASSUME NEW t \in Threads, SetBit(t) PROVE Ok(u)'
  BY <1>0, <1>4, PallocAssumption DEF SetBit, TypeOK
<1>5. ASSUME NEW t \in Threads, Return(t) PROVE Ok(u)'
  BY <1>0, <1>5 DEF Return, Done, TypeOK
<1>6. ASSUME NEW t \in Threads, NEW r \in alloc, Free(t, r) PROVE Ok(u)'
  <2>1. r \in Runs
    BY <1>0 DEF TypeOK
  <2> QED
    BY <1>0, <1>6, <2>1, RunFacts DEF Free, TypeOK
<1>7. ASSUME NEW t \in Threads, ClearBit(t) PROVE Ok(u)'
  BY <1>0, <1>7, PallocAssumption DEF ClearBit, Done, TypeOK
<1>8. CASE UNCHANGED vars
  BY <1>0, <1>8 DEF vars
<1> QED
  BY <1>1, <1>2, <1>3, <1>4, <1>5, <1>6, <1>7, <1>8 DEF Next, Step

(* Two threads that scan or set bits are in different pools, so they never *)
(* look at the same page (palloc_get_multiple holds the pool's lock).      *)
LEMMA ScansApart ==
  ASSUME IInv, NEW t \in Threads, NEW u \in Threads, t # u,
         pc[t] = "set", pc[u] \in {"scan", "set"}
  PROVE  idx[t] + cnt[t] <= idx[u] \/ idx[u] + cnt[u] <= idx[t]
<1>1. pool[t] # pool[u] /\ pool[t] \in Pools /\ pool[u] \in Pools
  BY DEF IInv, LockInv, TypeOK
<1>2. /\ base(pool[t]) <= idx[t] /\ idx[t] + cnt[t] <= limit(pool[t])
      /\ base(pool[u]) <= idx[u] /\ idx[u] + cnt[u] <= limit(pool[u])
  BY DEF IInv, RangeInv
<1>3. /\ idx[t] \in Nat /\ idx[u] \in Nat /\ cnt[t] \in Nat /\ cnt[u] \in Nat
  BY DEF IInv, TypeOK
<1>4. CASE pool[t] = "kernel"
  <2>1. pool[u] = "user"
    BY <1>1, <1>4 DEF Pools
  <2> QED
    BY <1>2, <1>3, <1>4, <2>1, PoolFacts DEF Pools
<1>5. CASE pool[t] = "user"
  <2>1. pool[u] = "kernel"
    BY <1>1, <1>5 DEF Pools
  <2> QED
    BY <1>2, <1>3, <1>5, <2>1, PoolFacts DEF Pools
<1> QED
  BY <1>1, <1>4, <1>5 DEF Pools

(* Bits found clear stay clear until they are set by the thread that       *)
(* tested them: others in the pool only clear bits (palloc_free_multiple). *)
LEMMA NextTested == IInv /\ [Next]_vars => TestedInv'
<1> DEFINE Ok(u, pg) ==
      /\ pc[u] = "scan" /\ idx[u] <= pg /\ pg < idx[u] + k[u] => ~used[pg]
      /\ pc[u] = "set" /\ idx[u] + k[u] <= pg /\ pg < idx[u] + cnt[u] => ~used[pg]
<1> SUFFICES ASSUME IInv, [Next]_vars, NEW u \in Threads, NEW pg \in Pages
             PROVE  Ok(u, pg)'
  BY DEF TestedInv
<1>0. Ok(u, pg) /\ TypeOK
  BY DEF IInv, TestedInv
<1>a. pg \in Int
  BY DEF Pages
<1>1. ASSUME NEW t \in Threads, NEW p \in Pools, NEW n \in 1..MaxRun, Get(t, p, n)
      PROVE  Ok(u, pg)'
  BY <1>0, <1>1 DEF Get, TypeOK
<1>2. ASSUME NEW t \in Threads, Acquire(t) PROVE Ok(u, pg)'
  <2>1. base(pool[t]) \in Nat
    BY <1>0, PoolFacts DEF TypeOK
  <2> QED
    BY <1>0, <1>a, <1>2, <2>1 DEF Acquire, TypeOK
<1>3. ASSUME NEW t \in Threads, TestBit(t) PROVE Ok(u, pg)'
  <2>1. CASE u # t
    BY <1>0, <1>3, <2>1 DEF TestBit, TypeOK
  <2>2. CASE u = t /\ used[idx[t] + k[t]]
    BY <1>0, <1>a, <1>3, <2>2 DEF TestBit, TypeOK
  <2>3. CASE u = t /\ ~used[idx[t] + k[t]]
    <3>1. k[t] < cnt[t] /\ k[t] \in Nat /\ cnt[t] \in Nat /\ idx[t] \in Nat
      BY <1>3 DEF TestBit, IInv, RangeInv, TypeOK
    <3> QED
      BY <1>0, <1>a, <1>3, <2>3, <3>1 DEF TestBit, TypeOK
  <2> QED
    BY <2>1, <2>2, <2>3
<1>4. ASSUME NEW t \in Threads, SetBit(t) PROVE Ok(u, pg)'
  <2>1. k[t] < cnt[t] /\ k[t] \in Nat /\ cnt[t] \in Nat /\ idx[t] \in Nat
    BY <1>4 DEF SetBit, IInv, RangeInv, TypeOK
  <2>2. CASE u = t
    BY <1>0, <1>a, <1>4, <2>1, <2>2 DEF SetBit, TypeOK
  <2>3. CASE u # t
    <3>1. pc'[u] = pc[u] /\ idx'[u] = idx[u] /\ k'[u] = k[u] /\ cnt'[u] = cnt[u]
      BY <1>0, <1>4, <2>3 DEF SetBit, TypeOK
    <3>2. k[u] \in Nat /\ cnt[u] \in Nat /\ idx[u] \in Nat
      BY <1>0 DEF TypeOK
    <3>3. pc[u] \in {"scan", "set"} => k[u] < cnt[u]
      BY DEF IInv, RangeInv
    <3>4. pc[u] \in {"scan", "set"} =>
            idx[t] + cnt[t] <= idx[u] \/ idx[u] + cnt[u] <= idx[t]
      BY <1>4, <2>3, ScansApart DEF SetBit
    <3>5. pg # idx[t] + k[t] => used'[pg] = used[pg]
      BY <1>0, <1>4 DEF SetBit, TypeOK
    <3> QED
      BY <1>0, <1>a, <2>1, <3>1, <3>2, <3>3, <3>4, <3>5
  <2> QED
    BY <2>2, <2>3
<1>5. ASSUME NEW t \in Threads, Return(t) PROVE Ok(u, pg)'
  BY <1>0, <1>5 DEF Return, Done, TypeOK
<1>6. ASSUME NEW t \in Threads, NEW r \in alloc, Free(t, r) PROVE Ok(u, pg)'
  BY <1>0, <1>6 DEF Free, TypeOK
<1>7. ASSUME NEW t \in Threads, ClearBit(t) PROVE Ok(u, pg)'
  BY <1>0, <1>7 DEF ClearBit, Done, TypeOK
<1>8. CASE UNCHANGED vars
  BY <1>0, <1>8 DEF vars
<1> QED
  BY <1>1, <1>2, <1>3, <1>4, <1>5, <1>6, <1>7, <1>8 DEF Next, Step

(* A page that is marked keeps one owner, and gets one when it is marked   *)
(* (palloc_get_multiple, palloc_free_multiple).                            *)
LEMMA NextOwner == IInv /\ [Next]_vars => OwnerInv'
<1> DEFINE Ok(pg) ==
      /\ used[pg] <=> (\E r \in alloc : In(pg, r)) \/ (\E t \in Threads : Has(t, pg))
      /\ \A r, s \in alloc : In(pg, r) /\ In(pg, s) => r = s
      /\ \A t, u \in Threads : Has(t, pg) /\ Has(u, pg) => t = u
      /\ \A t \in Threads, r \in alloc : ~(Has(t, pg) /\ In(pg, r))
<1> SUFFICES ASSUME IInv, [Next]_vars, NEW pg \in Pages PROVE Ok(pg)'
  BY DEF OwnerInv
<1>0. Ok(pg) /\ TypeOK
  BY DEF IInv, OwnerInv
<1>a. pg \in Int
  BY DEF Pages
<1>b. ASSUME \A u \in Threads : Has(u, pg)' <=> Has(u, pg),
             used' = used, alloc' = alloc
      PROVE  Ok(pg)'
  BY <1>0, <1>b, Zenon DEF In
<1>1. ASSUME NEW t \in Threads, NEW p \in Pools, NEW n \in 1..MaxRun, Get(t, p, n)
      PROVE  Ok(pg)'
  <2>1. \A u \in Threads : Has(u, pg)' <=> Has(u, pg)
    BY <1>0, <1>1 DEF Get, Has, TypeOK
  <2> QED
    BY <1>b, <1>1, <2>1 DEF Get
<1>2. ASSUME NEW t \in Threads, Acquire(t) PROVE Ok(pg)'
  <2>1. \A u \in Threads : Has(u, pg)' <=> Has(u, pg)
    BY <1>0, <1>2 DEF Acquire, Has, TypeOK
  <2> QED
    BY <1>b, <1>2, <2>1 DEF Acquire
<1>3. ASSUME NEW t \in Threads, TestBit(t) PROVE Ok(pg)'
  <2>1. \A u \in Threads : Has(u, pg)' <=> Has(u, pg)
    BY <1>0, <1>a, <1>3 DEF TestBit, Has, TypeOK
  <2> QED
    BY <1>b, <1>3, <2>1 DEF TestBit
<1>4. ASSUME NEW t \in Threads, SetBit(t) PROVE Ok(pg)'
  <2> DEFINE q == idx[t] + k[t]
  <2>1. k[t] < cnt[t] /\ k[t] \in Nat /\ cnt[t] \in Nat /\ idx[t] \in Nat
    BY <1>4 DEF SetBit, IInv, RangeInv, TypeOK
  <2>2. \A u \in Threads \ {t} : Has(u, pg)' <=> Has(u, pg)
    BY <1>0, <1>4 DEF SetBit, Has, TypeOK
  <2>3. Has(t, pg)' <=> Has(t, pg) \/ pg = q
    <3>1. /\ pc[t] = "set" /\ idx'[t] = idx[t] /\ cnt'[t] = cnt[t]
          /\ k'[t] = k[t] + 1
          /\ pc'[t] = IF k[t] + 1 = cnt[t] THEN "got" ELSE "set"
      BY <1>4 DEF SetBit, IInv, TypeOK
    <3> QED
      BY <1>a, <2>1, <3>1 DEF Has
  <2>4. alloc' = alloc /\ used'[pg] = (used[pg] \/ pg = q)
    BY <1>0, <1>4 DEF SetBit, TypeOK
  <2>5. pg = q => ~used[pg]
    BY <1>4, <2>1 DEF SetBit, IInv, TestedInv
  <2> HIDE DEF q
  <2> QED
    BY <1>0, <2>2, <2>3, <2>4, <2>5 DEF In
<1>5. ASSUME NEW t \in Threads, Return(t) PROVE Ok(pg)'
  <2> DEFINE q == [first |-> idx[t], cnt |-> cnt[t]]
  <2>1. \A u \in Threads \ {t} : Has(u, pg)' <=> Has(u, pg)
    BY <1>0, <1>5 DEF Return, Done, Has, TypeOK
  <2>2. ~Has(t, pg)' /\ used' = used
    BY <1>0, <1>5 DEF Return, Done, Has, TypeOK
  <2>3. CASE pc[t] = "got"
    <3>1. alloc' = alloc \union {q}
      BY <1>5, <2>3 DEF Return
    <3>2. In(pg, q) <=> Has(t, pg)
      BY <2>3 DEF Has, In
    <3> HIDE DEF q
    <3> QED
      BY <1>0, <2>1, <2>2, <3>1, <3>2 DEF In
  <2>4. CASE pc[t] = "failed"
    <3>1. alloc' = alloc /\ ~Has(t, pg)
      BY <1>5, <2>4 DEF Return, Has
    <3> QED
      BY <1>b, <2>1, <2>2, <3>1
  <2> QED
    BY <1>5, <2>3, <2>4 DEF Return
<1>6. ASSUME NEW r \in alloc, NEW t \in Threads, Free(t, r) PROVE Ok(pg)'
  <2>0. r \in Runs
    BY <1>0 DEF TypeOK
  <2>1. \A u \in Threads \ {t} : Has(u, pg)' <=> Has(u, pg)
    BY <1>0, <1>6 DEF Free, Has, TypeOK
  <2>2. ~Has(t, pg) /\ (Has(t, pg)' <=> In(pg, r))
    BY <1>0, <1>6, <2>0, RunFacts DEF Free, Has, In, TypeOK
  <2>3. used' = used /\ alloc' = alloc \ {r}
    BY <1>6 DEF Free
  <2> QED
    BY <1>0, <2>1, <2>2, <2>3 DEF In
<1>7. ASSUME NEW t \in Threads, ClearBit(t) PROVE Ok(pg)'
  <2> DEFINE q == idx[t] + k[t]
  <2>1. k[t] < cnt[t] /\ k[t] \in Nat /\ cnt[t] \in Nat /\ idx[t] \in Nat
    BY <1>7 DEF ClearBit, IInv, RangeInv, TypeOK
  <2>2. \A u \in Threads \ {t} : Has(u, pg)' <=> Has(u, pg)
    BY <1>0, <1>7 DEF ClearBit, Done, Has, TypeOK
  <2>3. Has(t, pg)' <=> Has(t, pg) /\ pg # q
    <3>1. CASE k[t] + 1 = cnt[t]
      <4>1. pc[t] = "clear" /\ pc'[t] = "idle"
        BY <1>7, <3>1 DEF ClearBit, Done, IInv, TypeOK
      <4> QED
        BY <1>a, <2>1, <3>1, <4>1 DEF Has
    <3>2. CASE k[t] + 1 # cnt[t]
      <4>1. /\ pc[t] = "clear" /\ pc'[t] = "clear"
            /\ idx'[t] = idx[t] /\ cnt'[t] = cnt[t] /\ k'[t] = k[t] + 1
        BY <1>7, <3>2 DEF ClearBit, IInv, TypeOK
      <4> QED
        BY <1>a, <2>1, <4>1 DEF Has
    <3> QED
      BY <3>1, <3>2
  <2>4. alloc' = alloc /\ used'[pg] = (used[pg] /\ pg # q)
    BY <1>0, <1>7 DEF ClearBit, Done, TypeOK
  <2>5. pg = q => Has(t, pg)
    BY <1>7, <2>1 DEF ClearBit, Has
  <2> HIDE DEF q
  <2> QED
    BY <1>0, <2>2, <2>3, <2>4, <2>5 DEF In
<1>8. CASE UNCHANGED vars
  <2>1. \A u \in Threads : Has(u, pg)' <=> Has(u, pg)
    BY <1>8 DEF vars, Has
  <2> QED
    BY <1>8, <1>b, <2>1 DEF vars
<1> QED
  BY <1>1, <1>2, <1>3, <1>4, <1>5, <1>6, <1>7, <1>8 DEF Next, Step

(* The invariant holds in every state (palloc_get_multiple and             *)
(* palloc_free_multiple by any number of threads).                         *)
LEMMA Invariance == Spec => []IInv
<1>1. IInv /\ [Next]_vars => IInv'
  BY NextTypeOK, NextLock, NextRange, NextTested, NextOwner DEF IInv
<1> QED
  BY InitIInv, <1>1, PTL DEF Spec

(* No page is given to two callers, for any number of threads and pages,   *)
(* although palloc_free_multiple clears bits without the pool's lock.      *)
THEOREM PagesNeverShared == Spec => []PagesExclusive
<1>1. IInv => PagesExclusive
  <2> SUFFICES ASSUME IInv, NEW r \in alloc, NEW s \in alloc, r # s,
                      NEW pg \in Run(r.first, r.cnt) \intersect Run(s.first, s.cnt)
               PROVE  FALSE
    BY DEF PagesExclusive
  <2>1. r \in Runs /\ s \in Runs
    BY DEF IInv, TypeOK
  <2>2. pg \in Pages /\ In(pg, r) /\ In(pg, s)
    BY <2>1, RunFacts, PallocAssumption DEF Run, In, Pages
  <2> QED
    BY <2>2 DEF IInv, OwnerInv
<1> QED
  BY Invariance, <1>1, PTL

(* The bitmaps are exact: palloc_get_multiple and palloc_free_multiple     *)
(* neither lose a page nor mark one that nobody has.                       *)
THEOREM BitmapsExact == Spec => []BitmapExact
<1>1. IInv => BitmapExact
  <2> SUFFICES ASSUME IInv, NEW pg \in Pages
               PROVE  used[pg] <=> \/ \E r \in alloc : pg \in Run(r.first, r.cnt)
                                   \/ \E t \in Threads : pg \in InHand(t)
    BY DEF BitmapExact
  <2>1. ASSUME NEW r \in alloc PROVE pg \in Run(r.first, r.cnt) <=> In(pg, r)
    <3>1. r \in Runs
      BY DEF IInv, TypeOK
    <3> QED
      BY <3>1, RunFacts DEF Run, In, Pages
  <2>2. ASSUME NEW t \in Threads PROVE pg \in InHand(t) <=> Has(t, pg)
    <3>1. k[t] \in Nat /\ cnt[t] \in Nat /\ idx[t] \in Nat /\ pg \in Int
      BY DEF IInv, TypeOK, Pages
    <3> QED
      BY <3>1 DEF InHand, Run, Has
  <2> QED
    BY <2>1, <2>2 DEF IInv, OwnerInv
<1> QED
  BY Invariance, <1>1, PTL
=============================================================================
