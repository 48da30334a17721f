------------------------------- MODULE Malloc -------------------------------
(***************************************************************************)
(* The block allocator (threads/malloc.c) on top of the page allocator.    *)
(*                                                                         *)
(* The work of malloc and free on a descriptor is done under its lock, and *)
(* descriptors share nothing but the page allocator, whose calls are       *)
(* atomic (module Palloc); so a call is one step.  live is what the        *)
(* callers hold: for every block, the number of bytes they asked for.      *)
(***************************************************************************)
EXTENDS Integers, Sequences, FiniteSets

CONSTANTS
  PGSIZE,
  MIN_BLOCK,      \* the smallest block size, 16 in the code
  ARENA,          \* sizeof (struct arena)
  NPages,         \* pages in the kernel pool
  SIZE_MOD,       \* 1 + the largest size_t
  Sizes,          \* bound: the sizes that are asked for
  Factors,        \* bound: the arguments of calloc
  MaxLive,        \* bound: blocks in use at a time
  NULL

MallocAssumption ==
  /\ {PGSIZE, MIN_BLOCK, ARENA, NPages, SIZE_MOD} \subseteq Nat \ {0}
  /\ ARENA < PGSIZE
  /\ (Sizes \union Factors) \subseteq 0..(SIZE_MOD - 1)

(* malloc_init: a descriptor for every power of two below half a page. *)
descs == {d \in 0..9 : MIN_BLOCK * 2^d < PGSIZE \div 2}
block_size(d) == MIN_BLOCK * 2^d
blocks_per_arena(d) == (PGSIZE - ARENA) \div block_size(d)

BIG == -1    \* stands for the null descriptor
Pages == 0..(NPages - 1)
Block(page, i) == [page |-> page, i |-> i]

VARIABLES
  heap,   \* arena: the header in a page, NULL if it has none;
          \* tails: the pages of big blocks after their first;
          \* free_list: of every descriptor
  live    \* the blocks in use: [block, size]

vars == <<heap, live>>

Blocks == [page: Pages, i: 0..(PGSIZE - 1)]

TypeOK ==
  /\ heap.arena \in [Pages -> [desc: descs \union {BIG}, free_cnt: 0..PGSIZE]
                                \union {NULL}]
  /\ heap.tails \subseteq Pages
  /\ DOMAIN heap.free_list = descs
  /\ \A d \in descs : heap.free_list[d] \in Seq(Blocks)
  /\ live \subseteq [block: Blocks, size: Nat]

Init ==
  /\ heap = [arena |-> [pg \in Pages |-> NULL], tails |-> {},
             free_list |-> [d \in descs |-> <<>>]]
  /\ live = {}
-----------------------------------------------------------------------------
(* palloc_get_multiple: the first group of n free pages, NULL if there is  *)
(* none or n is 0.                                                         *)
palloc_get_multiple(h, n) ==
  LET free(pg) == pg \in Pages /\ h.arena[pg] = NULL /\ pg \notin h.tails
      fits(pg) == \A q \in pg..(pg + n - 1) : free(q)
  IN  IF n > 0 /\ \E pg \in Pages : fits(pg)
      THEN CHOOSE pg \in Pages : fits(pg) /\ \A q \in 0..(pg - 1) : ~fits(q)
      ELSE NULL

DIV_ROUND_UP(x, step) == ((x + step - 1) % SIZE_MOD) \div step

(* Mutant: the header is forgotten. *)
page_cnt_bare(size) == DIV_ROUND_UP(size, PGSIZE)

(* The pages for a big block and its header. *)
page_cnt(size) == DIV_ROUND_UP((size + ARENA) % SIZE_MOD, PGSIZE)

(* The smallest descriptor for a request, BIG if all are too small. *)
Desc(size) ==
  IF \E d \in descs : block_size(d) >= size
  THEN CHOOSE d \in descs : /\ block_size(d) >= size
                            /\ \A e \in 0..(d - 1) : block_size(e) < size
  ELSE BIG

GetBig(h, size) ==
  LET n  == page_cnt(size)
      pg == palloc_get_multiple(h, n)
  IN  IF pg = NULL THEN [heap |-> h, block |-> NULL]
      ELSE [heap |-> [h EXCEPT !.arena[pg] = [desc |-> BIG, free_cnt |-> n],
                               !.tails = @ \union (pg + 1)..(pg + n - 1)],
            block |-> Block(pg, 0)]

(* The blocks of a new arena are added to the free list, which is empty. *)
NewArena(h, d, pg) ==
  [h EXCEPT !.arena[pg] = [desc |-> d, free_cnt |-> blocks_per_arena(d)],
            !.free_list[d] = [j \in 1..blocks_per_arena(d) |-> Block(pg, j - 1)]]

PopFree(h, d) ==
  LET b == Head(h.free_list[d])
  IN  [heap |-> [h EXCEPT !.free_list[d] = Tail(@),
                          !.arena[b.page].free_cnt = @ - 1],
       block |-> b]

(* What malloc returns, and the heap after it. *)
malloc(h, size) ==
  LET d  == Desc(size)
      pg == palloc_get_multiple(h, 1)
  IN  IF size = 0 THEN [heap |-> h, block |-> NULL]
      ELSE IF d = BIG THEN GetBig(h, size)
      ELSE IF h.free_list[d] # <<>> THEN PopFree(h, d)
      ELSE IF pg = NULL THEN [heap |-> h, block |-> NULL]
      ELSE PopFree(NewArena(h, d, pg), d)

(* Mutant: the blocks of an arena that is given back stay on the list. *)
free_listed(h, b) ==
  LET a == h.arena[b.page]
  IN  IF a.desc = BIG
      THEN [h EXCEPT !.arena[b.page] = NULL,
                     !.tails = @ \ (b.page + 1)..(b.page + a.free_cnt - 1)]
      ELSE IF a.free_cnt + 1 >= blocks_per_arena(a.desc)
      THEN [h EXCEPT !.arena[b.page] = NULL,
                     !.free_list[a.desc] = <<b>> \o @]
      ELSE [h EXCEPT !.arena[b.page].free_cnt = @ + 1,
                     !.free_list[a.desc] = <<b>> \o @]

(* The heap after free: the block goes to the front of the free list; if   *)
(* its arena is now unused, the arena's blocks leave the list and the page *)
(* goes back.  A big block goes back at once.                              *)
free(h, b) ==
  LET a == h.arena[b.page]
      elsewhere(c) == c.page # b.page
  IN  IF a.desc = BIG
      THEN [h EXCEPT !.arena[b.page] = NULL,
                     !.tails = @ \ (b.page + 1)..(b.page + a.free_cnt - 1)]
      ELSE IF a.free_cnt + 1 >= blocks_per_arena(a.desc)
      THEN [h EXCEPT !.arena[b.page] = NULL,
                     !.free_list[a.desc] = SelectSeq(@, elsewhere)]
      ELSE [h EXCEPT !.arena[b.page].free_cnt = @ + 1,
                     !.free_list[a.desc] = <<b>> \o @]
-----------------------------------------------------------------------------
(* The block a caller asked for with SIZE bytes in mind; nothing for NULL. *)
Given(block, size) ==
  IF block = NULL THEN {} ELSE {[block |-> block, size |-> size]}

Malloc(size) ==
  LET m == malloc(heap, size)
  IN  /\ Cardinality(live) < MaxLive
      /\ heap' = m.heap
      /\ live' = live \union Given(m.block, size)

(* calloc: the product is tested for overflow. *)
Calloc(a, b) ==
  LET size == (a * b) % SIZE_MOD
      m == IF size < a \/ size < b THEN [heap |-> heap, block |-> NULL]
           ELSE malloc(heap, size)
  IN  /\ Cardinality(live) < MaxLive
      /\ heap' = m.heap
      /\ live' = live \union Given(m.block, a * b)

(* realloc: to nothing is free; otherwise the new block is obtained first, *)
(* and without one the old block stays.                                    *)
Realloc(x, size) ==
  LET m == malloc(heap, size)
  IN  IF size = 0
      THEN heap' = free(heap, x.block) /\ live' = live \ {x}
      ELSE /\ heap' = IF m.block = NULL THEN heap ELSE free(m.heap, x.block)
           /\ live' = IF m.block = NULL THEN live
                      ELSE (live \ {x}) \union Given(m.block, size)

Free(x) ==
  /\ heap' = free(heap, x.block)
  /\ live' = live \ {x}

Next == \/ \E n \in Sizes : Malloc(n)
        \/ \E a, b \in Factors : Calloc(a, b)
        \/ \E x \in live : Free(x) \/ \E n \in Sizes : Realloc(x, n)

Spec == Init /\ [][Next]_vars
-----------------------------------------------------------------------------
(* The addresses of the bytes a caller may use. *)
Extent(x) ==
  LET d == heap.arena[x.block.page].desc
      start == x.block.page * PGSIZE + ARENA
                 + IF d = BIG THEN 0 ELSE x.block.i * block_size(d)
  IN  start..(start + x.size - 1)

(* The addresses that belong to arena headers, and to no page in use. *)
Headers == UNION {(pg * PGSIZE)..(pg * PGSIZE + ARENA - 1) :
                    pg \in {q \in Pages : heap.arena[q] # NULL}}
Unused == UNION {(pg * PGSIZE)..(pg * PGSIZE + PGSIZE - 1) :
                   pg \in {q \in Pages : heap.arena[q] = NULL} \ heap.tails}

(* The blocks in use do not overlap, and they lie in pages that are in     *)
(* use, outside of the headers: a caller that keeps to the bytes it asked  *)
(* for damages nobody.                                                     *)
BlocksDisjoint ==
  /\ \A x, y \in live : x # y => Extent(x) \intersect Extent(y) = {}
  /\ \A x \in live : /\ heap.arena[x.block.page] # NULL
                     /\ Extent(x) \subseteq 0..(NPages * PGSIZE - 1)
                     /\ Extent(x) \intersect (Headers \union Unused) = {}

(* Every block of an arena is in use or on its descriptor's free list,     *)
(* once, and free_cnt counts the free ones; so free's assertion about      *)
(* free_cnt holds.                                                         *)
FreeListsExact ==
  /\ \A d \in descs :
       LET fl == heap.free_list[d]
           inUse == {x.block : x \in {y \in live : heap.arena[y.block.page].desc = d}}
           arenas == {pg \in Pages : heap.arena[pg] # NULL /\ heap.arena[pg].desc = d}
           listed == {fl[j] : j \in DOMAIN fl}
       IN  /\ Cardinality(listed) = Len(fl)
           /\ listed \intersect inUse = {}
           /\ listed \union inUse =
                {Block(pg, i) : pg \in arenas, i \in 0..(blocks_per_arena(d) - 1)}
           /\ \A pg \in arenas : heap.arena[pg].free_cnt =
                                   Cardinality({b \in listed : b.page = pg})

=============================================================================
