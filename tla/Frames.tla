------------------------------- MODULE Frames -------------------------------
(***************************************************************************)
(* Demand paging (vm/frame.c, vm/page.c, vm/swap.c), from the page fault   *)
(* handler (userprog/exception.c), the set-up of a process                 *)
(* (userprog/process.c) and its exit down to the page directory.           *)
(*                                                                         *)
(* frame_obtain runs under ft_lock but takes several steps, because it     *)
(* reads from the disk; other processes fault, wait for the lock and exit  *)
(* meanwhile.  A page of the user pool is an abstract value, and so is a   *)
(* virtual page.  The entries of the supplemental table that belong to one *)
(* page are one entry here: hash_insert keeps the first, and the others    *)
(* are freed with it.                                                      *)
(***************************************************************************)
EXTENDS Integers, FiniteSets

CONSTANTS
  Procs,
  CodePages,   \* virtual pages that load_segment describes
  StackPages,  \* virtual pages within STACK_LIMIT of PHYS_BASE
  Top,         \* the stack page that setup_stack fills
  WildPages,   \* other virtual pages
  Slots,       \* indexes of the frame table, 0..n-1
  KPages,      \* pages of the user pool
  MaxRuns,     \* bound: how often a process is started
  NULL, FREED

VARIABLES
  supp,     \* entries of the supplemental page table
  used,     \* used_map of the frame table
  ft,       \* the frame table
  ft_lock,  \* its holder
  pool,     \* free pages
  pd,       \* page directories
  pc, fa,   \* where a process is, and the page it needs a frame for
  runs,     \* how often a process was started
  lost,     \* pages nobody refers to
  stopped   \* the kernel panicked or is in undefined behaviour

vars == <<supp, used, ft, ft_lock, pool, pd, pc, fa, runs, lost, stopped>>

UPages == CodePages \union StackPages \union WildPages
BITMAP_ERROR == -1
Entry(loc, idx, live) == [location |-> loc, idx |-> idx, live |-> live]
Owner(p, u) == <<p, u>>

TypeOK ==
  /\ supp \in [Procs -> [UPages -> {NULL} \union
                 [location: {"UNMAPPED", "SWAPPED", "FILESYSTEM"},
                  idx: Slots \union {BITMAP_ERROR}, live: BOOLEAN]]]
  /\ used \subseteq Slots
  /\ ft \in [Slots -> [p_addr: KPages \union {NULL},
                       user: (Procs \X UPages) \union {NULL, FREED}]]
  /\ ft_lock \in Procs \union {NULL}
  /\ pool \subseteq KPages /\ lost \subseteq KPages
  /\ pd \in [Procs -> [UPages -> KPages \union {NULL}]]
  /\ pc \in [Procs -> {"none", "obtain", "fetch", "install", "user", "exit", "destroy"}]
  /\ fa \in [Procs -> UPages \union {NULL}]
  /\ runs \in [Procs -> 0..MaxRuns]
  /\ stopped \in BOOLEAN

Init ==
  /\ supp = [p \in Procs |-> [u \in UPages |-> NULL]]
  /\ used = {}
  /\ ft = [i \in Slots |-> [p_addr |-> NULL, user |-> NULL]]
  /\ ft_lock = NULL
  /\ pool = KPages /\ lost = {}
  /\ pd = [p \in Procs |-> [u \in UPages |-> NULL]]
  /\ pc = [p \in Procs |-> "none"]
  /\ fa = [p \in Procs |-> NULL]
  /\ runs = [p \in Procs |-> 0]
  /\ stopped = FALSE

Goto(p, l) == pc' = [pc EXCEPT ![p] = l]

(* Nothing runs after a panic. *)
Stop == /\ stopped' = TRUE
        /\ UNCHANGED <<supp, used, ft, ft_lock, pool, pd, pc, fa, runs, lost>>
-----------------------------------------------------------------------------
(* load: the segments get entries, the top of the stack gets one and, by   *)
(* setup_stack, a frame.                                                   *)
Load(p) ==
  /\ pc[p] = "none" /\ runs[p] < MaxRuns
  /\ runs' = [runs EXCEPT ![p] = @ + 1]
  /\ supp' = [supp EXCEPT ![p] = [u \in UPages |->
                CASE u \in CodePages -> Entry("FILESYSTEM", BITMAP_ERROR, TRUE)
                  [] u = Top         -> Entry("UNMAPPED", BITMAP_ERROR, TRUE)
                  [] OTHER           -> NULL]]
  /\ fa' = [fa EXCEPT ![p] = Top]
  /\ Goto(p, "obtain")
  /\ UNCHANGED <<used, ft, ft_lock, pool, pd, lost, stopped>>

(* page_supp_alloc in table s, of a page that may have an entry *)
page_supp_alloc(s, u) ==
  IF s[u] = NULL THEN [s EXCEPT ![u] = Entry("UNMAPPED", BITMAP_ERROR, TRUE)] ELSE s

(* A user access to page u, with the stack pointer in page esp, faults     *)
(* because u is not mapped, or because u is mapped read-only.  The handler *)
(* kills the process or goes on to get a frame.  For the stack to grow, an *)
(* address below the stack pointer has to be written to.                   *)
PageFault(p, u, esp, write, below) ==
  LET on_stack == pd[p][esp] # NULL \/ esp \in StackPages
      s        == IF pd[p][esp] = NULL THEN page_supp_alloc(supp[p], esp) ELSE supp[p]
      grows    == u \in StackPages /\ (write \/ ~below)
  IN  /\ pc[p] = "user"
      /\ pd[p][u] = NULL \/ (u \in CodePages /\ write)
      /\ IF on_stack /\ (s[u] # NULL \/ grows)
         THEN /\ supp' = [supp EXCEPT ![p] = page_supp_alloc(s, u)]
              /\ fa' = [fa EXCEPT ![p] = u]
              /\ Goto(p, "obtain")
         ELSE /\ supp' = IF on_stack THEN [supp EXCEPT ![p] = s] ELSE supp
              /\ Goto(p, "exit")
              /\ UNCHANGED fa
      /\ UNCHANGED <<used, ft, ft_lock, pool, pd, runs, lost, stopped>>

(* A system call touches a page that is not mapped: one with an entry gets *)
(* a frame.  is_valid_ptr looks for the entry of the first page of a       *)
(* buffer only, so there may be none, and frame_obtain gets a null         *)
(* pointer.                                                                *)
KernelFault(p, u) ==
  /\ pc[p] = "user" /\ pd[p][u] = NULL
  /\ IF supp[p][u] # NULL
     THEN /\ fa' = [fa EXCEPT ![p] = u]
          /\ Goto(p, "obtain")
          /\ UNCHANGED <<supp, used, ft, ft_lock, pool, pd, runs, lost, stopped>>
     ELSE Stop

(* Only setup_stack gets a frame for the top page: it is mapped before the *)
(* process runs, and stays mapped.                                         *)
InSetup(p) == fa[p] = Top
SetIdx(p, i) == supp' = [supp EXCEPT ![p][fa[p]].idx = i]

(* Mutant: slots are counted from one. *)
ObtainSlotNext(p) ==
  /\ pc[p] = "obtain" /\ ft_lock = NULL
  /\ used # Slots
  /\ LET i == Cardinality(used) + 1
     IN  used' = used \union {i} /\ SetIdx(p, i)
  /\ ft_lock' = p
  /\ Goto(p, "fetch")
  /\ UNCHANGED <<ft, pool, pd, fa, runs, lost, stopped>>

(* frame_obtain takes the lock and a slot: the first that is free. *)
ObtainSlot(p) ==
  /\ pc[p] = "obtain" /\ ft_lock = NULL
  /\ used # Slots
  /\ LET i == CHOOSE i \in Slots \ used : \A j \in Slots \ used : i <= j
     IN  used' = used \union {i} /\ SetIdx(p, i)
  /\ ft_lock' = p
  /\ Goto(p, "fetch")
  /\ UNCHANGED <<ft, pool, pd, fa, runs, lost, stopped>>

(* frame_evict takes a slot at random.  A page of a file is written back   *)
(* if it is dirty, and nothing else is changed.                            *)
ObtainEvict(p) ==
  /\ pc[p] = "obtain" /\ ft_lock = NULL
  /\ used = Slots
  /\ \E i \in Slots :
       LET o == ft[i].user
       IN  /\ o \notin {NULL, FREED}
           /\ supp[o[1]][o[2]] # NULL /\ supp[o[1]][o[2]].location = "FILESYSTEM"
           /\ SetIdx(p, i)
  /\ ft_lock' = p
  /\ Goto(p, "fetch")
  /\ UNCHANGED <<used, ft, pool, pd, fa, runs, lost, stopped>>

(* The random number is not an index, the slot's user is no entry any      *)
(* more, or it is an entry without a swap slot: swap_write goes past the   *)
(* end of the device and panics.                                           *)
EvictFails(p) ==
  /\ pc[p] = "obtain" /\ ft_lock = NULL
  /\ used = Slots
  /\ Stop

(* A failed frame_obtain gives the slot up.  page_fault kills the process; *)
(* setup_stack deletes the entry, which stays in the table and in the      *)
(* list of the process, and the load fails.                                *)
Failed(p) ==
  /\ used' = used \ {supp[p][fa[p]].idx}
  /\ supp' = [supp EXCEPT ![p][fa[p]].idx = BITMAP_ERROR,
                          ![p][fa[p]].live = ~InSetup(p)]
  /\ ft_lock' = NULL
  /\ Goto(p, "exit")

(* Mutant: the page that was in the slot is used again. *)
FetchReuse(p) ==
  /\ pc[p] = "fetch"
  /\ IF ft[supp[p][fa[p]].idx].p_addr \in KPages THEN UNCHANGED <<pool, ft>>
     ELSE \E k \in pool :
       /\ pool' = pool \ {k}
       /\ ft' = [ft EXCEPT ![supp[p][fa[p]].idx].p_addr = k]
  /\ Goto(p, "install")
  /\ UNCHANGED <<supp, used, ft_lock, pd, fa, runs, lost, stopped>>

(* frame_fetch gets a page for the slot and fills it. *)
Fetch(p) ==
  /\ pc[p] = "fetch"
  /\ \E k \in pool :
       /\ pool' = pool \ {k}
       /\ ft' = [ft EXCEPT ![supp[p][fa[p]].idx].p_addr = k]
  /\ Goto(p, "install")
  /\ UNCHANGED <<supp, used, ft_lock, pd, fa, runs, lost, stopped>>

FetchFails(p) ==
  /\ pc[p] = "fetch"
  /\ pool = {}
  /\ Failed(p)
  /\ UNCHANGED <<ft, pool, pd, fa, runs, lost, stopped>>

(* The file is shorter than it was: the thread exits on the spot, with the *)
(* lock.                                                                   *)
ShortRead(p) ==
  /\ pc[p] = "fetch" /\ supp[p][fa[p]].location = "FILESYSTEM"
  /\ \E k \in pool : pool' = pool \ {k} /\ lost' = lost \union {k}
  /\ Goto(p, "exit")
  /\ UNCHANGED <<supp, used, ft, ft_lock, pd, fa, runs, stopped>>

(* frame_install_page maps the page, and the slot gets its user. *)
Install(p) ==
  LET i == supp[p][fa[p]].idx
  IN  /\ pc[p] = "install"
      /\ pd[p][fa[p]] = NULL
      /\ pd' = [pd EXCEPT ![p][fa[p]] = ft[i].p_addr]
      /\ ft' = [ft EXCEPT ![i].user = Owner(p, fa[p])]
      /\ ft_lock' = NULL
      /\ fa' = [fa EXCEPT ![p] = NULL]
      /\ Goto(p, "user")
      /\ UNCHANGED <<supp, used, pool, runs, lost, stopped>>

(* Mutant: the page is not given back. *)
InstallFailsKeep(p) ==
  /\ pc[p] = "install"
  /\ Failed(p)
  /\ UNCHANGED <<ft, pool, pd, fa, runs, lost, stopped>>

(* The page is mapped already (it was read-only), or there is no memory    *)
(* for a page table.                                                       *)
InstallFails(p) ==
  /\ pc[p] = "install"
  /\ pool' = pool \union {ft[supp[p][fa[p]].idx].p_addr}
  /\ Failed(p)
  /\ UNCHANGED <<ft, pd, fa, runs, lost, stopped>>
-----------------------------------------------------------------------------
(* The process calls exit. *)
Exit(p) ==
  /\ pc[p] = "user"
  /\ Goto(p, "exit")
  /\ UNCHANGED <<supp, used, ft, ft_lock, pool, pd, fa, runs, lost, stopped>>


(* process_exit releases all locks, and page_supp_destroy frees the        *)
(* entries.  None of the locations they can have makes page_supp_delete    *)
(* call frame_delete, so the slots stay used.                              *)
DestroyTable(p) ==
  /\ pc[p] = "exit"
  /\ \A u \in UPages : supp[p][u] # NULL => supp[p][u].live
  /\ supp' = [supp EXCEPT ![p] = [u \in UPages |-> NULL]]
  /\ ft' = [i \in Slots |-> IF ft[i].user \in {Owner(p, u) : u \in UPages}
                            THEN [ft[i] EXCEPT !.user = FREED] ELSE ft[i]]
  /\ ft_lock' = IF ft_lock = p THEN NULL ELSE ft_lock
  /\ fa' = [fa EXCEPT ![p] = NULL]
  /\ Goto(p, "destroy")
  /\ UNCHANGED <<used, pool, pd, runs, lost, stopped>>

(* An entry that setup_stack deleted is in the list: it is read and freed  *)
(* once more.                                                              *)
DestroyFreed(p) ==
  /\ pc[p] = "exit"
  /\ \E u \in UPages : supp[p][u] # NULL /\ ~supp[p][u].live
  /\ Stop

(* pagedir_destroy frees the pages that are mapped. *)
pagedir_destroy(p) ==
  /\ pc[p] = "destroy"
  /\ pool' = pool \union {pd[p][u] : u \in {v \in UPages : pd[p][v] # NULL}}
  /\ pd' = [pd EXCEPT ![p] = [u \in UPages |-> NULL]]
  /\ Goto(p, "none")
  /\ UNCHANGED <<supp, used, ft, ft_lock, fa, runs, lost, stopped>>
-----------------------------------------------------------------------------
Kernel(p) == \/ ObtainSlot(p) \/ ObtainEvict(p) \/ EvictFails(p)
             \/ Fetch(p) \/ FetchFails(p) \/ ShortRead(p)
             \/ Install(p) \/ InstallFails(p)
             \/ DestroyTable(p) \/ DestroyFreed(p) \/ pagedir_destroy(p)

User(p) == \/ Load(p) \/ Exit(p)
           \/ \E u \in UPages : KernelFault(p, u)
           \/ \E u, esp \in UPages, write, below \in BOOLEAN :
                PageFault(p, u, esp, write, below)

(* All processes have ended, or the kernel has. *)
Done == /\ stopped \/ \A p \in Procs : pc[p] = "none" /\ runs[p] = MaxRuns
        /\ UNCHANGED vars

Next == \/ ~stopped /\ \E p \in Procs : Kernel(p) \/ User(p)
        \/ Done

Spec == Init /\ [][Next]_vars

(* A thread in the kernel goes on, and one that waits for ft_lock gets it: *)
(* the waiters of a lock are woken in turn.                                *)
Fairness == \A p \in Procs : SF_vars(~stopped /\ Kernel(p))
-----------------------------------------------------------------------------
Mapped == {k \in KPages : \E p \in Procs, u \in UPages : pd[p][u] = k}
InTransit == {ft[supp[p][fa[p]].idx].p_addr :
                p \in {q \in Procs : pc[q] = "install"}}

(* No two virtual pages share a page of memory, and no mapped page is      *)
(* free, whatever is evicted, fails or exits at the same time.             *)
MappedApart ==
  /\ \A p, q \in Procs, u, v \in UPages :
       pd[p][u] # NULL /\ pd[p][u] = pd[q][v] => p = q /\ u = v
  /\ Mapped \cap pool = {}

(* Every page is free, mapped, or on its way into a page directory; only   *)
(* the thread that exits in the middle of frame_fetch leaves one behind.   *)
PagesAccounted == KPages = pool \union Mapped \union InTransit \union lost


(* B3: the entry of a page whose frame was evicted does not have the index *)
(* of the frame any more.                                                  *)
EvictedForgotten ==
  \A p, q \in Procs, u, v \in UPages :
    /\ supp[p][u] # NULL /\ supp[q][v] # NULL /\ Owner(p, u) # Owner(q, v)
    /\ supp[p][u].idx # BITMAP_ERROR
    => supp[p][u].idx # supp[q][v].idx
=============================================================================
