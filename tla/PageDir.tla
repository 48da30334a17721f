------------------------------ MODULE PageDir -------------------------------
(***************************************************************************)
(* Page directories (userprog/pagedir.c) and the CPU that caches their     *)
(* translations.  Threads load a process, run it, map and unmap its pages, *)
(* are switched, and exit (load, install_page, frame_evict,                *)
(* process_activate and process_exit call the functions of pagedir.c).     *)
(*                                                                         *)
(* A user page is a pair of indices: into a directory and into one of its  *)
(* page tables.  The TLB holds translations of the directory in CR3 with   *)
(* their writable and dirty bits; what is in the TLB, the CPU uses without *)
(* a look at the page table.                                               *)
(***************************************************************************)
EXTENDS Integers, Functions

CONSTANTS
  Threads,
  KPages,        \* pages for directories and page tables
  Frames,        \* pages for user programs
  Pdes, Ptes,    \* indices into a directory and into a page table
  Base,          \* init_page_dir, which maps no user page
  NULL

VARIABLES
  current,       \* the running thread
  pc,            \* thread -> where it is in load, user code or process_exit
  pagedir,       \* thread -> its page directory
  dying,         \* thread -> pd in process_exit
  pd,            \* page -> its contents as a page directory
  pt,            \* page -> its contents as a page table
  free, pool,    \* pages and frames that are free
  cr3, tlb,
  used, written  \* history: accessed, modified since the bit was cleared

vars == <<current, pc, pagedir, dying, pd, pt, free, pool, cr3, tlb, used, written>>
tables == <<pd, pt, free, pool>>
threads == <<current, pc, pagedir, dying>>

UPages == Pdes \X Ptes
Absent == [p |-> FALSE, w |-> FALSE, a |-> FALSE, d |-> FALSE, page |-> NULL]
Entry  == [p: BOOLEAN, w: BOOLEAN, a: BOOLEAN, d: BOOLEAN,
           page: Frames \union {NULL}]
NoTlb  == <<>>      \* the function with an empty domain

(* The page table entry for u in directory d. *)
HasTable(d, u) == d # Base /\ pd[d][u[1]] # NULL
Pte(d, u) == IF HasTable(d, u) THEN pt[pd[d][u[1]]][u[2]] ELSE Absent
SetPte(d, u, e) == pt' = [pt EXCEPT ![pd[d][u[1]]][u[2]] = e]

Init ==
  /\ current \in Threads
  /\ pc = [t \in Threads |-> "start"]
  /\ pagedir = [t \in Threads |-> NULL] /\ dying = pagedir
  /\ pd = [k \in KPages |-> [i \in Pdes |-> NULL]]
  /\ pt = [k \in KPages |-> [j \in Ptes |-> Absent]]
  /\ free = KPages /\ pool = Frames
  /\ cr3 = Base /\ tlb = NoTlb
  /\ used = {} /\ written = {}

(* Writing CR3 empties the TLB. *)
pagedir_activate(d) ==
  /\ cr3' = IF d = NULL THEN Base ELSE d
  /\ tlb' = NoTlb

(* Mutant: the TLB is left alone. *)
invalidate_pagedir_never(d) == UNCHANGED <<cr3, tlb>>

invalidate_pagedir(d) ==
  IF cr3 = d THEN pagedir_activate(d) ELSE UNCHANGED <<cr3, tlb>>
-----------------------------------------------------------------------------
(* load: a directory for the new process. *)
Load ==
  /\ pc[current] = "start"
  /\ IF free = {}
       THEN /\ pc' = [pc EXCEPT ![current] = "exit"]
            /\ UNCHANGED <<pagedir, pd, free, cr3, tlb>>
       ELSE \E k \in free :
              /\ free' = free \ {k}
              /\ pd' = [pd EXCEPT ![k] = [i \in Pdes |-> NULL]]
              /\ pagedir' = [pagedir EXCEPT ![current] = k]
              /\ pagedir_activate(k)
              /\ pc' = [pc EXCEPT ![current] = "user"]
  /\ UNCHANGED <<current, dying, pt, pool, used, written>>

(* install_page: pagedir_set_page, unless u is mapped.  lookup_page        *)
(* allocates a page table if there is none.                                *)
SetPage(u, w) ==
  LET d == pagedir[current] IN
  /\ pc[current] = "user" /\ pool # {} /\ ~Pte(d, u).p
  /\ \E f \in pool :
       LET e == [p |-> TRUE, w |-> w, a |-> FALSE, d |-> FALSE, page |-> f] IN
       \/ /\ HasTable(d, u)
          /\ SetPte(d, u, e)
          /\ pool' = pool \ {f}
          /\ UNCHANGED <<pd, free>>
       \/ /\ ~HasTable(d, u)
          /\ \E k \in free :
               /\ free' = free \ {k}
               /\ pd' = [pd EXCEPT ![d][u[1]] = k]
               /\ pt' = [pt EXCEPT ![k] = [[j \in Ptes |-> Absent] EXCEPT ![u[2]] = e]]
          /\ pool' = pool \ {f}
       \/ /\ ~HasTable(d, u) /\ free = {}       \* the frame is given back
          /\ UNCHANGED tables
  /\ used' = used \ {<<d, u>>} /\ written' = written \ {<<d, u>>}
  /\ UNCHANGED <<threads, cr3, tlb>>

(* frame_evict: the running thread takes the frame of a page of any        *)
(* process.                                                                *)
ClearPage(t, u) ==
  LET e == Pte(pagedir[t], u) IN
  /\ pc[current] = "user" /\ pc[t] = "user" /\ e.p
  /\ SetPte(pagedir[t], u, [e EXCEPT !.p = FALSE])
  /\ invalidate_pagedir(pagedir[t])
  /\ pool' = pool \union {e.page}
  /\ UNCHANGED <<threads, pd, free, used, written>>

SetDirty(t, u, dirty) ==
  LET d == pagedir[t]
      e == Pte(d, u)
  IN
  /\ pc[current] = "user" /\ pc[t] = "user" /\ HasTable(d, u)
  /\ SetPte(d, u, [e EXCEPT !.d = dirty])
  /\ IF dirty THEN UNCHANGED <<cr3, tlb, written>>
              ELSE invalidate_pagedir(d) /\ written' = written \ {<<d, u>>}
  /\ UNCHANGED <<threads, pd, free, pool, used>>

SetAccessed(t, u, accessed) ==
  LET d == pagedir[t]
      e == Pte(d, u)
  IN
  /\ pc[current] = "user" /\ pc[t] = "user" /\ HasTable(d, u)
  /\ SetPte(d, u, [e EXCEPT !.a = accessed])
  /\ IF accessed THEN UNCHANGED <<cr3, tlb, used>>
                 ELSE invalidate_pagedir(d) /\ used' = used \ {<<d, u>>}
  /\ UNCHANGED <<threads, pd, free, pool, written>>
-----------------------------------------------------------------------------
(* The CPU translates an access of the running process to u.  It walks the *)
(* tables when u is not in the TLB, and on the first write through an      *)
(* entry that is not dirty there.                                          *)
Access(u, write) ==
  LET hit == u \in DOMAIN tlb
      e   == Pte(cr3, u)
      now == [e EXCEPT !.a = TRUE, !.d = @ \/ write]
  IN
  /\ pc[current] = "user"
  /\ IF hit /\ (write => tlb[u].d) THEN UNCHANGED <<tlb, pt>>
     ELSE IF hit
     THEN /\ tlb[u].w
          /\ tlb' = [tlb EXCEPT ![u].d = TRUE]
          /\ IF HasTable(cr3, u) THEN SetPte(cr3, u, now) ELSE UNCHANGED pt
     ELSE /\ e.p /\ (write => e.w)
          /\ tlb' = [v \in DOMAIN tlb \union {u} |-> IF v = u THEN now ELSE tlb[v]]
          /\ SetPte(cr3, u, now)
  /\ used' = used \union {<<cr3, u>>}
  /\ written' = IF write THEN written \union {<<cr3, u>>} ELSE written
  /\ UNCHANGED <<threads, pd, free, pool, cr3>>

(* A switch of threads at any time: process_activate. *)
Switch(t) ==
  /\ t # current
  /\ current' = t
  /\ pagedir_activate(pagedir[t])
  /\ UNCHANGED <<pc, pagedir, dying, tables, used, written>>

(* process_exit: "Correct ordering here is crucial."  A switch of threads  *)
(* can come between any two of its three steps.                            *)
ExitForget ==
  /\ pc[current] = "user"
  /\ dying' = [dying EXCEPT ![current] = pagedir[current]]
  /\ pagedir' = [pagedir EXCEPT ![current] = NULL]
  /\ pc' = [pc EXCEPT ![current] = "activate"]
  /\ UNCHANGED <<current, tables, cr3, tlb, used, written>>

(* Mutant: the directory stays active. *)
ExitActivateNothing ==
  /\ pc[current] = "activate"
  /\ pc' = [pc EXCEPT ![current] = "destroy"]
  /\ UNCHANGED <<current, pagedir, dying, tables, cr3, tlb, used, written>>

ExitActivate ==
  /\ pc[current] = "activate"
  /\ pagedir_activate(NULL)
  /\ pc' = [pc EXCEPT ![current] = "destroy"]
  /\ UNCHANGED <<current, pagedir, dying, tables, used, written>>

(* pagedir_destroy frees the frames of present pages, the page tables and  *)
(* the directory.  What is left in them does not matter: load and          *)
(* lookup_page initialise the pages they take.                             *)
ExitDestroy ==
  LET d == dying[current] IN
  /\ pc[current] = "destroy"
  /\ pool' = pool \union {Pte(d, u).page : u \in {v \in UPages : Pte(d, v).p}}
  /\ free' = free \union {d} \union (Range(pd[d]) \ {NULL})
  /\ dying' = [dying EXCEPT ![current] = NULL]
  /\ pc' = [pc EXCEPT ![current] = "exit"]
  /\ used' = {x \in used : x[1] # d} /\ written' = {x \in written : x[1] # d}
  /\ pd' = [pd EXCEPT ![d] = [i \in Pdes |-> NULL]]
  /\ pt' = [k \in KPages |-> IF k \in Range(pd[d]) THEN [j \in Ptes |-> Absent] ELSE pt[k]]
  /\ UNCHANGED <<current, pagedir, cr3, tlb>>

(* Another process starts in the place of one that has gone. *)
Restart ==
  /\ pc[current] = "exit"
  /\ pc' = [pc EXCEPT ![current] = "start"]
  /\ UNCHANGED <<current, pagedir, dying, tables, cr3, tlb, used, written>>

Next ==
  \/ Load \/ ExitForget \/ ExitActivate \/ ExitDestroy \/ Restart
  \/ \E u \in UPages, b \in BOOLEAN : SetPage(u, b) \/ Access(u, b)
  \/ \E t \in Threads, u \in UPages :
       \/ ClearPage(t, u)
       \/ \E b \in BOOLEAN : SetDirty(t, u, b) \/ SetAccessed(t, u, b)
  \/ \E t \in Threads : Switch(t)

Spec == Init /\ [][Next]_vars
-----------------------------------------------------------------------------
(* The types of the directories, the tables and the TLB. *)
TypeOK ==
  /\ current \in Threads
  /\ pc \in [Threads -> {"start", "user", "activate", "destroy", "exit"}]
  /\ pagedir \in [Threads -> KPages \union {NULL}]
  /\ dying \in [Threads -> KPages \union {NULL}]
  /\ pd \in [KPages -> [Pdes -> KPages \union {NULL}]]
  /\ pt \in [KPages -> [Ptes -> Entry]]
  /\ free \subseteq KPages /\ pool \subseteq Frames
  /\ cr3 \in KPages \union {Base}
  /\ DOMAIN tlb \subseteq UPages /\ Range(tlb) \subseteq Entry

(* invalidate_pagedir: "Some page table changes can cause the TLB to       *)
(* become out-of-sync with the page table."  What the CPU uses is never    *)
(* out of sync: it is a present page of the active directory, and that is  *)
(* neither freed nor leads to a frame that has been given back.            *)
TlbInSync ==
  /\ cr3 \notin free
  /\ \A u \in DOMAIN tlb : LET e == Pte(cr3, u) IN
       /\ e.p /\ e.page = tlb[u].page /\ e.w = tlb[u].w
       /\ e.page \notin pool

(* pagedir_is_dirty and pagedir_is_accessed tell the truth: a page that    *)
(* has been modified, or accessed, since its entry was installed or the    *)
(* bit was last cleared has the bit, although the CPU sets it only when it *)
(* walks the tables.                                                       *)
BitsTruthful ==
  \A t \in Threads, u \in UPages :
    pagedir[t] # NULL =>
      /\ <<pagedir[t], u>> \in written => Pte(pagedir[t], u).d
      /\ <<pagedir[t], u>> \in used    => Pte(pagedir[t], u).a
=============================================================================
