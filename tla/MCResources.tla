---------------------------- MODULE MCResources -----------------------------
(***************************************************************************)
(* What processes hold: pages (Palloc), frames (Frames), page tables       *)
(* (PageDir), relations with their children (Process) and open files       *)
(* (Descriptors).  Each part takes the calls of the others to be atomic    *)
(* and shares no variable with them, so each behaviour is one of a single  *)
(* part; the variables of the others are not used.                         *)
(*                                                                         *)
(* Three and Two are interchangeable things.  What they are depends on the *)
(* part, since only one part moves: threads of Palloc, pages of the user   *)
(* pool, processes, open files; processes, threads, frames.                *)
(***************************************************************************)
EXTENDS Palloc, TLC

CONSTANTS
  NULL, Three, Two,
  CodePages, StackPages, Top, WildPages, FreeSlots, FREED,  \* frames
  Base, Spare, MAIN, Names, Inodes             \* page tables, processes, files

VARIABLES
  part,
  supp, used_map, ft, ft_lock, user_pool, pd, place, fa, runs, lost, stopped,
  current, pd_pc, pagedir, dying, dirs, tables, free, frames, cr3, tlb,
  accessed, written,
  proc_pc, child, children, rel, last, exited, loaded, execRet, waitRet, fault,
  fs_lock, fd_pc, call, exec, fdt, file, name, deny_write_cnt, version, orphans

Paging == INSTANCE Frames WITH
  used <- used_map, pool <- user_pool, pc <- place, Procs <- Two,
  KPages <- Three, Slots <- 0..(FreeSlots - 1), MaxRuns <- 2
Tables == INSTANCE PageDir WITH
  Threads <- Two, KPages <- Three \union Spare, Frames <- Two,
  Pdes <- {0}, Ptes <- {0}, pc <- pd_pc, pd <- dirs, pt <- tables,
  pool <- frames, used <- accessed
Family == INSTANCE Process WITH
  Procs <- Three, Statuses <- {-1, 0}, pc <- proc_pc
Opened == INSTANCE Descriptors WITH
  Procs <- Two, Files <- Three, Top <- 4, pc <- fd_pc

ASSUME ResourcesAssumption == Family!ProcsAssumption /\ Opened!DescriptorsAssumption

palloc == vars
paging == <<supp, used_map, ft, ft_lock, user_pool, pd, place, fa, runs, lost,
            stopped>>
table  == <<current, pd_pc, pagedir, dying, dirs, tables, free, frames, cr3, tlb,
            accessed, written>>
family == <<proc_pc, child, children, rel, last, exited, loaded, execRet, waitRet,
            fault>>
opened == <<fs_lock, fd_pc, call, exec, fdt, file, name, deny_write_cnt, version,
            orphans>>
resources == <<part, palloc, paging, table, family, opened>>

Symmetry == Permutations(Three) \union Permutations(Two)

(* The variables of a part that does not move. *)
NoPaging ==
  /\ supp = NULL /\ used_map = NULL /\ ft = NULL /\ ft_lock = NULL
  /\ user_pool = NULL /\ pd = NULL /\ place = NULL /\ fa = NULL
  /\ runs = NULL /\ lost = NULL /\ stopped = NULL
NoTable ==
  /\ current = NULL /\ pd_pc = NULL /\ pagedir = NULL /\ dying = NULL
  /\ dirs = NULL /\ tables = NULL /\ free = NULL /\ frames = NULL
  /\ cr3 = NULL /\ tlb = NULL /\ accessed = NULL /\ written = NULL
NoFamily ==
  /\ proc_pc = NULL /\ child = NULL /\ children = NULL /\ rel = NULL
  /\ last = NULL /\ exited = NULL /\ loaded = NULL /\ execRet = NULL
  /\ waitRet = NULL /\ fault = NULL
NoOpened ==
  /\ fs_lock = NULL /\ fd_pc = NULL /\ call = NULL /\ exec = NULL
  /\ fdt = NULL /\ file = NULL /\ name = NULL
  /\ deny_write_cnt = NULL /\ version = NULL /\ orphans = NULL

ResourcesInit ==
  /\ part \in {"palloc", "paging", "table", "family", "opened"}
  /\ Init
  /\ IF part = "paging" THEN Paging!Init ELSE NoPaging
  /\ IF part = "table"  THEN Tables!Init ELSE NoTable
  /\ IF part = "family" THEN Family!Init ELSE NoFamily
  /\ IF part = "opened" THEN Opened!Init ELSE NoOpened

ResourcesNext ==
  /\ UNCHANGED part
  /\ \/ part = "palloc" /\ Next        /\ UNCHANGED <<paging, table, family, opened>>
     \/ part = "paging" /\ Paging!Next /\ UNCHANGED <<palloc, table, family, opened>>
     \/ part = "table"  /\ Tables!Next /\ UNCHANGED <<palloc, paging, family, opened>>
     \/ part = "family" /\ Family!Next /\ UNCHANGED <<palloc, paging, table, opened>>
     \/ part = "opened" /\ Opened!Next /\ UNCHANGED <<palloc, paging, table, family>>

ResourcesSpec == ResourcesInit /\ [][ResourcesNext]_resources
-----------------------------------------------------------------------------
(* install_page, frame_obtain, process_exit: no two virtual pages share a  *)
(* page of memory, and every page is free, mapped or on its way.           *)
FramesExact ==
  part = "paging" => Paging!TypeOK /\ Paging!MappedApart /\ Paging!PagesAccounted

(* frame_evict: the entry of an evicted page forgets its index. *)
EvictedForgotten == part = "paging" => Paging!EvictedForgotten

(* pagedir.c: the TLB never translates with an entry that is no longer     *)
(* there, and the accessed and dirty bits tell the truth.                  *)
TablesObeyed ==
  part = "table" => Tables!TypeOK /\ Tables!TlbInSync /\ Tables!BitsTruthful


(* syscall.c and file.c: an open file has one owner, so that it is neither *)
(* closed twice nor forgotten, and the inodes count who denies writes.     *)
OpenFilesExact ==
  part = "opened" => Opened!TypeOK /\ Opened!FilesOwned /\ Opened!DenyExact

(* file_deny_write in load: nobody writes to an executable that runs. *)
RunningUnwritten == [][part = "opened" => Opened!NoRunningWritten]_opened
=============================================================================
