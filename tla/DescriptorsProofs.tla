------------------------- MODULE DescriptorsProofs --------------------------
(***************************************************************************)
(* Open files have one owner, inodes count those that deny writes, and a   *)
(* running executable is not written: for all processes, names, inodes and *)
(* open files.                                                             *)
(***************************************************************************)
EXTENDS Descriptors, FiniteSetTheorems, WellFoundedInduction, TLAPS

Holding(p) == call[p].op \in {"insert", "unplaced"}

(* Open file f belongs to p, as its executable, by a call in progress, or  *)
(* by descriptor d.                                                        *)
Kinds == {"exec", "call", "fd"}
Has(p, k, d, f) ==
  \/ k = "exec" /\ d = 0 /\ exec[p] = f
  \/ k = "call" /\ d = 0 /\ Holding(p) /\ call[p].file = f
  \/ k = "fd" /\ d \in DOMAIN fdt[p] /\ fdt[p][d] = f

Types ==
  /\ TypeOK
  /\ call = [p \in Procs |-> call[p]] /\ fdt = [p \in Procs |-> fdt[p]]
  /\ deny_write_cnt \in [Inodes -> Int]

(* What a call knows of its arguments, by where the process is. *)
Calls == \A p \in Procs :
  /\ pc[p] \in {"none", "user"} => call[p].op = "none"
  /\ pc[p] = "insert" => call[p].op = "insert"
  /\ call[p].op \in {"load", "open", "create", "remove"} => call[p].name \in Names
  /\ call[p].op \in FdOps => call[p].fd \in DOMAIN fdt[p]
  /\ pc[p] = "none" \/ call[p].op \in {"load", "exit_fds"} => exec[p] = NULL

Lost == orphans \subseteq DOMAIN file
Owned == \A p \in Procs, k \in Kinds, d \in Nat, f \in Files :
  Has(p, k, d, f) => f \in DOMAIN file \ orphans
Apart == \A p, q \in Procs, k, l \in Kinds, d, e \in Nat, f \in Files :
  Has(p, k, d, f) /\ Has(q, l, e, f) => p = q /\ k = l /\ d = e
Kept == \A f \in DOMAIN file \ orphans :
  \E p \in Procs, k \in Kinds, d \in Nat : Has(p, k, d, f)
Held == \A p \in Procs :
  /\ Holding(p) => call[p].file \in Files
  /\ \A d \in DOMAIN fdt[p] : fdt[p][d] \in Files
Ownership == Lost /\ Owned /\ Apart /\ Kept /\ Held

(* load denies writes before the process runs. *)
Denied == \A p \in Procs :
  exec[p] # NULL /\ call[p].op # "exit" => file[exec[p]].deny_write

DInv == Types /\ Calls /\ Ownership /\ Denied /\ DenyExact
-----------------------------------------------------------------------------
(* fdt_insert: there is a lowest free descriptor, and Min finds it. *)
LEMMA LowestFree ==
  ASSUME NEW S \in SUBSET Nat, S # {}
  PROVE  Min(S) \in S
<1> DEFINE R == {ss \in Nat \X Nat : ss[1] < ss[2]}
<1>1. IsWellFoundedOn(R, Nat)
  BY NatLessThanWellFounded DEF OpToRel
<1> HIDE DEF R
<1>2. PICK x \in S : \A y \in S : ~(<<y, x>> \in R)
  BY <1>1, WFMin
<1>3. \A y \in S : x <= y
  <2> TAKE y \in S
  <2>1. <<y, x>> \in Nat \X Nat /\ ~(<<y, x>> \in R)
    BY <1>2
  <2>2. ~(y < x)
    BY <2>1 DEF R
  <2> QED BY <2>2
<1> QED BY <1>3 DEF Min
-----------------------------------------------------------------------------
(* A step that leaves the owners as they are. *)
LEMMA SameOwners ==
  ASSUME Ownership, Held', UNCHANGED <<file, orphans>>, DOMAIN file \subseteq Files,
         \A p \in Procs, k \in Kinds, d \in Nat, f \in Files :
           Has(p, k, d, f)' <=> Has(p, k, d, f)
  PROVE  Ownership'
BY DEF Ownership, Lost, Owned, Apart, Kept

(* file_open by load or syscall_open: a file that was closed gets an owner. *)
LEMMA Gained ==
  ASSUME Ownership, Held', UNCHANGED orphans, DOMAIN file \subseteq Files,
         NEW p \in Procs, NEW k \in Kinds, NEW d \in Nat,
         NEW f \in Files, f \notin DOMAIN file,
         DOMAIN file' = DOMAIN file \union {f},
         \A q \in Procs, l \in Kinds, e \in Nat, g \in Files :
           Has(q, l, e, g)' <=> Has(q, l, e, g) \/ (q = p /\ l = k /\ e = d /\ g = f)
  PROVE  Ownership'
<1>1. Lost' /\ Owned'
  BY DEF Ownership, Lost, Owned
<1>2. Apart'
  <2>1. Apart /\ Owned
    BY DEF Ownership
  <2> QED BY <2>1 DEF Owned, Apart
<1>3. Kept'
  <2> SUFFICES ASSUME NEW g \in DOMAIN file' \ orphans'
               PROVE  \E q \in Procs, l \in Kinds, e \in Nat : Has(q, l, e, g)'
    BY DEF Kept
  <2>1. CASE g = f
    BY <2>1
  <2>2. CASE g \in DOMAIN file \ orphans
    <3>1. PICK q \in Procs, l \in Kinds, e \in Nat : Has(q, l, e, g)
      BY <2>2 DEF Ownership, Kept
    <3>2. Has(q, l, e, g)'
      BY <2>2, <3>1
    <3> QED BY <3>2
  <2> QED BY <2>1, <2>2
<1> QED BY <1>1, <1>2, <1>3 DEF Ownership

(* load: the new owner is a process, by its executable. *)
LEMMA ExecGained ==
  ASSUME Ownership, Held', UNCHANGED orphans, DOMAIN file \subseteq Files,
         NEW p \in Procs, NEW f \in Files, f \notin DOMAIN file,
         DOMAIN file' = DOMAIN file \union {f},
         \A q \in Procs, l \in Kinds, e \in Nat, g \in Files :
           Has(q, l, e, g)' <=> Has(q, l, e, g) \/ (q = p /\ l = "exec" /\ e = 0 /\ g = f)
  PROVE  Ownership'
<1>1. "exec" \in Kinds /\ 0 \in Nat
  BY DEF Kinds
<1> QED BY <1>1, Gained

(* file_close: the owner of a file forgets it. *)
LEMMA Closed ==
  ASSUME Ownership, Held', UNCHANGED orphans, NEW closed,
         closed \intersect orphans = {},
         DOMAIN file' = DOMAIN file \ closed, DOMAIN file \subseteq Files,
         \A q \in Procs, l \in Kinds, e \in Nat, g \in Files :
           Has(q, l, e, g)' <=> Has(q, l, e, g) /\ g \notin closed
  PROVE  Ownership'
<1>1. Lost' /\ Owned'
  BY DEF Ownership, Lost, Owned
<1>2. Apart'
  <2>1. Apart
    BY DEF Ownership
  <2> QED BY <2>1 DEF Apart
<1>3. Kept'
  BY DEF Ownership, Kept
<1> QED BY <1>1, <1>2, <1>3 DEF Ownership

(* fdt_insert: the file of the call becomes that of a descriptor. *)
LEMMA Moved ==
  ASSUME Ownership, Held', UNCHANGED <<file, orphans>>, DOMAIN file \subseteq Files,
         NEW p \in Procs, NEW d \in Nat, NEW f \in Files, Has(p, "call", 0, f),
         \A q \in Procs, l \in Kinds, e \in Nat, g \in Files :
           Has(q, l, e, g)' <=> \/ Has(q, l, e, g) /\ ~(q = p /\ l = "call")
                                \/ q = p /\ l = "fd" /\ e = d /\ g = f
  PROVE  Ownership'
<1>1. 0 \in Nat /\ "call" \in Kinds /\ "fd" \in Kinds
  BY DEF Kinds
<1>2. \A q \in Procs, l \in Kinds, e \in Nat :
        Has(q, l, e, f)' <=> q = p /\ l = "fd" /\ e = d
  BY <1>1 DEF Ownership, Apart
<1>3. \A q \in Procs, l \in Kinds, e \in Nat, g \in Files :
        g # f /\ Has(q, l, e, g) => Has(q, l, e, g)'
  <2>1. \A e \in Nat, g \in Files : Has(p, "call", e, g) => g = f
    BY DEF Has
  <2> TAKE q \in Procs, l \in Kinds, e \in Nat, g \in Files
  <2> HAVE g # f /\ Has(q, l, e, g)
  <2>2. ~(q = p /\ l = "call")
    BY <2>1
  <2> QED BY <2>2
<1>4. Lost' /\ Owned'
  BY <1>1 DEF Ownership, Lost, Owned
<1>5. Apart'
  BY <1>2 DEF Ownership, Apart
<1>6. Kept'
  BY <1>1, <1>2, <1>3 DEF Ownership, Kept
<1> QED BY <1>4, <1>5, <1>6 DEF Ownership

(* syscall_open when malloc fails: the file of the call is lost. *)
LEMMA Orphaned ==
  ASSUME Ownership, Held', UNCHANGED file, DOMAIN file \subseteq Files,
         NEW p \in Procs, NEW f \in Files, Has(p, "call", 0, f),
         orphans' = orphans \union {f},
         \A q \in Procs, l \in Kinds, e \in Nat, g \in Files :
           Has(q, l, e, g)' <=> Has(q, l, e, g) /\ g # f
  PROVE  Ownership'
<1>1. 0 \in Nat /\ "call" \in Kinds
  BY DEF Kinds
<1>2. Lost' /\ Owned' /\ Apart'
  BY <1>1 DEF Ownership, Lost, Owned, Apart
<1>3. Kept'
  BY DEF Ownership, Kept
<1> QED BY <1>2, <1>3 DEF Ownership
-----------------------------------------------------------------------------
Deniers(i) == {f \in OpensOf(i) : file[f].deny_write}

(* There are finitely many open files. *)
LEMMA DeniersFinite ==
  ASSUME DescriptorsAssumption, Types, NEW i
  PROVE  IsFiniteSet(Deniers(i)) /\ Cardinality(Deniers(i)) \in Nat
<1>1. Deniers(i) \in SUBSET Files
  BY DEF Deniers, OpensOf, Types, TypeOK
<1>2. IsFiniteSet(Deniers(i))
  BY <1>1, FS_Subset DEF DescriptorsAssumption
<1> QED BY <1>2, FS_CardinalityType

(* file_open, and file_deny_write if b: the count goes up with the file. *)
LEMMA OpenStep ==
  ASSUME DescriptorsAssumption, Types, DenyExact,
         NEW f \in Files, f \notin DOMAIN file, NEW i \in Inodes, NEW b \in BOOLEAN,
         file' = With(file, f, [inode |-> i, deny_write |-> b]),
         deny_write_cnt' = IF b THEN [deny_write_cnt EXCEPT ![i] = @ + 1]
                                ELSE deny_write_cnt
  PROVE  /\ DenyExact' /\ deny_write_cnt' \in [Inodes -> Int]
         /\ DOMAIN file' = DOMAIN file \union {f}
         /\ \A g \in DOMAIN file' : file'[g] \in [inode: Inodes, deny_write: BOOLEAN]
         /\ \A g \in DOMAIN file : file'[g] = file[g]
         /\ file'[f].deny_write = b
<1>1. /\ DOMAIN file' = DOMAIN file \union {f}
      /\ file'[f] = [inode |-> i, deny_write |-> b]
      /\ \A g \in DOMAIN file : file'[g] = file[g]
  BY DEF With
<1>2. \A g \in DOMAIN file' : file'[g] \in [inode: Inodes, deny_write: BOOLEAN]
  BY <1>1 DEF Types, TypeOK
<1>3. deny_write_cnt' \in [Inodes -> Int]
  BY DEF Types
<1>4. ASSUME NEW j \in Inodes
      PROVE  deny_write_cnt'[j] = Cardinality(Deniers(j)')
  <2>1. f \notin Deniers(j) /\ deny_write_cnt[j] = Cardinality(Deniers(j))
    BY DEF Deniers, OpensOf, DenyExact
  <2>2. CASE b /\ j = i
    <3>1. Deniers(j)' = Deniers(j) \union {f}
      <4>1. f \in Deniers(j)'
        BY <1>1, <2>2 DEF Deniers, OpensOf
      <4>2. \A g : g # f => (g \in Deniers(j)' <=> g \in Deniers(j))
        BY <1>1 DEF Deniers, OpensOf
      <4> QED BY <4>1, <4>2
    <3>2. Cardinality(Deniers(j) \union {f}) = Cardinality(Deniers(j)) + 1
      BY <2>1, DeniersFinite, FS_AddElement
    <3>3. deny_write_cnt'[j] = deny_write_cnt[j] + 1
      BY <2>2 DEF Types
    <3> QED BY <2>1, <3>1, <3>2, <3>3
  <2>3. CASE ~(b /\ j = i)
    <3>1. Deniers(j)' = Deniers(j)
      BY <1>1, <2>3 DEF Deniers, OpensOf
    <3>2. deny_write_cnt'[j] = deny_write_cnt[j]
      BY <2>3 DEF Types
    <3> QED BY <2>1, <3>1, <3>2
  <2> QED BY <2>2, <2>3
<1>5. DenyExact'
  BY <1>4 DEF DenyExact, Deniers
<1> QED BY <1>1, <1>2, <1>3, <1>5

(* file_close: the count goes down by the closed files that denied writes. *)
LEMMA CloseStep ==
  ASSUME DescriptorsAssumption, Types, DenyExact, NEW closed, file_close(closed)
  PROVE  /\ DenyExact' /\ deny_write_cnt' \in [Inodes -> Int]
         /\ DOMAIN file' = DOMAIN file \ closed
         /\ \A g \in DOMAIN file' : file'[g] \in [inode: Inodes, deny_write: BOOLEAN]
         /\ \A g \in DOMAIN file' : file'[g] = file[g]
<1>1. DOMAIN file' = DOMAIN file \ closed /\ \A g \in DOMAIN file' : file'[g] = file[g]
  BY DEF file_close, Restrict
<1>2. \A g \in DOMAIN file' : file'[g] \in [inode: Inodes, deny_write: BOOLEAN]
  BY <1>1 DEF Types, TypeOK
<1>3. ASSUME NEW j \in Inodes
      PROVE  /\ deny_write_cnt'[j] = Cardinality(Deniers(j)')
             /\ deny_write_cnt'[j] \in Int
  <2>1. {f \in closed \intersect OpensOf(j) : file[f].deny_write}
          = Deniers(j) \intersect closed
    BY DEF Deniers
  <2>2. deny_write_cnt'[j] = deny_write_cnt[j] - Cardinality(Deniers(j) \intersect closed)
    BY <2>1 DEF file_close, file_allow_write
  <2>3. Deniers(j)' = Deniers(j) \ closed
    BY <1>1 DEF Deniers, OpensOf
  <2>4. /\ Cardinality(Deniers(j) \ closed) =
            Cardinality(Deniers(j)) - Cardinality(Deniers(j) \intersect closed)
        /\ IsFiniteSet(Deniers(j) \ closed)
    BY DeniersFinite, FS_Difference, ZenonT(30)
  <2>5. Cardinality(Deniers(j) \ closed) \in Nat
    BY <2>4, FS_CardinalityType
  <2>6. deny_write_cnt[j] = Cardinality(Deniers(j))
    BY DEF DenyExact, Deniers
  <2> QED BY <2>2, <2>3, <2>4, <2>5, <2>6
<1>4. deny_write_cnt' \in [Inodes -> Int]
  BY <1>3 DEF file_close, file_allow_write
<1>5. DenyExact'
  BY <1>3 DEF DenyExact, Deniers
<1> QED BY <1>1, <1>2, <1>4, <1>5
-----------------------------------------------------------------------------
(* The initial state satisfies the invariant. *)
LEMMA InitDInv ==
  ASSUME DescriptorsAssumption, Init
  PROVE  DInv
<1> USE DEF Init, DescriptorsAssumption
<1>1. DOMAIN file = {} /\ \A p \in Procs : DOMAIN fdt[p] = {}
  OBVIOUS
<1>2. Types
  BY <1>1 DEF Types, TypeOK
<1>3. Calls
  BY DEF Calls, Idle, FdOps
<1>4. Ownership
  BY <1>1 DEF Ownership, Lost, Owned, Apart, Kept, Held, Has, Holding, Idle
<1>5. Denied
  BY DEF Denied
<1>6. DenyExact
  <2>1. \A i \in Inodes : {f \in OpensOf(i) : file[f].deny_write} = {}
    BY <1>1 DEF OpensOf
  <2> QED BY <2>1, FS_EmptySet, ZenonT(30) DEF DenyExact
<1> QED BY <1>2, <1>3, <1>4, <1>5, <1>6 DEF DInv

(* A step that opens and closes nothing. *)
LEMMA QuietStep ==
  ASSUME DescriptorsAssumption, DInv, NEW p \in Procs, NEW c,
         ~Holding(p), c.op \notin {"insert", "unplaced"},
         exec[p] # NULL /\ call[p].op = "exit" => c.op = "exit",
         call' = [call EXCEPT ![p] = c],
         UNCHANGED <<exec, fdt, file, deny_write_cnt, orphans>>,
         Types', Calls'
  PROVE  DInv'
<1>1. call'[p] = c /\ \A q \in Procs : q # p => call'[q] = call[q]
  BY DEF DInv, Types
<1>2. \A q \in Procs : Holding(q)' <=> Holding(q)
  BY <1>1 DEF Holding
<1>3. \A q \in Procs : Holding(q) => call'[q] = call[q]
  BY <1>1
<1>4. Held'
  BY <1>2, <1>3 DEF DInv, Ownership, Held
<1>5. \A q \in Procs, l \in Kinds, e \in Nat, g \in Files :
        Has(q, l, e, g)' <=> Has(q, l, e, g)
  BY <1>2, <1>3 DEF Has
<1>6. Ownership'
  BY <1>4, <1>5, SameOwners DEF DInv, Types, TypeOK
<1>7. Denied'
  BY <1>1 DEF DInv, Denied
<1>8. DenyExact'
  BY DEF DInv, DenyExact, OpensOf
<1> QED BY <1>6, <1>7, <1>8 DEF DInv

(* A call that is done without opening or closing a file. *)
LEMMA DoneStep ==
  ASSUME DescriptorsAssumption, DInv, NEW p \in Procs, pc[p] = "body", Done(p),
         call[p].op \notin {"insert", "unplaced", "load", "exit", "exit_fds"},
         UNCHANGED <<exec, fdt, file, deny_write_cnt, orphans>>,
         name' \in [Names -> Inodes \union {NULL}], version' \in [Inodes -> {0, 1}]
  PROVE  DInv'
<1>1. /\ fs_lock' = NULL /\ pc' = [pc EXCEPT ![p] = "user"]
      /\ call' = [call EXCEPT ![p] = Idle] /\ Idle.op = "none"
  BY DEF Done, Unlock, Idle
<1>2. Types'
  BY <1>1 DEF DInv, Types, TypeOK
<1>3. Calls'
  BY <1>1 DEF DInv, Types, TypeOK, Calls, FdOps
<1>4. exec[p] # NULL /\ call[p].op = "exit" => Idle.op = "exit"
  OBVIOUS
<1> QED BY <1>1, <1>2, <1>3, <1>4, QuietStep DEF Holding

(* A process that starts, makes a call, or exits; it waits for fs_lock. *)
LEMMA BeginStep ==
  ASSUME DescriptorsAssumption, DInv, NEW p \in Procs,
         \/ \E n \in Names : Start(p, n)
         \/ Syscall(p) \/ Exit(p)
  PROVE  DInv'
<1>1. /\ pc[p] \in {"none", "user"} /\ call[p].op = "none"
      /\ pc' = [pc EXCEPT ![p] = "lock"]
      /\ UNCHANGED <<fs_lock, exec, fdt, file, name, deny_write_cnt, version, orphans>>
  BY DEF Start, Syscall, Exit, fs, DInv, Calls
<1> DEFINE Legal(c) ==
       /\ c.op \notin {"insert", "unplaced"}
       /\ c.op \in {"load", "open", "create", "remove"} => c.name \in Names
       /\ c.op \in FdOps => c.fd \in DOMAIN fdt[p]
       /\ c.op \in {"load", "exit_fds"} => exec[p] = NULL
<1>2. PICK c : call' = [call EXCEPT ![p] = c] /\ Legal(c)
  <2>1. ASSUME NEW n \in Names, Start(p, n)
        PROVE  /\ call' = [call EXCEPT ![p] = [op |-> "load", name |-> n]]
               /\ Legal([op |-> "load", name |-> n])
    BY <2>1 DEF Start, DInv, Calls, FdOps
  <2>2. ASSUME Exit(p), NEW x, x = IF exec[p] # NULL THEN "exit" ELSE "exit_fds"
        PROVE  call' = [call EXCEPT ![p] = [op |-> x]] /\ Legal([op |-> x])
    BY <2>2 DEF Exit, FdOps
  <2>3. ASSUME NEW op \in FdOps, NEW fd \in DOMAIN fdt[p]
        PROVE  Legal([op |-> op, fd |-> fd])
    BY DEF FdOps
  <2>4. ASSUME NEW op \in {"create", "remove", "open"}, NEW n \in Names
        PROVE  Legal([op |-> op, name |-> n])
    BY DEF FdOps
  <2>5. ASSUME NEW op \in {"stdin", "stdout"}
        PROVE  Legal([op |-> op])
    BY DEF FdOps
  <2> HIDE DEF Legal
  <2>6. CASE Syscall(p)
    BY <2>3, <2>4, <2>5, <2>6 DEF Syscall
  <2> QED BY <2>1, <2>2, <2>6
<1>3. Types'
  BY <1>1, <1>2, ZenonT(30) DEF DInv, Types, TypeOK
<1>4. Calls'
  BY <1>1, <1>2 DEF DInv, Types, TypeOK, Calls
<1> QED BY <1>1, <1>2, <1>3, <1>4, QuietStep DEF Holding

(* lock_acquire of fs_lock. *)
LEMMA AcquireStep ==
  ASSUME DescriptorsAssumption, DInv, NEW p \in Procs, Acquire(p)
  PROVE  DInv'
<1>1. /\ pc[p] = "lock" /\ fs_lock' = p /\ pc' = [pc EXCEPT ![p] = "body"]
      /\ UNCHANGED <<call, exec, fdt, file, name, deny_write_cnt, version, orphans>>
  BY DEF Acquire, fs
<1>2. Types' /\ Calls'
  BY <1>1 DEF DInv, Types, TypeOK, Calls
<1>3. Held' /\ \A q \in Procs, l \in Kinds, e \in Nat, g \in Files :
                Has(q, l, e, g)' <=> Has(q, l, e, g)
  BY <1>1 DEF DInv, Ownership, Held, Has, Holding
<1>4. Ownership'
  BY <1>1, <1>3, SameOwners DEF DInv, Types, TypeOK
<1>5. Denied' /\ DenyExact'
  BY <1>1 DEF DInv, Denied, DenyExact, OpensOf
<1> QED BY <1>2, <1>4, <1>5 DEF DInv

(* create, remove, write, and the calls that leave files as they are. *)
LEMMA QuietCalls ==
  ASSUME DescriptorsAssumption, DInv, NEW p \in Procs,
         Create(p) \/ Remove(p) \/ WriteFile(p) \/ QuietCall(p) \/ ReadKey(p)
  PROVE  DInv'
<1> USE DEF Doing, fs
<1>1. CASE Create(p)
  <2>1. name' \in [Names -> Inodes \union {NULL}]
    BY <1>1 DEF Create, filesys_create, DInv, Types, TypeOK, Unused
  <2> QED BY <1>1, <2>1, DoneStep DEF Create, DInv, Types, TypeOK
<1>2. CASE Remove(p)
  <2>1. name' \in [Names -> Inodes \union {NULL}]
    BY <1>2 DEF Remove, filesys_remove, DInv, Types, TypeOK
  <2> QED BY <1>2, <2>1, DoneStep DEF Remove, DInv, Types, TypeOK
<1>3. CASE WriteFile(p)
  <2>1. version' \in [Inodes -> {0, 1}]
    <3>1. version \in [Inodes -> {0, 1}] /\ \A x \in {0, 1} : 1 - x \in {0, 1}
      BY DEF DInv, Types, TypeOK
    <3>2. PICK i : version' \in {version, [version EXCEPT ![i] = 1 - version[i]]}
      BY <1>3 DEF WriteFile, inode_write_at
    <3> QED BY <3>1, <3>2
  <2> QED BY <1>3, <2>1, DoneStep DEF WriteFile, DInv, Types, TypeOK
<1>4. CASE QuietCall(p)
  BY <1>4, DoneStep DEF QuietCall, Quiet, DInv, Types, TypeOK
<1>5. CASE ReadKey(p)
  BY <1>5, DoneStep DEF ReadKey, DInv, Types, TypeOK
<1> QED BY <1>1, <1>2, <1>3, <1>4, <1>5
-----------------------------------------------------------------------------
(* An executable is an open file. *)
LEMMA ExecOpen ==
  ASSUME Types, Owned, NEW p \in Procs, exec[p] # NULL
  PROVE  exec[p] \in DOMAIN file \ orphans
<1>1. exec[p] \in Files /\ Has(p, "exec", 0, exec[p])
  BY DEF Types, TypeOK, Has
<1> QED BY <1>1 DEF Owned, Kinds

(* load opens the executable, and denies writes if b. *)
LEMMA LoadOpens ==
  ASSUME DescriptorsAssumption, DInv, NEW p \in Procs, Doing(p, "load"),
         NEW f \in Files, f \notin DOMAIN file, NEW i \in Inodes, NEW b \in BOOLEAN,
         file' = With(file, f, [inode |-> i, deny_write |-> b]),
         deny_write_cnt' = IF b THEN [deny_write_cnt EXCEPT ![i] = @ + 1]
                                ELSE deny_write_cnt,
         NEW c, NEW w, call' = [call EXCEPT ![p] = c], pc' = [pc EXCEPT ![p] = w],
         \/ w = "lock" /\ c.op = "exit"
         \/ w = "user" /\ c.op = "none" /\ b,
         exec' = [exec EXCEPT ![p] = f], fs_lock' = NULL,
         UNCHANGED <<fdt, name, version, orphans>>
  PROVE  DInv'
<1>1. /\ DenyExact' /\ deny_write_cnt' \in [Inodes -> Int]
      /\ DOMAIN file' = DOMAIN file \union {f}
      /\ \A g \in DOMAIN file' : file'[g] \in [inode: Inodes, deny_write: BOOLEAN]
      /\ \A g \in DOMAIN file : file'[g] = file[g]
      /\ file'[f].deny_write = b
  BY OpenStep DEF DInv
<1>2. /\ exec[p] = NULL /\ exec'[p] = f /\ call'[p] = c /\ call[p].op = "load"
      /\ \A q \in Procs : q # p => exec'[q] = exec[q] /\ call'[q] = call[q]
  BY DEF DInv, Types, TypeOK, Calls, Doing
<1>3. Types'
  BY <1>1, ZenonT(30) DEF DInv, Types, TypeOK
<1>4. Calls'
  BY <1>2 DEF DInv, Types, TypeOK, Calls, FdOps
<1>5. Held'
  BY <1>2 DEF DInv, Ownership, Held, Holding
<1>6. \A q \in Procs, l \in Kinds, e \in Nat, g \in Files :
        Has(q, l, e, g)' <=> Has(q, l, e, g) \/ (q = p /\ l = "exec" /\ e = 0 /\ g = f)
  BY <1>2 DEF Has, Holding, DescriptorsAssumption
<1>7. Ownership'
  <2>1. Ownership /\ DOMAIN file \subseteq Files /\ "exec" \in Kinds /\ 0 \in Nat
    BY DEF DInv, Types, TypeOK, Kinds
  <2>2. UNCHANGED orphans /\ DOMAIN file' = DOMAIN file \union {f}
    BY <1>1
  <2> QED BY <1>5, <1>6, <2>1, <2>2, ExecGained
<1>8. Denied'
  <2> SUFFICES ASSUME NEW q \in Procs, exec'[q] # NULL, call'[q].op # "exit"
               PROVE  file'[exec'[q]].deny_write
    BY DEF Denied
  <2>1. CASE q = p
    BY <2>1, <1>1, <1>2
  <2>2. CASE q # p
    <3>1. exec[q] \in DOMAIN file
      BY <2>2, <1>2, ExecOpen DEF DInv, Ownership
    <3> QED BY <2>2, <3>1, <1>1, <1>2 DEF DInv, Denied
  <2> QED BY <2>1, <2>2
<1> QED BY <1>1, <1>3, <1>4, <1>7, <1>8 DEF DInv

(* load, in all its outcomes. *)
LEMMA LoadStep ==
  ASSUME DescriptorsAssumption, DInv, NEW p \in Procs, Load(p)
  PROVE  DInv'
<1> DEFINE i == name[call[p].name]
           Fails(e) == /\ exec' = [exec EXCEPT ![p] = e]
                       /\ fs_lock' = NULL /\ pc' = [pc EXCEPT ![p] = "lock"]
                       /\ call' = [call EXCEPT ![p] =
                            [op |-> IF e # NULL THEN "exit" ELSE "exit_fds"]]
<1>1. /\ Doing(p, "load") /\ pc[p] = "body" /\ call[p].op = "load" /\ exec[p] = NULL
      /\ i \in Inodes \union {NULL} /\ UNCHANGED <<fdt, name, version, orphans>>
  BY DEF Load, Doing, DInv, Calls, Types, TypeOK
<1>2. CASE Fails(NULL) /\ UNCHANGED <<file, deny_write_cnt>>
  <2>1. exec' = exec /\ call' = [call EXCEPT ![p] = [op |-> "exit_fds"]]
    BY <1>1, <1>2 DEF DInv, Types, TypeOK
  <2>2. Types'
    BY <1>1, <1>2, <2>1, ZenonT(30) DEF DInv, Types, TypeOK
  <2>3. Calls'
    BY <1>1, <1>2, <2>1 DEF DInv, Types, TypeOK, Calls, FdOps
  <2> DEFINE c == [op |-> "exit_fds"]
  <2>4. c.op = "exit_fds" /\ call' = [call EXCEPT ![p] = c]
    BY <2>1
  <2> HIDE DEF c
  <2> QED BY <1>1, <1>2, <2>1, <2>2, <2>3, <2>4, QuietStep DEF Holding
<1>3. ASSUME NEW f \in Files \ DOMAIN file, i # NULL, Fails(f), NEW b \in BOOLEAN,
             file' = With(file, f, [inode |-> i, deny_write |-> b]),
             deny_write_cnt' = IF b THEN [deny_write_cnt EXCEPT ![i] = @ + 1]
                                    ELSE deny_write_cnt
      PROVE  DInv'
  <2> DEFINE c == [op |-> "exit"]
  <2>1. f # NULL /\ c.op = "exit" /\ call' = [call EXCEPT ![p] = c]
    BY <1>3, ZenonT(30) DEF DescriptorsAssumption
  <2> HIDE DEF c
  <2> QED BY <1>1, <1>3, <2>1, LoadOpens
<1>4. ASSUME NEW f \in Files \ DOMAIN file, i # NULL, OpenDenied(f, i),
             exec' = [exec EXCEPT ![p] = f], Done(p)
      PROVE  DInv'
  <2>1. /\ call' = [call EXCEPT ![p] = Idle] /\ Idle.op = "none"
        /\ pc' = [pc EXCEPT ![p] = "user"] /\ fs_lock' = NULL
        /\ file' = With(file, f, [inode |-> i, deny_write |-> TRUE])
        /\ deny_write_cnt' = [deny_write_cnt EXCEPT ![i] = @ + 1]
    BY <1>4 DEF Done, Unlock, Idle, OpenDenied
  <2> QED BY <1>1, <1>4, <2>1, LoadOpens
<1>5. \/ Fails(NULL) /\ UNCHANGED <<file, deny_write_cnt>>
      \/ \E f \in Files \ DOMAIN file : i # NULL /\
           \/ Fails(f) /\ file_open(f, i) /\ UNCHANGED deny_write_cnt
           \/ OpenDenied(f, i) /\ Fails(f)
           \/ OpenDenied(f, i) /\ exec' = [exec EXCEPT ![p] = f] /\ Done(p)
  BY DEF Load, Unlock
<1> HIDE DEF Fails, i
<1>6. ASSUME NEW f \in Files \ DOMAIN file, i # NULL, Fails(f), file_open(f, i),
             UNCHANGED deny_write_cnt
      PROVE  DInv'
  BY <1>3, <1>6 DEF file_open
<1>7. ASSUME NEW f \in Files \ DOMAIN file, i # NULL, Fails(f), OpenDenied(f, i)
      PROVE  DInv'
  BY <1>3, <1>7, ZenonT(30) DEF OpenDenied
<1> QED BY <1>2, <1>4, <1>5, <1>6, <1>7

(* syscall_open, under fs_lock. *)
LEMMA OpenFileStep ==
  ASSUME DescriptorsAssumption, DInv, NEW p \in Procs, OpenFile(p)
  PROVE  DInv'
<1>1. /\ pc[p] = "body" /\ call[p].op = "open"
      /\ UNCHANGED <<exec, fdt, name, deny_write_cnt, version, orphans>>
      /\ name[call[p].name] \in Inodes \union {NULL}
  BY DEF OpenFile, Doing, DInv, Calls, Types, TypeOK
<1>2. CASE Done(p) /\ UNCHANGED file
  BY <1>1, <1>2, DoneStep DEF DInv, Types, TypeOK
<1>3. ASSUME NEW f \in Files \ DOMAIN file, NEW i, i = name[call[p].name], i # NULL,
             file_open(f, i), Unlock(p, "insert"), NEW c,
             c = [op |-> "insert", file |-> f], call' = [call EXCEPT ![p] = c]
      PROVE  DInv'
  <2>1. /\ i \in Inodes /\ c.op = "insert" /\ c.file = f /\ FALSE \in BOOLEAN
        /\ file' = With(file, f, [inode |-> i, deny_write |-> FALSE])
        /\ fs_lock' = NULL /\ pc' = [pc EXCEPT ![p] = "insert"]
    BY <1>1, <1>3 DEF file_open, Unlock
  <2>2. /\ DenyExact' /\ deny_write_cnt' \in [Inodes -> Int]
        /\ DOMAIN file' = DOMAIN file \union {f}
        /\ \A g \in DOMAIN file' : file'[g] \in [inode: Inodes, deny_write: BOOLEAN]
        /\ \A g \in DOMAIN file : file'[g] = file[g]
    BY <1>1, <2>1, OpenStep DEF DInv
  <2>3. call'[p] = c /\ \A q \in Procs : q # p => call'[q] = call[q]
    BY <1>3 DEF DInv, Types
  <2>4. Types'
    BY <1>1, <1>3, <2>1, <2>2, ZenonT(30) DEF DInv, Types, TypeOK
  <2>5. Calls'
    BY <1>1, <2>1, <2>3 DEF DInv, Types, TypeOK, Calls, FdOps
  <2>6. Held'
    BY <1>1, <2>1, <2>3 DEF DInv, Ownership, Held, Holding
  <2>7. \A q \in Procs, l \in Kinds, e \in Nat, g \in Files :
          Has(q, l, e, g)' <=> Has(q, l, e, g) \/ (q = p /\ l = "call" /\ e = 0 /\ g = f)
    BY <1>1, <2>1, <2>3 DEF Has, Holding
  <2>8. Ownership'
    <3>1. Ownership /\ DOMAIN file \subseteq Files /\ "call" \in Kinds /\ 0 \in Nat
      BY DEF DInv, Types, TypeOK, Kinds
    <3> QED BY <1>1, <2>2, <2>6, <2>7, <3>1, Gained
  <2>9. Denied'
    <3> SUFFICES ASSUME NEW q \in Procs, exec[q] # NULL, call'[q].op # "exit"
                 PROVE  file'[exec[q]].deny_write
      BY <1>1 DEF Denied
    <3>1. exec[q] \in DOMAIN file
      BY ExecOpen DEF DInv, Ownership
    <3>2. call[q].op # "exit"
      BY <1>1, <2>3
    <3> QED BY <3>1, <3>2, <2>2 DEF DInv, Denied
  <2> QED BY <2>2, <2>4, <2>5, <2>8, <2>9 DEF DInv
<1> QED BY <1>2, <1>3 DEF OpenFile

(* syscall_open after the lock: malloc and fdt_insert. *)
LEMMA InsertStep ==
  ASSUME DescriptorsAssumption, DInv, NEW p \in Procs, Insert(p)
  PROVE  DInv'
<1> DEFINE f == call[p].file
<1>1. /\ pc[p] = "insert" /\ call[p].op = "insert" /\ Holding(p)
      /\ UNCHANGED <<fs_lock, exec, file, name, deny_write_cnt, version>>
      /\ f \in Files /\ Has(p, "call", 0, f) /\ DOMAIN file \subseteq Files /\ Ownership
  BY DEF Insert, fs, DInv, Calls, Holding, Has, Ownership, Held, Types, TypeOK
<1>2. DenyExact'
  BY <1>1 DEF DInv, DenyExact, OpensOf
<1>3. \A g \in Files : g # f => ~Has(p, "call", 0, g)
  BY DEF Has
<1>4. CASE /\ orphans' = orphans \union {f} /\ UNCHANGED fdt
           /\ pc' = [pc EXCEPT ![p] = "user"] /\ call' = [call EXCEPT ![p] = Idle]
  <2>1. /\ call'[p].op = "none" /\ \A q \in Procs : q # p => call'[q] = call[q]
    BY <1>4 DEF DInv, Types, Idle
  <2>2. Types' /\ Calls'
    BY <1>1, <1>4, <2>1 DEF DInv, Types, TypeOK, Calls, FdOps
  <2>3. Held'
    BY <1>1, <1>4, <2>1 DEF Ownership, Held, Holding
  <2>4. \A q \in Procs, l \in Kinds, e \in Nat, g \in Files :
          Has(q, l, e, g)' <=> Has(q, l, e, g) /\ ~(q = p /\ l = "call")
    BY <1>1, <1>4, <2>1 DEF Has, Holding
  <2>5. \A q \in Procs, l \in Kinds, e \in Nat, g \in Files :
          Has(q, l, e, g)' <=> Has(q, l, e, g) /\ g # f
    <3>1. \A q \in Procs, l \in Kinds, e \in Nat : Has(q, l, e, f) => q = p /\ l = "call"
      BY <1>1 DEF Ownership, Apart, Kinds
    <3>2. \A e \in Nat, g \in Files : Has(p, "call", e, g) => g = f
      BY DEF Has
    <3> QED BY <2>4, <3>1, <3>2
  <2>6. Ownership'
    BY <1>1, <1>4, <2>3, <2>5, Orphaned
  <2>7. Denied'
    BY <1>1, <2>1 DEF DInv, Denied
  <2> QED BY <1>2, <2>2, <2>6, <2>7 DEF DInv
<1>5. CASE /\ FreeFds(p) # {} /\ fdt' = [fdt EXCEPT ![p] = With(@, Min(FreeFds(p)), f)]
           /\ pc' = [pc EXCEPT ![p] = "user"] /\ call' = [call EXCEPT ![p] = Idle]
           /\ UNCHANGED orphans
  <2> DEFINE d == Min(FreeFds(p))
  <2>1. /\ call'[p].op = "none" /\ \A q \in Procs : q # p => call'[q] = call[q]
    BY <1>5 DEF DInv, Types, Idle
  <2>2. d \in 2..(Top - 1) /\ d \notin DOMAIN fdt[p] /\ d \in Nat
    <3>1. FreeFds(p) \in SUBSET Nat
      BY DEF FreeFds, DescriptorsAssumption
    <3> QED BY <1>5, <3>1, LowestFree DEF FreeFds
  <2> HIDE DEF d
  <2>3. /\ DOMAIN fdt'[p] = DOMAIN fdt[p] \union {d} /\ fdt'[p][d] = f
        /\ \A e \in DOMAIN fdt[p] : fdt'[p][e] = fdt[p][e]
        /\ \A q \in Procs : q # p => fdt'[q] = fdt[q]
    BY <1>5, <2>2 DEF With, d, DInv, Types
  <2>4. Types'
    BY <1>1, <1>5, <2>2, <2>3, ZenonT(30) DEF DInv, Types, TypeOK
  <2>5. Calls'
    BY <1>1, <1>5, <2>1, <2>3 DEF DInv, Types, TypeOK, Calls, FdOps
  <2>6. Held'
    BY <1>1, <2>1, <2>3 DEF Ownership, Held, Holding
  <2>7. \A q \in Procs, l \in Kinds, e \in Nat, g \in Files :
          Has(q, l, e, g)' <=> \/ Has(q, l, e, g) /\ ~(q = p /\ l = "call")
                               \/ q = p /\ l = "fd" /\ e = d /\ g = f
    BY <1>1, <2>1, <2>2, <2>3 DEF Has, Holding
  <2>8. Ownership'
    <3>1. UNCHANGED <<file, orphans>>
      BY <1>1, <1>5
    <3> HIDE DEF f
    <3> QED BY <1>1, <2>2, <2>6, <2>7, <3>1, Moved, Zenon
  <2>9. Denied'
    BY <1>1, <2>1 DEF DInv, Denied
  <2> QED BY <1>2, <2>4, <2>5, <2>8, <2>9 DEF DInv
<1>6. ASSUME pc' = [pc EXCEPT ![p] = "lock"], NEW c, c = [op |-> "unplaced", file |-> f],
             call' = [call EXCEPT ![p] = c], UNCHANGED <<fdt, orphans>>
      PROVE  DInv'
  <2>1. /\ call'[p].op = "unplaced" /\ call'[p].file = f
        /\ \A q \in Procs : q # p => call'[q] = call[q]
    BY <1>6 DEF DInv, Types
  <2>2. Types' /\ Calls'
    BY <1>1, <1>6, <2>1 DEF DInv, Types, TypeOK, Calls, FdOps
  <2>3. Held'
    BY <1>1, <1>6, <2>1 DEF Ownership, Held, Holding
  <2>4. \A q \in Procs, l \in Kinds, e \in Nat, g \in Files :
          Has(q, l, e, g)' <=> Has(q, l, e, g)
    BY <1>1, <1>6, <2>1 DEF Has, Holding
  <2>5. Ownership'
    BY <1>1, <1>6, <2>3, <2>4, SameOwners
  <2>6. Denied'
    BY <1>1, <2>1 DEF DInv, Denied
  <2> QED BY <1>2, <2>2, <2>5, <2>6 DEF DInv
<1> QED BY <1>4, <1>5, <1>6 DEF Insert
-----------------------------------------------------------------------------
(* file_close by process p, which afterwards no longer owns what it        *)
(* closed, and nobody else did.                                            *)
LEMMA ClosingStep ==
  ASSUME DescriptorsAssumption, DInv, NEW p \in Procs, NEW closed, file_close(closed),
         NEW c, NEW w \in {"user", "lock", "none"}, pc' = [pc EXCEPT ![p] = w],
         call' = [call EXCEPT ![p] = c],
         \/ c.op = "none" /\ w \in {"user", "none"}
         \/ c.op = "exit_fds" /\ w = "lock",
         w = "none" \/ c.op = "exit_fds" => exec'[p] = NULL,
         call[p].op # "exit" \/ exec'[p] = NULL,
         fs_lock' = NULL, UNCHANGED <<name, version, orphans>>,
         exec' \in [Procs -> Files \union {NULL}],
         \A q \in Procs : exec'[q] # NULL => exec'[q] = exec[q],
         \A q \in Procs : q # p => exec'[q] = exec[q] /\ fdt'[q] = fdt[q],
         fdt' = [q \in Procs |-> fdt'[q]],
         DOMAIN fdt'[p] \subseteq DOMAIN fdt[p],
         \A d \in DOMAIN fdt'[p] : fdt'[p][d] = fdt[p][d],
         \A q \in Procs, l \in Kinds, e \in Nat, g \in Files :
           Has(q, l, e, g)' <=> Has(q, l, e, g) /\ g \notin closed,
         closed \intersect orphans = {}
  PROVE  DInv'
<1>1. /\ DenyExact' /\ deny_write_cnt' \in [Inodes -> Int]
      /\ DOMAIN file' = DOMAIN file \ closed
      /\ \A g \in DOMAIN file' : file'[g] \in [inode: Inodes, deny_write: BOOLEAN]
      /\ \A g \in DOMAIN file' : file'[g] = file[g]
  BY CloseStep DEF DInv
<1>2. call'[p] = c /\ \A q \in Procs : q # p => call'[q] = call[q]
  BY DEF DInv, Types
<1>3. Types'
  <2>1. \A q \in Procs : DOMAIN fdt'[q] \subseteq 2..(Top - 1)
    BY DEF DInv, Types, TypeOK
  <2>2. DOMAIN file' \subseteq Files
    BY <1>1 DEF DInv, Types, TypeOK
  <2> QED BY <1>1, <2>1, <2>2, ZenonT(30) DEF DInv, Types, TypeOK
<1>4. Calls'
  BY <1>2 DEF DInv, Types, TypeOK, Calls, FdOps
<1>5. Held'
  BY <1>2 DEF DInv, Ownership, Held, Holding
<1>6. Ownership'
  <2>1. Ownership /\ DOMAIN file \subseteq Files
    BY DEF DInv, Types, TypeOK
  <2>2. UNCHANGED orphans /\ DOMAIN file' = DOMAIN file \ closed
    BY <1>1
  <2> QED BY <1>5, <2>1, <2>2, Closed
<1>7. Denied'
  <2> SUFFICES ASSUME NEW q \in Procs, exec'[q] # NULL, call'[q].op # "exit"
               PROVE  file'[exec'[q]].deny_write
    BY DEF Denied
  <2>1. exec'[q] = exec[q] /\ call[q].op # "exit"
    BY <1>2
  <2>2. exec[q] \in Files /\ Has(q, "exec", 0, exec[q])'
    BY <2>1 DEF Has, DInv, Types, TypeOK
  <2>3. exec[q] \in DOMAIN file'
    BY <2>2, <1>6 DEF Ownership, Owned, Kinds
  <2> QED BY <1>1, <2>1, <2>3 DEF DInv, Denied
<1> QED BY <1>1, <1>3, <1>4, <1>6, <1>7 DEF DInv

(* A file has at most one owner, and its owner keeps it from being lost. *)
LEMMA OnlyOwner ==
  ASSUME DInv, NEW p \in Procs, NEW k \in Kinds, NEW d \in Nat, NEW f \in Files,
         Has(p, k, d, f)
  PROVE  /\ f \notin orphans
         /\ \A q \in Procs, l \in Kinds, e \in Nat :
              Has(q, l, e, f) => q = p /\ l = k /\ e = d
BY DEF DInv, Ownership, Owned, Apart

(* syscall_open closes the file it found no descriptor for. *)
LEMMA CloseUnplacedStep ==
  ASSUME DescriptorsAssumption, DInv, NEW p \in Procs, CloseUnplaced(p)
  PROVE  DInv'
<1> DEFINE f == call[p].file
<1>1. /\ pc[p] = "body" /\ call[p].op = "unplaced" /\ file_close({f})
      /\ fs_lock' = NULL /\ pc' = [pc EXCEPT ![p] = "user"]
      /\ call' = [call EXCEPT ![p] = Idle] /\ Idle.op = "none"
      /\ UNCHANGED <<exec, fdt, name, version, orphans>>
  BY DEF CloseUnplaced, Doing, Done, Unlock, Idle
<1>2. f \in Files /\ Has(p, "call", 0, f) /\ "call" \in Kinds /\ 0 \in Nat
  BY <1>1 DEF DInv, Ownership, Held, Holding, Has, Kinds
<1>3. call'[p].op = "none" /\ \A q \in Procs : q # p => call'[q] = call[q]
  BY <1>1 DEF DInv, Types
<1>4. /\ f \notin orphans
      /\ \A q \in Procs, l \in Kinds, e \in Nat :
           Has(q, l, e, f) => q = p /\ l = "call" /\ e = 0
  BY <1>2, OnlyOwner
<1>5. \A q \in Procs, l \in Kinds, e \in Nat, g \in Files :
        Has(q, l, e, g)' <=> Has(q, l, e, g) /\ ~(q = p /\ l = "call")
  BY <1>1, <1>3 DEF Has, Holding
<1>6. \A e \in Nat, g \in Files : Has(p, "call", e, g) => g = f
  BY DEF Has
<1> HIDE DEF f
<1>7. \A q \in Procs, l \in Kinds, e \in Nat, g \in Files :
        Has(q, l, e, g)' <=> Has(q, l, e, g) /\ g \notin {f}
  BY <1>4, <1>5, <1>6
<1>8. /\ exec' \in [Procs -> Files \union {NULL}] /\ exec' = exec /\ fdt' = fdt
      /\ fdt' = [q \in Procs |-> fdt'[q]]
  BY <1>1 DEF DInv, Types, TypeOK
<1> QED BY <1>1, <1>4, <1>7, <1>8, ClosingStep, ZenonT(30)

(* syscall_close. *)
LEMMA CloseFdStep ==
  ASSUME DescriptorsAssumption, DInv, NEW p \in Procs, Close(p)
  PROVE  DInv'
<1> DEFINE d == call[p].fd
           f == fdt[p][d]
<1>1. /\ pc[p] = "body" /\ call[p].op = "close" /\ file_close({f})
      /\ fs_lock' = NULL /\ pc' = [pc EXCEPT ![p] = "user"]
      /\ call' = [call EXCEPT ![p] = Idle] /\ Idle.op = "none"
      /\ UNCHANGED <<exec, name, version, orphans>>
      /\ fdt' = [fdt EXCEPT ![p] = Restrict(@, DOMAIN @ \ {d})]
  BY DEF Close, Doing, Done, Unlock, Idle
<1>2. d \in DOMAIN fdt[p] /\ f \in Files /\ Has(p, "fd", d, f)
  BY <1>1 DEF DInv, Calls, FdOps, Ownership, Held, Has
<1>3. d \in Nat /\ "fd" \in Kinds
  BY <1>2 DEF DInv, Types, TypeOK, Kinds, DescriptorsAssumption
<1>4. /\ f \notin orphans
      /\ \A q \in Procs, l \in Kinds, e \in Nat :
           Has(q, l, e, f) => q = p /\ l = "fd" /\ e = d
  BY <1>2, <1>3, OnlyOwner
<1>5. /\ DOMAIN fdt'[p] = DOMAIN fdt[p] \ {d}
      /\ \A e \in DOMAIN fdt'[p] : fdt'[p][e] = fdt[p][e]
      /\ \A q \in Procs : q # p => fdt'[q] = fdt[q]
  BY <1>1 DEF Restrict, DInv, Types
<1>6. call'[p].op = "none" /\ \A q \in Procs : q # p => call'[q] = call[q]
  BY <1>1 DEF DInv, Types
<1>7. \A q \in Procs, l \in Kinds, e \in Nat, g \in Files :
        Has(q, l, e, g)' <=> Has(q, l, e, g) /\ ~(q = p /\ l = "fd" /\ e = d)
  <2> TAKE q \in Procs, l \in Kinds, e \in Nat, g \in Files
  <2> HIDE DEF d
  <2>1. CASE l = "exec"
    BY <2>1, <1>1 DEF Has
  <2>2. CASE l = "call"
    BY <2>2, <1>1, <1>6 DEF Has, Holding
  <2>3. CASE l = "fd"
    BY <2>3, <1>5 DEF Has
  <2> QED BY <2>1, <2>2, <2>3 DEF Kinds
<1>8. \A g \in Files : Has(p, "fd", d, g) => g = f
  BY DEF Has
<1>9. fdt' = [q \in Procs |-> fdt'[q]]
  BY <1>1 DEF DInv, Types
<1> HIDE DEF f, d
<1>10. \A q \in Procs, l \in Kinds, e \in Nat, g \in Files :
         Has(q, l, e, g)' <=> Has(q, l, e, g) /\ g \notin {f}
  BY <1>4, <1>7, <1>8
<1>11. exec' \in [Procs -> Files \union {NULL}] /\ exec' = exec
  BY <1>1 DEF DInv, Types, TypeOK
<1>12. /\ \A q \in Procs : exec'[q] # NULL => exec'[q] = exec[q]
       /\ \A q \in Procs : q # p => exec'[q] = exec[q] /\ fdt'[q] = fdt[q]
       /\ DOMAIN fdt'[p] \subseteq DOMAIN fdt[p]
       /\ \A e \in DOMAIN fdt'[p] : fdt'[p][e] = fdt[p][e]
       /\ {f} \intersect orphans = {} /\ UNCHANGED <<name, version, orphans>>
  BY <1>1, <1>4, <1>5, <1>11
<1> QED BY <1>1, <1>9, <1>10, <1>11, <1>12, ClosingStep

(* process_exit closes the executable. *)
LEMMA ExitExecStep ==
  ASSUME DescriptorsAssumption, DInv, NEW p \in Procs, ExitExec(p)
  PROVE  DInv'
<1> DEFINE f == exec[p]
           c == [op |-> "exit_fds"]
<1>1. /\ pc[p] = "body" /\ call[p].op = "exit" /\ file_close({f})
      /\ fs_lock' = NULL /\ pc' = [pc EXCEPT ![p] = "lock"]
      /\ call' = [call EXCEPT ![p] = c] /\ c.op = "exit_fds"
      /\ exec' = [exec EXCEPT ![p] = NULL]
      /\ UNCHANGED <<fdt, name, version, orphans>>
  BY DEF ExitExec, Doing, Unlock
<1> HIDE DEF c
<1>2. /\ exec' \in [Procs -> Files \union {NULL}] /\ exec'[p] = NULL
      /\ \A q \in Procs : q # p => exec'[q] = exec[q] /\ call'[q] = call[q]
      /\ fdt' = [q \in Procs |-> fdt'[q]] /\ call'[p].op = "exit_fds"
      /\ orphans \subseteq Files
  BY <1>1 DEF DInv, Types, TypeOK, Ownership, Lost
<1>3. ASSUME f # NULL
      PROVE  /\ f \notin orphans
             /\ \A q \in Procs, l \in Kinds, e \in Nat :
                  Has(q, l, e, f) => q = p /\ l = "exec" /\ e = 0
  <2>1. f \in Files /\ Has(p, "exec", 0, f) /\ "exec" \in Kinds /\ 0 \in Nat
    BY <1>3 DEF DInv, Types, TypeOK, Has, Kinds
  <2> QED BY <2>1, OnlyOwner
<1>4. \A q \in Procs, l \in Kinds, e \in Nat, g \in Files :
        Has(q, l, e, g)' <=> Has(q, l, e, g) /\ ~(q = p /\ l = "exec")
  <2> TAKE q \in Procs, l \in Kinds, e \in Nat, g \in Files
  <2>1. CASE l = "exec"
    BY <2>1, <1>2 DEF Has, DescriptorsAssumption
  <2>2. CASE l = "call"
    BY <2>2, <1>1, <1>2 DEF Has, Holding
  <2>3. CASE l = "fd"
    BY <2>3, <1>1 DEF Has
  <2> QED BY <2>1, <2>2, <2>3 DEF Kinds
<1>5. \A e \in Nat, g \in Files : Has(p, "exec", e, g) => g = f /\ g # NULL
  BY DEF Has, DescriptorsAssumption
<1>6. \A q \in Procs, l \in Kinds, e \in Nat, g \in Files :
        Has(q, l, e, g)' <=> Has(q, l, e, g) /\ g \notin {f}
  <2> HIDE DEF f
  <2>1. NULL \notin Files
    BY DEF DescriptorsAssumption
  <2> QED BY <1>3, <1>4, <1>5, <2>1
<1>7. {f} \intersect orphans = {}
  BY <1>2, <1>3 DEF DescriptorsAssumption
<1> HIDE DEF f
<1>8. /\ \A q \in Procs : exec'[q] # NULL => exec'[q] = exec[q]
      /\ \A q \in Procs : q # p => exec'[q] = exec[q] /\ fdt'[q] = fdt[q]
      /\ DOMAIN fdt'[p] \subseteq DOMAIN fdt[p]
      /\ \A e \in DOMAIN fdt'[p] : fdt'[p][e] = fdt[p][e]
      /\ UNCHANGED <<name, version, orphans>>
  BY <1>1, <1>2
<1> QED BY <1>1, <1>2, <1>6, <1>7, <1>8, ClosingStep

(* process_exit closes all descriptors. *)
LEMMA ExitFdsStep ==
  ASSUME DescriptorsAssumption, DInv, NEW p \in Procs, ExitFds(p)
  PROVE  DInv'
<1> DEFINE closed == Range(fdt[p])
<1>1. /\ pc[p] = "body" /\ call[p].op = "exit_fds" /\ file_close(closed)
      /\ fs_lock' = NULL /\ pc' = [pc EXCEPT ![p] = "none"]
      /\ call' = [call EXCEPT ![p] = Idle] /\ Idle.op = "none"
      /\ fdt' = [fdt EXCEPT ![p] = <<>>]
      /\ UNCHANGED <<exec, name, version, orphans>> /\ exec[p] = NULL
  BY DEF ExitFds, Doing, Unlock, Idle, DInv, Calls
<1>2. /\ exec' \in [Procs -> Files \union {NULL}] /\ exec' = exec
      /\ fdt' = [q \in Procs |-> fdt'[q]] /\ DOMAIN fdt'[p] = {}
      /\ \A q \in Procs : q # p => fdt'[q] = fdt[q] /\ call'[q] = call[q]
      /\ call'[p].op = "none"
  <2>1. /\ exec \in [Procs -> Files \union {NULL}]
        /\ fdt = [q \in Procs |-> fdt[q]] /\ call = [q \in Procs |-> call[q]]
    BY DEF DInv, Types, TypeOK
  <2>2. DOMAIN <<>> = {}
    OBVIOUS
  <2>3. fdt' = [q \in Procs |-> fdt'[q]] /\ fdt'[p] = <<>> /\ call'[p] = Idle
    BY <1>1, <2>1, ZenonT(30)
  <2>4. \A q \in Procs : q # p => fdt'[q] = fdt[q] /\ call'[q] = call[q]
    BY <1>1, <2>1
  <2> QED BY <1>1, <2>1, <2>2, <2>3, <2>4
<1>3. ASSUME NEW f \in closed
      PROVE  /\ f \notin orphans
             /\ \A q \in Procs, l \in Kinds, e \in Nat :
                  Has(q, l, e, f) => q = p /\ l = "fd"
  <2>1. PICK d \in DOMAIN fdt[p] : f = fdt[p][d]
    BY DEF Range
  <2>2. d \in Nat /\ f \in Files /\ Has(p, "fd", d, f) /\ "fd" \in Kinds
    BY <2>1 DEF DInv, Types, TypeOK, Ownership, Held, Has, Kinds, DescriptorsAssumption
  <2> QED BY <2>2, OnlyOwner
<1>4. \A q \in Procs, l \in Kinds, e \in Nat, g \in Files :
        Has(q, l, e, g)' <=> Has(q, l, e, g) /\ ~(q = p /\ l = "fd")
  <2> TAKE q \in Procs, l \in Kinds, e \in Nat, g \in Files
  <2>1. CASE l = "exec"
    BY <2>1, <1>2 DEF Has
  <2>2. CASE l = "call"
    BY <2>2, <1>1, <1>2 DEF Has, Holding
  <2>3. CASE l = "fd"
    BY <2>3, <1>2 DEF Has
  <2> QED BY <2>1, <2>2, <2>3 DEF Kinds
<1>5. \A e \in Nat, g \in Files : Has(p, "fd", e, g) => g \in closed
  BY DEF Has, Range
<1> HIDE DEF closed
<1>6. \A q \in Procs, l \in Kinds, e \in Nat, g \in Files :
        Has(q, l, e, g)' <=> Has(q, l, e, g) /\ g \notin closed
  BY <1>3, <1>4, <1>5
<1>7. closed \intersect orphans = {}
  BY <1>3
<1>8. /\ \A q \in Procs : exec'[q] # NULL => exec'[q] = exec[q]
      /\ \A q \in Procs : q # p => exec'[q] = exec[q] /\ fdt'[q] = fdt[q]
      /\ DOMAIN fdt'[p] \subseteq DOMAIN fdt[p]
      /\ \A e \in DOMAIN fdt'[p] : fdt'[p][e] = fdt[p][e]
      /\ exec'[p] = NULL /\ UNCHANGED <<name, version, orphans>>
  BY <1>1, <1>2
<1> QED BY <1>1, <1>2, <1>6, <1>7, <1>8, ClosingStep

(* Every step preserves the invariant. *)
LEMMA NextDInv ==
  ASSUME DescriptorsAssumption, DInv, [Next]_vars
  PROVE  DInv'
<1>1. ASSUME NEW p \in Procs, Body(p)
      PROVE  DInv'
  BY <1>1, LoadStep, QuietCalls, OpenFileStep, CloseUnplacedStep, CloseFdStep,
     ExitExecStep, ExitFdsStep DEF Body
<1>2. CASE UNCHANGED vars
  <2>1. Types' /\ Calls'
    BY <1>2 DEF vars, DInv, Types, TypeOK, Calls
  <2>2. \A p \in Procs, k \in Kinds, d \in Nat, f \in Files :
          Has(p, k, d, f)' <=> Has(p, k, d, f)
    BY <1>2 DEF vars, Has, Holding
  <2>3. Held' /\ UNCHANGED <<file, orphans>>
    BY <1>2 DEF vars, DInv, Ownership, Held, Holding
  <2>4. Ownership'
    BY <2>2, <2>3, SameOwners DEF DInv, Types, TypeOK
  <2>5. Denied' /\ DenyExact'
    BY <1>2 DEF vars, DInv, Denied, DenyExact, OpensOf
  <2> QED BY <2>1, <2>4, <2>5 DEF DInv
<1>3. CASE Next
  BY <1>1, <1>3, BeginStep, AcquireStep, QuietCalls, InsertStep DEF Next
<1> QED BY <1>2, <1>3
-----------------------------------------------------------------------------
(* What Owners collects: the pairs of a process and a way to have the file. *)
LEMMA OwnersAre ==
  ASSUME DescriptorsAssumption, DInv, NEW f \in Files, NEW o
  PROVE  o \in Owners(f) <=>
           \E p \in Procs, k \in Kinds, d \in Nat :
              Has(p, k, d, f) /\ o = IF k = "fd" THEN <<p, d>> ELSE <<p, k>>
<1>1. \A p \in Procs : DOMAIN fdt[p] \subseteq Nat
  BY DEF DInv, Types, TypeOK, DescriptorsAssumption
<1>2. ASSUME o \in Owners(f)
      PROVE  \E p \in Procs, k \in Kinds, d \in Nat :
               Has(p, k, d, f) /\ o = IF k = "fd" THEN <<p, d>> ELSE <<p, k>>
  <2>1. CASE \E p \in Procs : exec[p] = f /\ o = <<p, "exec">>
    <3>1. PICK p \in Procs : exec[p] = f /\ o = <<p, "exec">>
      BY <2>1
    <3>2. Has(p, "exec", 0, f) /\ "exec" \in Kinds /\ 0 \in Nat /\ "exec" # "fd"
      BY <3>1 DEF Has, Kinds
    <3> QED BY <3>1, <3>2
  <2>2. CASE \E p \in Procs : Holding(p) /\ call[p].file = f /\ o = <<p, "call">>
    <3>1. PICK p \in Procs : Holding(p) /\ call[p].file = f /\ o = <<p, "call">>
      BY <2>2
    <3>2. Has(p, "call", 0, f) /\ "call" \in Kinds /\ 0 \in Nat /\ "call" # "fd"
      BY <3>1 DEF Has, Kinds
    <3> QED BY <3>1, <3>2
  <2>3. CASE \E p \in Procs : \E d \in DOMAIN fdt[p] : fdt[p][d] = f /\ o = <<p, d>>
    <3>1. PICK p \in Procs : \E d \in DOMAIN fdt[p] : fdt[p][d] = f /\ o = <<p, d>>
      BY <2>3
    <3>2. PICK d \in DOMAIN fdt[p] : fdt[p][d] = f /\ o = <<p, d>>
      BY <3>1
    <3>3. Has(p, "fd", d, f) /\ "fd" \in Kinds /\ d \in Nat
      BY <1>1, <3>2 DEF Has, Kinds
    <3> QED BY <3>2, <3>3
  <2> QED BY <1>2, <2>1, <2>2, <2>3, Zenon DEF Owners, Holding
<1>3. ASSUME NEW p \in Procs, NEW k \in Kinds, NEW d \in Nat, Has(p, k, d, f),
             o = IF k = "fd" THEN <<p, d>> ELSE <<p, k>>
      PROVE  o \in Owners(f)
  <2>1. CASE k = "exec"
    BY <1>3, <2>1 DEF Has, Owners
  <2>2. CASE k = "call"
    BY <1>3, <2>2 DEF Has, Holding, Owners
  <2>3. CASE k = "fd"
    BY <1>3, <2>3 DEF Has, Owners
  <2> QED BY <2>1, <2>2, <2>3 DEF Kinds
<1> QED BY <1>2, <1>3

(* The invariant says that an open file has one owner, unless open lost it. *)
LEMMA OneOwner ==
  ASSUME DescriptorsAssumption, DInv
  PROVE  FilesOwned
<1> SUFFICES ASSUME NEW f \in Files
             PROVE  Cardinality(Owners(f)) = IF Open(f) /\ f \notin orphans THEN 1 ELSE 0
  BY DEF FilesOwned
<1>1. CASE f \in DOMAIN file \ orphans
  <2>1. PICK p \in Procs, k \in Kinds, d \in Nat : Has(p, k, d, f)
    BY <1>1 DEF DInv, Ownership, Kept
  <2> DEFINE o == IF k = "fd" THEN <<p, d>> ELSE <<p, k>>
  <2>2. \A q \in Procs, l \in Kinds, e \in Nat :
          Has(q, l, e, f) => q = p /\ l = k /\ e = d
    BY <2>1, OnlyOwner
  <2>3. o \in Owners(f)
    BY <2>1, OwnersAre
  <2>4. ASSUME NEW x \in Owners(f)
        PROVE  x = o
    BY <2>2, OwnersAre
  <2>5. Owners(f) = {o}
    BY <2>3, <2>4
  <2> QED BY <1>1, <2>5, FS_Singleton DEF Open
<1>2. CASE f \notin DOMAIN file \ orphans
  <2>1. \A q \in Procs, l \in Kinds, e \in Nat : ~Has(q, l, e, f)
    BY <1>2 DEF DInv, Ownership, Owned
  <2>2. ASSUME NEW x \in Owners(f)
        PROVE  FALSE
    BY <2>1, OwnersAre
  <2>3. Owners(f) = {}
    BY <2>2
  <2> QED BY <1>2, <2>3, FS_EmptySet DEF Open
<1> QED BY <1>1, <1>2

(* inode_write_at: an executable that denies writes keeps its inode's      *)
(* count above zero, and only syscall_write changes data.                  *)
LEMMA WritesDenied ==
  ASSUME DescriptorsAssumption, DInv, [Next]_vars
  PROVE  NoRunningWritten
<1> SUFFICES ASSUME NEW p \in Procs, exec[p] # NULL, call[p].op \notin {"load", "exit"}
             PROVE  LET i == file[exec[p]].inode IN version'[i] = version[i]
  BY DEF NoRunningWritten
<1> DEFINE f == exec[p]
           i == file[f].inode
           D == {g \in OpensOf(i) : file[g].deny_write}
<1>1. f \in Files /\ Has(p, "exec", 0, f) /\ "exec" \in Kinds /\ 0 \in Nat
  BY DEF DInv, Types, TypeOK, Has, Kinds
<1>2. f \in DOMAIN file /\ i \in Inodes /\ file[f].deny_write
  BY <1>1, ZenonT(30) DEF DInv, Types, TypeOK, Ownership, Owned, Denied
<1>3. f \in D /\ D \subseteq Files
  BY <1>2 DEF OpensOf, DInv, Types, TypeOK
<1>4. deny_write_cnt[i] = Cardinality(D)
  BY <1>2 DEF DInv, DenyExact
<1> HIDE DEF D
<1>5. IsFiniteSet(D) /\ D # {}
  BY <1>3, FS_Subset DEF DescriptorsAssumption
<1>6. Cardinality(D) \in Nat /\ Cardinality(D) # 0
  BY <1>5, FS_CardinalityType, FS_EmptySet
<1>7. deny_write_cnt[i] > 0
  BY <1>4, <1>6
<1> HIDE DEF i, f
<1>8. ASSUME NEW q \in Procs, WriteFile(q)
      PROVE  version'[i] = version[i]
  <2>1. version \in [Inodes -> {0, 1}]
    BY DEF DInv, Types, TypeOK
  <2> DEFINE j == file[fdt[q][call[q].fd]].inode
  <2>2. version' = IF deny_write_cnt[j] > 0 THEN version
                                            ELSE [version EXCEPT ![j] = 1 - @]
    BY <1>8 DEF WriteFile, inode_write_at
  <2> HIDE DEF j
  <2> QED BY <1>2, <1>7, <2>1, <2>2
<1>9. ASSUME NEW q \in Procs, Body(q), ~WriteFile(q)
      PROVE  version' = version
  BY <1>9 DEF Body, Load, Create, Remove, OpenFile, CloseUnplaced, QuietCall, fs,
              Close, ExitExec, ExitFds
<1>10. ASSUME NEW q \in Procs,
              (\E n \in Names : Start(q, n)) \/ Syscall(q) \/ Exit(q) \/ Acquire(q)
                \/ ReadKey(q) \/ Insert(q)
       PROVE  version' = version
  BY <1>10 DEF Start, Syscall, Exit, Acquire, ReadKey, Insert, fs
<1>11. ASSUME Next
       PROVE  version'[i] = version[i]
  BY <1>8, <1>9, <1>10, <1>11 DEF Next
<1>12. ASSUME UNCHANGED vars
       PROVE  version'[i] = version[i]
  BY <1>12 DEF vars
<1> QED BY <1>11, <1>12 DEF i, f
-----------------------------------------------------------------------------
(* The inductive invariant holds: Types, Calls, Ownership, Denied and      *)
(* DenyExact in every state of the descriptor tables.                      *)
THEOREM Invariance ==
  ASSUME DescriptorsAssumption
  PROVE  Spec => []DInv
<1>1. Init => DInv
  BY InitDInv
<1>2. DInv /\ [Next]_vars => DInv'
  BY NextDInv
<1> QED BY <1>1, <1>2, PTL DEF Spec

(* file_close frees its argument, and nothing is closed twice, used after  *)
(* it was closed or forgotten at exit but for what malloc's failure loses; *)
(* and the count of an inode is that of the files that deny writes to it.  *)
THEOREM OpenFilesOwnedAndCounted ==
  ASSUME DescriptorsAssumption
  PROVE  Spec => [](FilesOwned /\ DenyExact)
<1>1. DInv => FilesOwned /\ DenyExact
  BY OneOwner DEF DInv
<1> QED BY <1>1, Invariance, PTL

(* load, file_close and inode_write_at: nobody writes to the executable of *)
(* a running process.                                                      *)
THEOREM ExecutablesNeverWritten ==
  ASSUME DescriptorsAssumption
  PROVE  Spec => RunningUnwritten
<1>1. DInv /\ [Next]_vars => [NoRunningWritten]_vars
  BY WritesDenied
<1> QED BY <1>1, Invariance, PTL DEF Spec, RunningUnwritten
=============================================================================
