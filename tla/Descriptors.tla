---------------------------- MODULE Descriptors -----------------------------
(***************************************************************************)
(* The system calls on files (userprog/syscall.c), the descriptor table of *)
(* a process (fdt_... in threads/thread.c), open files (filesys/file.c)    *)
(* and what load and process_exit do with them.  Every process has one     *)
(* thread, and fs_lock serialises what they do to files.                   *)
(*                                                                         *)
(* Names and inodes stand for the file system below: an inode lives while  *)
(* it has a name or is open.  Data are abstracted to `version', which a    *)
(* write changes; positions and lengths are left out, so that reading,     *)
(* seeking and asking for them change nothing here.                        *)
(***************************************************************************)
EXTENDS Integers, FiniteSetsExt, Functions

CONSTANTS
  Procs, Names, Inodes,
  Files,           \* open files there is memory for (struct file)
  Top,             \* the number of descriptors, INT32_MAX in fdt_insert
  NULL

VARIABLES
  fs_lock,         \* its holder
  pc,              \* process -> where it is
  call,            \* process -> the system call it is in, and its file
  exec,            \* process -> its executable, an open file
  fdt,             \* process -> descriptor -> open file
  file,            \* open file -> its inode and deny_write
  name,            \* name -> inode
  deny_write_cnt,  \* inode -> how many open files deny writes to it
  version,         \* inode -> its data
  orphans          \* history: files that open lost when malloc failed

vars == <<fs_lock, pc, call, exec, fdt, file, name, deny_write_cnt, version, orphans>>
fs == <<file, name, deny_write_cnt, version>>

(* The calls that leave files as they are. *)
Quiet == {"filesize", "read", "seek", "tell", "stdout", "mmap"}
FdOps == {"filesize", "read", "seek", "tell", "mmap", "write", "close"}
Idle  == [op |-> "none"]

Open(f)  == f \in DOMAIN file
OpensOf(i) == {f \in DOMAIN file : file[f].inode = i}
Unused   == {i \in Inodes : OpensOf(i) = {} /\ i \notin Range(name)}

DescriptorsAssumption ==
  /\ IsFiniteSet(Files) /\ Top \in Nat
  /\ NULL \notin Files \union Inodes \union Procs

(* The function g with the value v for x, which may be new. *)
With(g, x, v) == [y \in DOMAIN g \union {x} |-> IF y = x THEN v ELSE g[y]]

Init ==
  /\ fs_lock = NULL
  /\ pc = [p \in Procs |-> "none"] /\ call = [p \in Procs |-> Idle]
  /\ exec = [p \in Procs |-> NULL]
  /\ fdt = [p \in Procs |-> <<>>]
  /\ file = <<>> /\ orphans = {}
  /\ name \in [Names -> Inodes \union {NULL}]
  /\ \A a, b \in Names : name[a] = name[b] /\ name[a] # NULL => a = b
  /\ deny_write_cnt = [i \in Inodes |-> 0] /\ version = deny_write_cnt
-----------------------------------------------------------------------------
(* file_open: a new open file f of inode i. *)
file_open(f, i) == file' = With(file, f, [inode |-> i, deny_write |-> FALSE])

(* Mutant: closing a file allows writes, whether or not it denied them. *)
file_close_allow(closed) ==
  /\ file' = Restrict(file, DOMAIN file \ closed)
  /\ deny_write_cnt' = [i \in Inodes |-> IF closed \intersect OpensOf(i) = {}
                                           THEN deny_write_cnt[i] ELSE 0]

(* inode_allow_write for each of the closed files that has denied writes. *)
file_allow_write(closed) ==
  deny_write_cnt' = [i \in Inodes |-> deny_write_cnt[i] -
       Cardinality({f \in closed \intersect OpensOf(i) : file[f].deny_write})]

(* file_close of several files: each one that denies writes allows them. *)
file_close(closed) ==
  /\ file_allow_write(closed)
  /\ file' = Restrict(file, DOMAIN file \ closed)

(* file_open, and file_deny_write of the new file. *)
OpenDenied(f, i) ==
  /\ file' = With(file, f, [inode |-> i, deny_write |-> TRUE])
  /\ deny_write_cnt' = [deny_write_cnt EXCEPT ![i] = @ + 1]

(* fdt_insert: the lowest descriptor from 2 that is not in use. *)
FreeFds(p) == (2..(Top - 1)) \ DOMAIN fdt[p]
-----------------------------------------------------------------------------
(* process_execute starts a process in an unused slot. *)
Start(p, n) ==
  /\ pc[p] = "none"
  /\ pc' = [pc EXCEPT ![p] = "lock"]
  /\ call' = [call EXCEPT ![p] = [op |-> "load", name |-> n]]
  /\ UNCHANGED <<fs_lock, exec, fdt, fs, orphans>>

(* syscall_handler: a call that needs the file system.  A descriptor that  *)
(* fdt_search does not find ends the call at once.                         *)
Syscall(p) ==
  /\ pc[p] = "user"
  /\ \/ \E op \in FdOps : \E fd \in DOMAIN fdt[p] :
          call' = [call EXCEPT ![p] = [op |-> op, fd |-> fd]]
     \/ \E op \in {"create", "remove", "open"}, n \in Names :
          call' = [call EXCEPT ![p] = [op |-> op, name |-> n]]
     \/ \E op \in {"stdin", "stdout"} : call' = [call EXCEPT ![p] = [op |-> op]]
  /\ pc' = [pc EXCEPT ![p] = "lock"]
  /\ UNCHANGED <<fs_lock, exec, fdt, fs, orphans>>

(* syscall_exit, also for a pointer that is_valid_ptr rejects. *)
Exit(p) ==
  /\ pc[p] = "user"
  /\ pc' = [pc EXCEPT ![p] = "lock"]
  /\ call' = [call EXCEPT ![p] = [op |-> IF exec[p] # NULL THEN "exit" ELSE "exit_fds"]]
  /\ UNCHANGED <<fs_lock, exec, fdt, fs, orphans>>

Acquire(p) ==
  /\ pc[p] = "lock" /\ fs_lock = NULL
  /\ fs_lock' = p
  /\ pc' = [pc EXCEPT ![p] = "body"]
  /\ UNCHANGED <<call, exec, fdt, fs, orphans>>

(* The call goes on at `where' without the lock. *)
Unlock(p, where) ==
  /\ fs_lock' = NULL
  /\ pc' = [pc EXCEPT ![p] = where]
Doing(p, op) == pc[p] = "body" /\ call[p].op = op
Done(p) == Unlock(p, "user") /\ call' = [call EXCEPT ![p] = Idle]
-----------------------------------------------------------------------------
(* load up to the program headers.  It fails without an executable, with   *)
(* one whose header is bad, or later on; then the process exits.           *)
Load(p) ==
  /\ Doing(p, "load")
  /\ LET fails(e) == /\ exec' = [exec EXCEPT ![p] = e]
                     /\ Unlock(p, "lock")
                     /\ call' = [call EXCEPT ![p] =
                          [op |-> IF e # NULL THEN "exit" ELSE "exit_fds"]]
         i == name[call[p].name]
     IN
     \/ fails(NULL) /\ UNCHANGED <<file, deny_write_cnt>>
     \/ \E f \in Files \ DOMAIN file : i # NULL /\
          \/ fails(f) /\ file_open(f, i) /\ UNCHANGED deny_write_cnt
          \/ /\ OpenDenied(f, i)
             /\ \/ fails(f)
                \/ exec' = [exec EXCEPT ![p] = f] /\ Done(p)
  /\ UNCHANGED <<fdt, name, version, orphans>>


(* filesys_create makes an inode and gives it the name, or fails. *)
filesys_create(n) ==
  \/ UNCHANGED name
  \/ /\ name[n] = NULL
     /\ \E i \in Unused : name' = [name EXCEPT ![n] = i]

Create(p) ==
  /\ Doing(p, "create")
  /\ filesys_create(call[p].name)
  /\ Done(p)
  /\ UNCHANGED <<exec, fdt, file, deny_write_cnt, version, orphans>>

(* filesys_remove: an open file keeps its inode. *)
filesys_remove(n) == UNCHANGED name \/ name' = [name EXCEPT ![n] = NULL]

Remove(p) ==
  /\ Doing(p, "remove")
  /\ filesys_remove(call[p].name)
  /\ Done(p)
  /\ UNCHANGED <<exec, fdt, file, deny_write_cnt, version, orphans>>

(* syscall_open: filesys_open, under the lock. *)
OpenFile(p) ==
  /\ Doing(p, "open")
  /\ \/ Done(p) /\ UNCHANGED file
     \/ \E f \in Files \ DOMAIN file : LET i == name[call[p].name] IN
          /\ i # NULL
          /\ file_open(f, i)
          /\ Unlock(p, "insert")
          /\ call' = [call EXCEPT ![p] = [op |-> "insert", file |-> f]]
  /\ UNCHANGED <<exec, fdt, name, deny_write_cnt, version, orphans>>

(* syscall_open after the lock: malloc and fdt_insert. *)
Insert(p) ==
  LET f == call[p].file IN
  /\ pc[p] = "insert"
  /\ \/ /\ orphans' = orphans \union {f}            \* malloc fails
        /\ UNCHANGED fdt
        /\ pc' = [pc EXCEPT ![p] = "user"] /\ call' = [call EXCEPT ![p] = Idle]
     \/ /\ FreeFds(p) # {}
        /\ fdt' = [fdt EXCEPT ![p] = With(@, Min(FreeFds(p)), f)]
        /\ pc' = [pc EXCEPT ![p] = "user"] /\ call' = [call EXCEPT ![p] = Idle]
        /\ UNCHANGED orphans
     \/ /\ FreeFds(p) = {}
        /\ pc' = [pc EXCEPT ![p] = "lock"]
        /\ call' = [call EXCEPT ![p] = [op |-> "unplaced", file |-> f]]
        /\ UNCHANGED <<fdt, orphans>>
  /\ UNCHANGED <<fs_lock, exec, fs>>

(* syscall_open when the table is full. *)
CloseUnplaced(p) ==
  /\ Doing(p, "unplaced")
  /\ file_close({call[p].file})
  /\ Done(p)
  /\ UNCHANGED <<exec, fdt, name, version, orphans>>

(* Mutant: writes are not denied. *)
inode_write_at_denied(i) == version' = [version EXCEPT ![i] = 1 - @]

(* syscall_write: inode_write_at writes nothing while writes are denied. *)
inode_write_at(i) ==
  version' = IF deny_write_cnt[i] > 0 THEN version
                                      ELSE [version EXCEPT ![i] = 1 - @]

WriteFile(p) ==
  /\ Doing(p, "write")
  /\ inode_write_at(file[fdt[p][call[p].fd]].inode)
  /\ Done(p)
  /\ UNCHANGED <<exec, fdt, file, name, deny_write_cnt, orphans>>

(* The calls that leave files as they are: filesize, read, seek, tell,     *)
(* write to the console; and mmap, which asks for the size and fails.      *)
QuietCall(p) ==
  /\ pc[p] = "body" /\ call[p].op \in Quiet
  /\ Done(p)
  /\ UNCHANGED <<exec, fdt, fs, orphans>>

(* syscall_read from the keyboard waits for keys with the lock held. *)
ReadKey(p) ==
  /\ Doing(p, "stdin")
  /\ Done(p)
  /\ UNCHANGED <<exec, fdt, fs, orphans>>

(* syscall_close: fdt_close. *)
Close(p) ==
  /\ Doing(p, "close")
  /\ file_close({fdt[p][call[p].fd]})
  /\ fdt' = [fdt EXCEPT ![p] = Restrict(@, DOMAIN @ \ {call[p].fd})]
  /\ Done(p)
  /\ UNCHANGED <<exec, name, version, orphans>>

(* process_exit closes the executable... *)
ExitExec(p) ==
  /\ Doing(p, "exit")
  /\ file_close({exec[p]})
  /\ exec' = [exec EXCEPT ![p] = NULL]
  /\ Unlock(p, "lock")
  /\ call' = [call EXCEPT ![p] = [op |-> "exit_fds"]]
  /\ UNCHANGED <<fdt, name, version, orphans>>

(* Mutant: the table is destroyed and its files stay open. *)
ExitFdsForgets(p) ==
  /\ Doing(p, "exit_fds")
  /\ UNCHANGED <<file, deny_write_cnt>>
  /\ fdt' = [fdt EXCEPT ![p] = <<>>]
  /\ Unlock(p, "none")
  /\ call' = [call EXCEPT ![p] = Idle]
  /\ UNCHANGED <<exec, name, version, orphans>>

(* ...and then all descriptors: hash_destroy with fdt_close. *)
ExitFds(p) ==
  /\ Doing(p, "exit_fds")
  /\ file_close(Range(fdt[p]))
  /\ fdt' = [fdt EXCEPT ![p] = <<>>]
  /\ Unlock(p, "none")
  /\ call' = [call EXCEPT ![p] = Idle]
  /\ UNCHANGED <<exec, name, version, orphans>>

Body(p) == Load(p) \/ Create(p) \/ Remove(p) \/ OpenFile(p) \/ CloseUnplaced(p)
             \/ WriteFile(p) \/ QuietCall(p) \/ Close(p) \/ ExitExec(p) \/ ExitFds(p)

Next == \E p \in Procs :
  \/ \E n \in Names : Start(p, n)
  \/ Syscall(p) \/ Exit(p) \/ Acquire(p) \/ Body(p) \/ ReadKey(p) \/ Insert(p)

(* Threads that can run do; nobody need type. *)
Fairness == \A p \in Procs : WF_vars(Body(p)) /\ WF_vars(Insert(p))

Spec == Init /\ [][Next]_vars
-----------------------------------------------------------------------------
(* The types of the tables and of the open files. *)
TypeOK ==
  /\ fs_lock \in Procs \union {NULL}
  /\ pc \in [Procs -> {"none", "user", "lock", "body", "insert"}]
  /\ exec \in [Procs -> Files \union {NULL}]
  /\ \A p \in Procs : DOMAIN fdt[p] \subseteq 2..(Top - 1)
  /\ DOMAIN file \subseteq Files
  /\ \A f \in DOMAIN file : file[f] \in [inode: Inodes, deny_write: BOOLEAN]
  /\ name \in [Names -> Inodes \union {NULL}]
  /\ version \in [Inodes -> {0, 1}]

Owners(f) == {<<p, "exec">> : p \in {q \in Procs : exec[q] = f}}
  \union {<<p, "call">> : p \in {q \in Procs : call[q].op \in {"insert", "unplaced"}
                                                 /\ call[q].file = f}}
  \union UNION {{<<p, d>> : d \in {e \in DOMAIN fdt[p] : fdt[p][e] = f}} : p \in Procs}

(* file_close frees its argument.  Every open file has one owner: a        *)
(* descriptor, an executable or an open in progress, so nothing is closed  *)
(* twice, used after it was closed, or forgotten when its process exits -  *)
(* but for the files that syscall_open loses when malloc fails.            *)
FilesOwned ==
  \A f \in Files : Cardinality(Owners(f)) = IF Open(f) /\ f \notin orphans THEN 1 ELSE 0

(* inode_deny_write and inode_allow_write: the count is that of the open   *)
(* files with deny_write, in spite of closes in any order, so that their   *)
(* assertions hold: never negative, never more than the openers.           *)
DenyExact ==
  \A i \in Inodes : deny_write_cnt[i] = Cardinality({f \in OpensOf(i) : file[f].deny_write})

(* file_deny_write in load, file_allow_write in file_close: while a        *)
(* process runs, nobody writes to its executable, whatever name and        *)
(* descriptor it is written through and whoever else closes it.            *)
NoRunningWritten ==
  \A p \in Procs : exec[p] # NULL /\ call[p].op \notin {"load", "exit"} =>
    LET i == file[exec[p]].inode IN version'[i] = version[i]
RunningUnwritten == [][NoRunningWritten]_vars

=============================================================================
