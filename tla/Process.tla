------------------------------ MODULE Process -------------------------------
(***************************************************************************)
(* Parents and children (userprog/process.c): exec, wait and exit, and the *)
(* struct relation that a parent and a child share.  The status lock is    *)
(* the children_lock in the parent's struct thread; the code between its   *)
(* lock_acquire and lock_release is one step.  All processes have          *)
(* PRI_DEFAULT, so time slices interleave them in any order.               *)
(*                                                                         *)
(* Freed memory is filled with 0xcc, so a use of a freed relation, or of a *)
(* lock in a freed struct thread, is a page fault in the kernel: "fault"   *)
(* names the first and the kernel stops.                                   *)
(***************************************************************************)
EXTENDS Integers, FiniteSets

CONSTANTS
  Procs,     \* user processes; a process is also its tid
  MAIN,      \* initial_thread, which has no parent_in_r
  NULL,
  Statuses   \* the arguments of exit; -1 is also a killed process

TID_ERROR == -1

ProcsAssumption ==
  /\ MAIN \notin Procs /\ NULL \notin Procs \union {MAIN} \union Statuses
  /\ TID_ERROR \notin Procs /\ -1 \in Statuses

All == Procs \union {MAIN}

VARIABLES
  pc,        \* where each process is
  child,     \* the child that a process execs or waits for
  children,  \* t->children_in_r
  rel,       \* t->parent_in_r: the relation of a process with its parent
  last,      \* what exec returned to MAIN, which waits for it
  exited,    \* history: the status a process exited with
  loaded,    \* history: how the load of a process ended
  execRet,   \* history: what exec returned for a process
  waitRet,   \* history: what wait returned for a process
  fault

history == <<exited, loaded, execRet, waitRet>>
vars    == <<pc, child, children, rel, last, history, fault>>

P_STATES == {"P_RUNNING", "P_EXITED", "P_LOADING"}

(* "unborn": not created yet.  "failed": thread_create failed.  "start": in *)
(* start_process.  "user": in user code, or in main's run_task.  "created": *)
(* in process_execute, before rel->c_id = tid.  "exec", "wait": in the      *)
(* yield loops.  "exit", "orphan": at the start of process_exit and in its  *)
(* loop over children.  "dead": destroyed.                                  *)
PCs == {"unborn", "failed", "start", "user", "created", "exec", "wait",
        "exit", "orphan", "dead"}

Relations == [memory: {"none", "allocated", "freed"},
              parent: All \union {NULL},
              c_id: Procs \union {TID_ERROR, NULL},
              p_status: P_STATES, c_status: P_STATES, w_status: Statuses]

TypeOK ==
  /\ pc \in [All -> PCs]
  /\ child \in [All -> Procs \union {NULL}]
  /\ children \in [All -> SUBSET Procs]
  /\ rel \in [Procs -> Relations]
  /\ last \in Procs \union {TID_ERROR, NULL}
  /\ exited \in [Procs -> Statuses \union {NULL}]
  /\ loaded \in [Procs -> {"loading", "ok", "failed"}]
  /\ execRet \in [Procs -> Procs \union {TID_ERROR, NULL}]
  /\ waitRet \in [Procs -> Statuses \union {NULL}]
  /\ fault \in {"none", "freed_relation", "freed_lock", "null_relation"}

(* What process_execute stores, once it has allocated the relation. *)
NoRelation == [memory |-> "none", parent |-> NULL, c_id |-> NULL,
               p_status |-> "P_RUNNING", c_status |-> "P_LOADING",
               w_status |-> -1]

Init ==
  /\ pc = [p \in All |-> IF p = MAIN THEN "user" ELSE "unborn"]
  /\ child = [p \in All |-> NULL]
  /\ children = [p \in All |-> {}]
  /\ rel = [p \in Procs |-> NoRelation]
  /\ last = NULL
  /\ exited = [p \in Procs |-> NULL]
  /\ loaded = [p \in Procs |-> "loading"]
  /\ execRet = [p \in Procs |-> NULL]
  /\ waitRet = [p \in Procs |-> NULL]
  /\ fault = "none"

At(p, place) == fault = "none" /\ pc[p] = place

Stop(f) ==
  /\ fault' = f
  /\ UNCHANGED <<pc, child, children, rel, last, history>>

(* What goes wrong when c uses its relation, and the lock it points to. *)
RelationFault(c) ==
  IF rel[c].memory = "freed" THEN "freed_relation"
  ELSE IF pc[rel[c].parent] = "dead" THEN "freed_lock"
  ELSE "none"
-----------------------------------------------------------------------------
(* exec.                                                                   *)

(* Mutant: the child counts as running from the start. *)
ProcessExecuteRunning(p, c, ok) ==
  /\ At(p, "user") /\ pc[c] = "unborn"
  /\ p = MAIN => last = NULL
  /\ rel' = [rel EXCEPT ![c] = [NoRelation EXCEPT !.memory = "allocated",
                                                  !.parent = p,
                                                  !.c_status = "P_RUNNING"]]
  /\ children' = [children EXCEPT ![p] = @ \union {c}]
  /\ child' = [child EXCEPT ![p] = c]
  /\ pc' = [pc EXCEPT ![p] = "created", ![c] = IF ok THEN "start" ELSE "failed"]
  /\ UNCHANGED <<last, history, fault>>

(* process_execute up to and including thread_create, which fails when     *)
(* there is no page for the thread.                                        *)
ProcessExecute(p, c, ok) ==
  /\ At(p, "user") /\ pc[c] = "unborn"
  /\ p = MAIN => last = NULL
  /\ rel' = [rel EXCEPT ![c] = [NoRelation EXCEPT !.memory = "allocated",
                                                  !.parent = p]]
  /\ children' = [children EXCEPT ![p] = @ \union {c}]
  /\ child' = [child EXCEPT ![p] = c]
  /\ pc' = [pc EXCEPT ![p] = "created", ![c] = IF ok THEN "start" ELSE "failed"]
  /\ UNCHANGED <<last, history, fault>>

(* What thread_create returned. *)
tid(p) == IF pc[child[p]] = "failed" THEN TID_ERROR ELSE child[p]

(* rel->c_id = tid, without the lock. *)
SetChildId(p) ==
  /\ At(p, "created")
  /\ rel' = [rel EXCEPT ![child[p]].c_id = tid(p)]
  /\ pc' = [pc EXCEPT ![p] = "exec"]
  /\ UNCHANGED <<child, children, last, history, fault>>

(* The yield loop of process_execute ends. *)
ExecReturn(p) ==
  /\ At(p, "exec")
  /\ LET c   == child[p]
         ret == IF rel[c].c_status = "P_EXITED" THEN rel[c].c_id ELSE tid(p)
     IN  /\ rel[c].c_status # "P_LOADING"
         /\ execRet' = [execRet EXCEPT ![c] = ret]
         /\ last' = IF p = MAIN THEN ret ELSE last
  /\ child' = [child EXCEPT ![p] = NULL]
  /\ pc' = [pc EXCEPT ![p] = "user"]
  /\ UNCHANGED <<children, rel, exited, loaded, waitRet, fault>>

(* An iteration of the loops of process_execute and process_wait. *)
SpinYield(p) ==
  /\ \/ At(p, "exec") /\ rel[child[p]].c_status = "P_LOADING"
     \/ At(p, "wait") /\ rel[child[p]].c_status = "P_RUNNING"
  /\ UNCHANGED vars

(* Mutant: a failed load is not reported. *)
StartProcessSilent(c, success) ==
  /\ At(c, "start")
  /\ IF RelationFault(c) # "none" THEN Stop(RelationFault(c))
     ELSE /\ rel' = IF success THEN [rel EXCEPT ![c].c_status = "P_RUNNING"]
                    ELSE rel
          /\ pc' = [pc EXCEPT ![c] = IF success THEN "user" ELSE "dead"]
          /\ UNCHANGED <<child, children, last, history, fault>>

(* start_process: load succeeds or fails, and the parent is told. *)
StartProcess(c, success) ==
  /\ At(c, "start")
  /\ IF RelationFault(c) # "none" THEN Stop(RelationFault(c))
     ELSE /\ IF success
             THEN /\ rel' = [rel EXCEPT ![c].c_status = "P_RUNNING"]
                  /\ pc' = [pc EXCEPT ![c] = "user"]
                  /\ loaded' = [loaded EXCEPT ![c] = "ok"]
                  /\ UNCHANGED exited
             ELSE /\ rel' = [rel EXCEPT ![c].c_status = "P_EXITED",
                                        ![c].c_id = TID_ERROR]
                  /\ pc' = [pc EXCEPT ![c] = "exit"]
                  /\ loaded' = [loaded EXCEPT ![c] = "failed"]
                  /\ exited' = [exited EXCEPT ![c] = -1]
          /\ UNCHANGED <<child, children, last, execRet, waitRet, fault>>
-----------------------------------------------------------------------------
(* wait.                                                                   *)

(* process_wait finds the relation with the tid.  A wait for a tid that is *)
(* not in the list returns -1 at once.  A user's wait (-1) does, too.      *)
ProcessWait(p, c) ==
  /\ At(p, "user") /\ c \in children[p]
  /\ IF p = MAIN THEN rel[c].c_id = last ELSE rel[c].c_id # TID_ERROR
  /\ child' = [child EXCEPT ![p] = c]
  /\ pc' = [pc EXCEPT ![p] = "wait"]
  /\ last' = IF p = MAIN THEN NULL ELSE last
  /\ UNCHANGED <<children, rel, history, fault>>

(* Mutant: a wait does not look at the status of the child. *)
WaitReturnEarly(p) ==
  /\ At(p, "wait")
  /\ LET c == child[p]
     IN  /\ waitRet' = [waitRet EXCEPT ![c] = rel[c].w_status]
         /\ children' = [children EXCEPT ![p] = @ \ {c}]
         /\ rel' = [rel EXCEPT ![c].memory = "freed"]
  /\ child' = [child EXCEPT ![p] = NULL]
  /\ pc' = [pc EXCEPT ![p] = "user"]
  /\ UNCHANGED <<last, exited, loaded, execRet, fault>>

(* The yield loop of process_wait ends: the relation is freed. *)
WaitReturn(p) ==
  /\ At(p, "wait")
  /\ LET c == child[p]
     IN  /\ rel[c].c_status # "P_RUNNING"
         /\ waitRet' = [waitRet EXCEPT ![c] = rel[c].w_status]
         /\ children' = [children EXCEPT ![p] = @ \ {c}]
         /\ rel' = [rel EXCEPT ![c].memory = "freed"]
  /\ child' = [child EXCEPT ![p] = NULL]
  /\ pc' = [pc EXCEPT ![p] = "user"]
  /\ UNCHANGED <<last, exited, loaded, execRet, fault>>
-----------------------------------------------------------------------------
(* exit.                                                                   *)

(* syscall_exit with status s, or kill with -1. *)
SyscallExit(c, s) ==
  /\ At(c, "user")
  /\ rel' = [rel EXCEPT ![c].w_status = s]
  /\ exited' = [exited EXCEPT ![c] = s]
  /\ pc' = [pc EXCEPT ![c] = "exit"]
  /\ UNCHANGED <<child, children, last, loaded, execRet, waitRet, fault>>

(* main returns from shutdown and exits; process_exit prints the status in *)
(* its parent_in_r, which is NULL.                                         *)
MainExit == At(MAIN, "user") /\ last = NULL /\ Stop("null_relation")

(* Mutant: the child leaves an orphaned relation allocated. *)
CutTiesLeak(c) ==
  /\ At(c, "exit")
  /\ IF RelationFault(c) # "none" THEN Stop(RelationFault(c))
     ELSE /\ rel' = [rel EXCEPT ![c].c_status = "P_EXITED"]
          /\ pc' = [pc EXCEPT ![c] = "orphan"]
          /\ UNCHANGED <<child, children, last, history, fault>>

(* Mutant: the child does not say that it has exited. *)
CutTiesSilent(c) ==
  /\ At(c, "exit")
  /\ IF RelationFault(c) # "none" THEN Stop(RelationFault(c))
     ELSE /\ pc' = [pc EXCEPT ![c] = "orphan"]
          /\ UNCHANGED <<child, children, rel, last, history, fault>>

(* process_exit cuts the ties with the parent. *)
CutTies(c) ==
  /\ At(c, "exit")
  /\ IF RelationFault(c) # "none" THEN Stop(RelationFault(c))
     ELSE /\ rel' = [rel EXCEPT
                       ![c].c_status = "P_EXITED",
                       ![c].memory = IF rel[c].p_status = "P_EXITED"
                                     THEN "freed" ELSE @]
          /\ pc' = [pc EXCEPT ![c] = "orphan"]
          /\ UNCHANGED <<child, children, last, history, fault>>


(* One iteration of the loop of process_exit over the children. *)
OrphanChild(p, c) ==
  /\ At(p, "orphan") /\ c \in children[p]
  /\ rel' = [rel EXCEPT ![c].p_status = "P_EXITED",
                        ![c].memory = IF rel[c].c_status = "P_EXITED"
                                      THEN "freed" ELSE @]
  /\ children' = [children EXCEPT ![p] = @ \ {c}]
  /\ UNCHANGED <<pc, child, last, history, fault>>

(* The rest of process_exit and thread_exit; thread_schedule_tail frees    *)
(* the page with the struct thread.                                        *)
Destroy(p) ==
  /\ At(p, "orphan") /\ children[p] = {}
  /\ pc' = [pc EXCEPT ![p] = "dead"]
  /\ UNCHANGED <<child, children, rel, last, history, fault>>

Step(p) ==
  \/ SetChildId(p) \/ ExecReturn(p) \/ WaitReturn(p)
  \/ p # MAIN /\ ((\E ok \in BOOLEAN : StartProcess(p, ok)) \/ CutTies(p))
  \/ \E c \in Procs : OrphanChild(p, c)
  \/ Destroy(p)

UserStep(p) ==
  \/ \E c \in Procs, ok \in BOOLEAN : ProcessExecute(p, c, ok)
  \/ \E c \in Procs : ProcessWait(p, c)
  \/ p # MAIN /\ \E s \in Statuses : SyscallExit(p, s)

(* Nothing runs: debug_panic never returns. *)
Panic == fault # "none" /\ UNCHANGED vars

Next == \/ \E p \in All : Step(p) \/ UserStep(p) \/ SpinYield(p)
        \/ MainExit
        \/ Panic

Spec == Init /\ [][Next]_vars

(* Time slices give every process its turn, and the loops of exec and wait *)
(* yield.  What user programs do is up to them.                            *)
Fairness == \A p \in All : WF_vars(Step(p))
-----------------------------------------------------------------------------
(* wait returns the status the child exited with, never a status from      *)
(* before the exit, as syscall_wait promises.                              *)
WaitStatus ==
  \A c \in Procs : waitRet[c] # NULL => waitRet[c] = exited[c]

(* "the parent process cannot return from the exec until it knows whether  *)
(* the child process successfully loaded its executable": and if exec      *)
(* returns the error, the load has failed.                                 *)
ExecKnowsLoad ==
  \A c \in Procs : execRet[c] # NULL =>
    /\ loaded[c] # "loading"
    /\ execRet[c] = TID_ERROR => loaded[c] = "failed"

(* "the last process to exit (between the parent and child) is the one     *)
(* that is responsible for freeing": a relation does not outlive both.     *)
RelationReclaimed ==
  \A c \in Procs :
    rel[c].memory = "allocated" =>
      \/ c \in children[rel[c].parent]
      \/ pc[c] \in {"start", "user", "created", "exec", "wait", "exit"}

(* A child that has told its parent that it runs does so with a relation   *)
(* until it exits: nobody frees it under a running process.                *)
RunningHasRelation ==
  /\ TypeOK
  /\ \A c \in Procs :
       pc[c] \in {"start", "user", "created", "exec", "wait"} =>
         rel[c].memory = "allocated"

(* A wait ends once the child exits. *)
WaitEnds ==
  \A p \in All, c \in Procs :
    pc[p] = "wait" /\ child[p] = c /\ pc[c] = "exit" ~>
      pc[p] # "wait" \/ fault # "none"

(* An exec ends once the child has loaded or failed to. *)
ExecEnds ==
  \A p \in All, c \in Procs :
    pc[p] = "exec" /\ child[p] = c /\ pc[c] = "start" ~>
      pc[p] # "exec" \/ fault # "none"
-----------------------------------------------------------------------------
(* What comments and the design document say and the model refutes.        *)

(* "all resources are freed without possible double free errors": a child  *)
(* never uses a relation that its parent has freed.                        *)
RelationOutlivesUse == fault # "freed_relation"
=============================================================================
