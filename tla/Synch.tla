------------------------------- MODULE Synch --------------------------------
(***************************************************************************)
(* Semaphores, locks and priority donation (threads/synch.c) on top of the *)
(* uniprocessor scheduler (threads/thread.c).                              *)
(*                                                                         *)
(* One thread runs at a time.  A step is the code between two points at    *)
(* which interrupts are enabled: a timer interrupt may end the running     *)
(* thread's time slice there and nowhere else.  sema_up and lock_release   *)
(* enable interrupts half way, so each is several steps.                   *)
(*                                                                         *)
(* A failed ASSERT, a NULL dereference and the unlinking of an element     *)
(* that is in no list stop the model: "fault" names the first of them.     *)
(***************************************************************************)
EXTENDS PriorityList, FiniteSets

CONSTANTS
  Threads,     \* the kernel threads, without the idle thread
  Locks,       \* struct lock; a lock and its semaphore share a name
  Sems,        \* semaphores that are not part of a lock
  Priorities,  \* the priorities threads use
  MaxValue,    \* bound on the value of a semaphore in Sems
  IDLE,        \* idle_thread
  NULL,
  READY_LIST, SLEEPING_LIST

Semas == Locks \union Sems
Lists == Semas \union {READY_LIST, SLEEPING_LIST}

ASSUME NamesAssumption ==
  /\ IDLE \notin Threads
  /\ NULL \notin Threads \union Lists
  /\ Locks \intersect Sems = {}
  /\ {READY_LIST, SLEEPING_LIST} \intersect Semas = {}
  /\ READY_LIST # SLEEPING_LIST

ASSUME ThreadsAssumption == IsFiniteSet(Threads)

ASSUME PrioritiesAssumption == Priorities \subseteq PRI_MIN..PRI_MAX

ASSUME MaxValueAssumption == MaxValue \in Nat

VARIABLES
  running,            \* the thread that has the CPU
  status,             \* t->status
  lists,              \* the ready list, the sleeping list, each sema->waiters
  thread_pl,          \* t->thread_pl: the list donation looks for t in
  priority,           \* t->priority
  original_priority,  \* t->original_priority
  donated,            \* t->donated
  waiting_for_tlock,  \* t->waiting_for_tlock: a thread, not a lock
  value,              \* sema->value
  holder,             \* lock->holder
  acquired_locks,     \* t->acquired_locks
  pc,                 \* where in synch.c a thread is
  fault               \* what stopped the kernel, "none" while it runs

cpuVars  == <<running, status, lists, thread_pl>>
prioVars == <<priority, original_priority, donated, waiting_for_tlock>>
lockVars == <<holder, acquired_locks>>
vars     == <<cpuVars, prioVars, lockVars, value, pc, fault>>

Statuses == {"RUNNING", "READY", "BLOCKED"}

(* "run": outside synch.c.  "down" and "acquire": in the loop of sema_down, *)
(* called directly or by lock_acquire.  "up": in lock_release, before       *)
(* sema_up.  "pop", "remove", "unblock": in sema_up, before list_front,     *)
(* before list_remove of `who', before thread_unblock of `who'.  "sleep":   *)
(* on the sleeping list.                                                    *)
PCs    == [at: {"run", "sleep"}, on: {NULL}, who: {NULL}] \union
          [at: {"down", "acquire", "up", "pop"}, on: Semas, who: {NULL}] \union
          [at: {"remove", "unblock"}, on: Semas, who: Threads]
Run    == [at |-> "run", on |-> NULL, who |-> NULL]

Faults == {"none", "list_empty", "unlinked", "null_list", "null_holder",
           "not_blocked"}

TypeOK ==
  /\ running \in Threads \union {IDLE}
  /\ status \in [Threads -> Statuses]
  /\ lists \in [Lists -> Seq(Threads)]
  /\ thread_pl \in [Threads -> Semas \union {READY_LIST, NULL}]
  /\ priority \in [Threads -> Priorities]
  /\ original_priority \in [Threads -> Priorities]
  /\ donated \in [Threads -> BOOLEAN]
  /\ waiting_for_tlock \in [Threads -> Threads \union {NULL}]
  /\ value \in [Semas -> Nat]
  /\ holder \in [Locks -> Threads \union {NULL}]
  /\ acquired_locks \in [Threads -> SUBSET Locks]
  /\ pc \in [Threads -> PCs]
  /\ fault \in Faults

(* Every thread has just become ready: all were asleep, the idle thread ran, *)
(* and the timer moved them to the ready list in priority order.             *)
Init ==
  /\ running = IDLE
  /\ status = [t \in Threads |-> "READY"]
  /\ priority \in [Threads -> Priorities]
  /\ \E q \in [1..Cardinality(Threads) -> Threads] :
       /\ NoDuplicates(q) /\ Sorted(q, priority)
       /\ lists = [l \in Lists |-> IF l = READY_LIST THEN q ELSE <<>>]
  /\ thread_pl = [t \in Threads |-> READY_LIST]
  /\ original_priority = priority
  /\ donated = [t \in Threads |-> FALSE]
  /\ waiting_for_tlock = [t \in Threads |-> NULL]
  /\ value \in {v \in [Semas -> 0..1] : \A l \in Locks : v[l] = 1}
  /\ holder = [l \in Locks |-> NULL]
  /\ acquired_locks = [t \in Threads |-> {}]
  /\ pc = [t \in Threads |-> Run]
  /\ fault = "none"
-----------------------------------------------------------------------------
(* The scheduler.  st, ls and pl are the status, lists and thread_pl the   *)
(* caller has prepared.                                                    *)

(* Runs the front of the ready list, or the idle thread. *)
schedule(st, ls, pl) ==
  LET ready == ls[READY_LIST]
      next  == Head(ready)
  IN  IF ready = <<>>
      THEN /\ running' = IDLE
           /\ status' = st /\ lists' = ls /\ thread_pl' = pl
      ELSE /\ running' = next
           /\ status' = [st EXCEPT ![next] = "RUNNING"]
           /\ lists' = [ls EXCEPT ![READY_LIST] = Tail(ready)]
           /\ thread_pl' = [pl EXCEPT ![next] = NULL]

thread_block(t, ls, pl) == schedule([status EXCEPT ![t] = "BLOCKED"], ls, pl)

thread_yield(t, pri, st, ls, pl) ==
  schedule([st EXCEPT ![t] = "READY"],
           [ls EXCEPT ![READY_LIST] = list_insert_ordered(@, t, pri)],
           [pl EXCEPT ![t] = READY_LIST])

(* thread_unblock up to its preemption test, as a timer or disk interrupt  *)
(* handler executes it: the woken thread only becomes ready.               *)
MakeReady(w, ls) ==
  /\ status' = [status EXCEPT ![w] = "READY"]
  /\ lists' = [ls EXCEPT ![READY_LIST] = list_insert_ordered(@, w, priority)]
  /\ thread_pl' = [thread_pl EXCEPT ![w] = READY_LIST]
  /\ UNCHANGED running

(* thread_unblock with interrupts on: t gives way to a higher priority. *)
thread_unblock(t, w) ==
  LET ready == list_insert_ordered(lists[READY_LIST], w, priority)
  IN  IF priority[t] < thread_list_top_pri(ready, priority)
      THEN thread_yield(t, priority,
                        [status EXCEPT ![w] = "READY"],
                        [lists EXCEPT ![READY_LIST] = ready],
                        [thread_pl EXCEPT ![w] = READY_LIST])
      ELSE MakeReady(w, lists)

(* t has the CPU and is at the given place. *)
At(t, place) == fault = "none" /\ running = t /\ pc[t].at = place

(* Interrupts are on unless a thread has just been switched to inside the  *)
(* loop of sema_down.                                                      *)
InterruptsOn ==
  /\ fault = "none"
  /\ running # IDLE => pc[running].at \notin {"down", "acquire"}

Stop(f) ==
  /\ fault' = f
  /\ UNCHANGED <<cpuVars, prioVars, lockVars, value, pc>>
-----------------------------------------------------------------------------
(* Semaphores.                                                             *)

(* sema_down finds value 0: t joins the waiters and blocks.  It comes back *)
(* to the test of the loop with interrupts still off.                      *)
Wait(t, s, ls, pri, place) ==
  /\ thread_block(t, [ls EXCEPT ![s] = list_insert_ordered(@, t, pri)],
                  [thread_pl EXCEPT ![t] = s])
  /\ pc' = [pc EXCEPT ![t] = [at |-> place, on |-> s, who |-> NULL]]

(* sema_down, from its call or from a wake-up inside its loop. *)
SemaDown(t, s) ==
  /\ At(t, "run") \/ (At(t, "down") /\ pc[t].on = s)
  /\ IF value[s] = 0
     THEN Wait(t, s, lists, priority, "down") /\ UNCHANGED value
     ELSE /\ value' = [value EXCEPT ![s] = @ - 1]
          /\ pc' = [pc EXCEPT ![t] = Run]
          /\ UNCHANGED cpuVars
  /\ UNCHANGED <<prioVars, lockVars, fault>>

(* sema_try_down that succeeds; one that fails changes nothing. *)
SemaTryDown(t, s) ==
  /\ At(t, "run")
  /\ value[s] > 0
  /\ value' = [value EXCEPT ![s] = @ - 1]
  /\ UNCHANGED <<cpuVars, prioVars, lockVars, pc, fault>>


(* sema_up, called directly or at the end of lock_release.  With a waiter  *)
(* it enables interrupts again before it touches the list.                 *)
SemaUp(t, s) ==
  /\ \/ At(t, "run") /\ s \in Sems /\ value[s] < MaxValue
     \/ At(t, "up") /\ pc[t].on = s
  /\ value' = [value EXCEPT ![s] = @ + 1]
  /\ pc' = [pc EXCEPT ![t] =
              IF lists[s] = <<>> THEN Run
              ELSE [at |-> "pop", on |-> s, who |-> NULL]]
  /\ UNCHANGED <<cpuVars, prioVars, lockVars, fault>>

(* list_pop_front, first half: list_front asserts that the list is not empty. *)
ListFront(t, s) ==
  /\ At(t, "pop") /\ pc[t].on = s
  /\ IF lists[s] = <<>>
     THEN Stop("list_empty")
     ELSE /\ pc' = [pc EXCEPT ![t] =
                      [at |-> "remove", on |-> s, who |-> Head(lists[s])]]
          /\ UNCHANGED <<cpuVars, prioVars, lockVars, value, fault>>


(* list_pop_front, second half: list_remove of the element just read. *)
ListRemove(t, s) ==
  /\ At(t, "remove") /\ pc[t].on = s
  /\ IF pc[t].who \notin Members(lists[s])
     THEN Stop("unlinked")
     ELSE /\ lists' = [lists EXCEPT ![s] = list_remove(@, pc[t].who)]
          /\ pc' = [pc EXCEPT ![t] =
                      [at |-> "unblock", on |-> s, who |-> pc[t].who]]
          /\ UNCHANGED <<running, status, thread_pl, prioVars, lockVars,
                         value, fault>>

(* The thread_unblock that ends sema_up. *)
Unblock(t) ==
  /\ At(t, "unblock")
  /\ IF status[pc[t].who] # "BLOCKED"
     THEN Stop("not_blocked")
     ELSE /\ thread_unblock(t, pc[t].who)
          /\ pc' = [pc EXCEPT ![t] = Run]
          /\ UNCHANGED <<prioVars, lockVars, value, fault>>

(* sema_up in an external interrupt handler (devices/ide.c): interrupts    *)
(* are off throughout and the interrupted thread is not preempted.         *)
InterruptSemaUp(s) ==
  /\ InterruptsOn
  /\ value[s] < MaxValue
  /\ value' = [value EXCEPT ![s] = @ + 1]
  /\ IF lists[s] = <<>> THEN UNCHANGED cpuVars
     ELSE MakeReady(Head(lists[s]), [lists EXCEPT ![s] = Tail(@)])
  /\ UNCHANGED <<prioVars, lockVars, pc, fault>>
-----------------------------------------------------------------------------
(* Priority donation and locks.                                            *)

(* The state of the walk of lock_donate: cur is the thread it is at, pri   *)
(* the priority it donates.  d.cur takes the priority and moves in the     *)
(* list pl it is in, and the walk goes on to the thread it waits for.      *)
Receive(d, pl) ==
  LET pri == [d.priority EXCEPT ![d.cur] = d.pri]
  IN  [cur      |-> waiting_for_tlock[d.cur],
       pri      |-> d.pri,
       priority |-> pri,
       donated  |-> [d.donated EXCEPT ![d.cur] = TRUE],
       lists    |-> [d.lists EXCEPT ![pl] = list_update_elem(@, d.cur, pri)],
       fault    |-> "none"]

(* list_update_elem asserts that there is a list, and unlinks d.cur from it. *)
Donate(d) ==
  LET pl == thread_pl[d.cur]
  IN  IF pl = NULL THEN [d EXCEPT !.fault = "null_list"]
      ELSE IF d.cur \notin Members(d.lists[pl])
           THEN [d EXCEPT !.fault = "unlinked"]
      ELSE Receive(d, pl)

(* Mutant: a donation leaves its receiver where it is in its list. *)
HopNoUpdate(d) ==
  IF d.cur = NULL \/ d.fault # "none" THEN d
  ELSE IF d.priority[d.cur] >= d.pri THEN [d EXCEPT !.cur = NULL]
  ELSE [d EXCEPT !.cur = waiting_for_tlock[d.cur],
                 !.priority[d.cur] = d.pri,
                 !.donated[d.cur] = TRUE]

(* One iteration of the loop of lock_donate. *)
Hop(d) ==
  IF d.cur = NULL \/ d.fault # "none" THEN d
  ELSE IF d.priority[d.cur] >= d.pri THEN [d EXCEPT !.cur = NULL]
  ELSE Donate(d)

ThreeHops(d) == Hop(Hop(Hop(d)))

(* At most nine hops. *)
lock_donate(l, pri) ==
  ThreeHops(ThreeHops(ThreeHops(
    [cur |-> holder[l], pri |-> pri, priority |-> priority,
     donated |-> donated, lists |-> lists, fault |-> "none"])))

(* give_lock, after the semaphore has been downed. *)
TakeLock(t, l) ==
  /\ value' = [value EXCEPT ![l] = @ - 1]
  /\ holder' = [holder EXCEPT ![l] = t]
  /\ waiting_for_tlock' = [waiting_for_tlock EXCEPT ![t] = NULL]
  /\ acquired_locks' = [acquired_locks EXCEPT ![t] = @ \union {l}]
  /\ pc' = [pc EXCEPT ![t] = Run]
  /\ UNCHANGED <<cpuVars, priority, original_priority, donated, fault>>

(* lock_try_acquire that succeeds, called directly or by lock_acquire. *)
LockTryAcquire(t, l) ==
  /\ At(t, "run") /\ holder[l] # t
  /\ value[l] > 0
  /\ TakeLock(t, l)

(* lock_acquire of a lock that is not free.  It reads lock->holder, which  *)
(* lock_release has already cleared when it is about to call sema_up.      *)
LockAcquireBlock(t, l) ==
  /\ At(t, "run") /\ holder[l] # t
  /\ value[l] = 0
  /\ LET h == holder[l]
         d == IF priority[t] > priority[h] THEN lock_donate(l, priority[t])
              ELSE [priority |-> priority, donated |-> donated,
                    lists |-> lists, fault |-> "none"]
     IN  IF h = NULL THEN Stop("null_holder")
         ELSE IF d.fault # "none" THEN Stop(d.fault)
         ELSE /\ waiting_for_tlock' = [waiting_for_tlock EXCEPT ![t] = h]
              /\ priority' = d.priority
              /\ donated' = d.donated
              /\ Wait(t, l, d.lists, d.priority, "acquire")
              /\ UNCHANGED <<original_priority, lockVars, value, fault>>

(* Mutant: the value is not tested again after a wake-up. *)
LockAcquireResumeNoTest(t, l) ==
  /\ At(t, "acquire") /\ pc[t].on = l
  /\ holder' = [holder EXCEPT ![l] = t]
  /\ waiting_for_tlock' = [waiting_for_tlock EXCEPT ![t] = NULL]
  /\ acquired_locks' = [acquired_locks EXCEPT ![t] = @ \union {l}]
  /\ value' = [value EXCEPT ![l] = 0]
  /\ pc' = [pc EXCEPT ![t] = Run]
  /\ UNCHANGED <<cpuVars, priority, original_priority, donated, fault>>

(* Back in the loop of sema_down inside lock_acquire.  A thread that finds *)
(* the lock taken again waits again, and does not donate again.            *)
LockAcquireResume(t, l) ==
  /\ At(t, "acquire") /\ pc[t].on = l
  /\ IF value[l] = 0
     THEN /\ Wait(t, l, lists, priority, "acquire")
          /\ UNCHANGED <<prioVars, lockVars, value, fault>>
     ELSE TakeLock(t, l)

(* next_potential_donation: the best priority waiting for one of ls. *)
next_potential_donation(ls) ==
  LET tops == {PRI_MIN} \union
              {thread_list_top_pri(lists[l], priority) : l \in ls}
  IN  CHOOSE p \in tops : \A q \in tops : p >= q

(* Mutant: the priority becomes the best remaining donation, if any or not. *)
LockReleaseToDonation(t, l) ==
  /\ At(t, "run") /\ holder[l] = t
  /\ LET rest == acquired_locks[t] \ {l}
     IN  /\ acquired_locks' = [acquired_locks EXCEPT ![t] = rest]
         /\ priority' = [priority EXCEPT ![t] = next_potential_donation(rest)]
         /\ donated' = [donated EXCEPT ![t] = rest # {}]
  /\ holder' = [holder EXCEPT ![l] = NULL]
  /\ pc' = [pc EXCEPT ![t] = [at |-> "up", on |-> l, who |-> NULL]]
  /\ UNCHANGED <<cpuVars, original_priority, waiting_for_tlock, value, fault>>

(* lock_release up to the point where it enables interrupts again; the     *)
(* sema_up that completes it is SemaUp at place "up".                      *)
LockRelease(t, l) ==
  /\ At(t, "run") /\ holder[l] = t
  /\ LET rest == acquired_locks[t] \ {l}
         best == next_potential_donation(rest)
         orig == original_priority[t]
         more == rest # {} /\ orig < best
     IN  /\ acquired_locks' = [acquired_locks EXCEPT ![t] = rest]
         /\ priority' = [priority EXCEPT ![t] = IF more THEN best ELSE orig]
         /\ donated' = [donated EXCEPT ![t] = more]
  /\ holder' = [holder EXCEPT ![l] = NULL]
  /\ pc' = [pc EXCEPT ![t] = [at |-> "up", on |-> l, who |-> NULL]]
  /\ UNCHANGED <<cpuVars, original_priority, waiting_for_tlock, value, fault>>
-----------------------------------------------------------------------------
(* Priorities, the timer and the idle thread.                              *)

(* Mutant: a priority that stays is no longer taken for a donation. *)
thread_set_priority_keep(t, p) ==
  /\ At(t, "run")
  /\ LET keep == donated[t] /\ priority[t] >= p
         pri  == [priority EXCEPT ![t] = IF keep THEN @ ELSE p]
     IN  /\ priority' = pri
         /\ original_priority' = [original_priority EXCEPT ![t] = p]
         /\ IF pri[t] < thread_list_top_pri(lists[READY_LIST], pri)
            THEN thread_yield(t, pri, status, lists, thread_pl)
            ELSE UNCHANGED cpuVars
  /\ donated' = [donated EXCEPT ![t] = FALSE]
  /\ UNCHANGED <<waiting_for_tlock, lockVars, value, pc, fault>>

thread_set_priority(t, p) ==
  /\ At(t, "run")
  /\ LET keep == donated[t] /\ priority[t] >= p
         pri  == [priority EXCEPT ![t] = IF keep THEN @ ELSE p]
     IN  /\ priority' = pri
         /\ original_priority' = [original_priority EXCEPT ![t] = p]
         /\ donated' = [donated EXCEPT ![t] = keep]
         /\ IF pri[t] < thread_list_top_pri(lists[READY_LIST], pri)
            THEN thread_yield(t, pri, status, lists, thread_pl)
            ELSE UNCHANGED cpuVars
  /\ UNCHANGED <<waiting_for_tlock, lockVars, value, pc, fault>>

(* timer_sleep: thread_pl stays NULL on the sleeping list. *)
TimerSleep(t) ==
  /\ At(t, "run")
  /\ thread_block(t, [lists EXCEPT ![SLEEPING_LIST] = Append(@, t)], thread_pl)
  /\ pc' = [pc EXCEPT ![t] = [at |-> "sleep", on |-> NULL, who |-> NULL]]
  /\ UNCHANGED <<prioVars, lockVars, value, fault>>

(* A tick finds that w has slept long enough; a tick that wakes several    *)
(* threads is several of these steps.  How long that takes is in Alarm.    *)
TimerWake(w) ==
  /\ InterruptsOn
  /\ w \in Members(lists[SLEEPING_LIST])
  /\ MakeReady(w, [lists EXCEPT ![SLEEPING_LIST] = list_remove(@, w)])
  /\ pc' = [pc EXCEPT ![w] = Run]
  /\ UNCHANGED <<prioVars, lockVars, value, fault>>

(* A tick ends the time slice of t. *)
TimerYield(t) ==
  /\ InterruptsOn /\ running = t
  /\ thread_yield(t, priority, status, lists, thread_pl)
  /\ UNCHANGED <<prioVars, lockVars, value, pc, fault>>

(* The idle thread blocks again after every interrupt. *)
IdleBlock ==
  /\ fault = "none" /\ running = IDLE
  /\ lists[READY_LIST] # <<>>
  /\ schedule(status, lists, thread_pl)
  /\ UNCHANGED <<prioVars, lockVars, value, pc, fault>>

(* debug_panic never returns. *)
Panic == fault # "none" /\ UNCHANGED vars

ThreadStep(t) ==
  \/ \E s \in Sems : SemaDown(t, s) \/ SemaTryDown(t, s)
  \/ \E s \in Semas : SemaUp(t, s) \/ ListFront(t, s) \/ ListRemove(t, s)
  \/ Unblock(t)
  \/ \E l \in Locks : \/ LockTryAcquire(t, l) \/ LockAcquireBlock(t, l)
                      \/ LockAcquireResume(t, l) \/ LockRelease(t, l)
  \/ \E p \in Priorities : thread_set_priority(t, p)
  \/ TimerSleep(t)

Next ==
  \/ \E t \in Threads : ThreadStep(t) \/ TimerWake(t) \/ TimerYield(t)
  \/ \E s \in Sems : InterruptSemaUp(s)
  \/ IdleBlock
  \/ Panic

Spec == Init /\ [][Next]_vars
-----------------------------------------------------------------------------
(* The threads that own a lock: those that have acquired it, and one that  *)
(* is in lock_release and has not upped the semaphore yet.                 *)
Owners(l) == {t \in Threads : \/ l \in acquired_locks[t]
                              \/ pc[t].at = "up" /\ pc[t].on = l}

(* Mutual exclusion, as lock_init promises ("a lock can only be owned by a *)
(* single thread at a time"): the semaphore of a lock is 1 when nobody     *)
(* owns the lock and 0 when exactly one thread does, and lock->holder is   *)
(* the thread that has the lock on its acquired_locks.                     *)
MutualExclusion ==
  \A l \in Locks :
    /\ \/ value[l] = 1 /\ Owners(l) = {}
       \/ value[l] = 0 /\ \E t \in Threads : Owners(l) = {t}
    /\ \A t \in Threads : l \in acquired_locks[t] <=> holder[l] = t

(* The lists that a thread's element is linked in. *)
Linked(t) == {l \in Lists : t \in Members(lists[l])}

(* A thread has one list element.  It is in the list its status says and   *)
(* in no other; thread_pl names that list, except on the sleeping list.  A *)
(* thread that sema_up has popped and not yet unblocked is in no list, and *)
(* exactly one thread is about to unblock it, so the assertion of          *)
(* thread_unblock never fails.                                             *)
OneList ==
  /\ \A l \in Lists : NoDuplicates(lists[l])
  /\ fault # "not_blocked"
  /\ \A t \in Threads :
       LET wakers == {u \in Threads : pc[u].at = "unblock" /\ pc[u].who = t}
       IN  /\ status[t] = "RUNNING" <=> running = t
           /\ status[t] = "RUNNING" =>
                Linked(t) = {} /\ thread_pl[t] = NULL /\ wakers = {}
           /\ status[t] = "READY" =>
                /\ Linked(t) = {READY_LIST} /\ thread_pl[t] = READY_LIST
                /\ wakers = {}
           /\ status[t] = "BLOCKED" =>
                CASE pc[t].at = "sleep" ->
                       Linked(t) = {SLEEPING_LIST} /\ wakers = {}
                  [] pc[t].at \in {"down", "acquire"} ->
                       /\ thread_pl[t] = pc[t].on
                       /\ \/ Linked(t) = {pc[t].on} /\ wakers = {}
                          \/ Linked(t) = {} /\ \E u \in Threads : wakers = {u}
                  [] OTHER -> FALSE

(* Donation moves a thread in its list as its priority changes, so every   *)
(* list that threads are taken from stays in priority order.               *)
ListsSorted ==
  \A l \in Lists \ {SLEEPING_LIST} : Sorted(lists[l], priority)



(* Donation only ever raises a priority, and a thread without a donation   *)
(* runs at its own.                                                        *)
DonationConsistent ==
  \A t \in Threads : /\ priority[t] >= original_priority[t]
                     /\ ~donated[t] => priority[t] = original_priority[t]

-----------------------------------------------------------------------------
(* Liveness.  A thread inside synch.c that is given the CPU again and      *)
(* again gets on with it (a time slice is four ticks long), the timer ends *)
(* the slice of a thread that keeps the CPU, and the idle thread blocks    *)
(* once a thread is ready.                                                 *)
KernelStep(t) == ThreadStep(t) /\ pc[t].at # "run"

Fairness ==
  /\ \A t \in Threads : SF_vars(KernelStep(t)) /\ WF_vars(TimerYield(t))
  /\ WF_vars(IdleBlock)

LiveSpec == Spec /\ Fairness

(* Threads of equal priority share the CPU: every ready thread runs,       *)
(* because list_insert_ordered puts a thread behind its equals.            *)
ReadyRuns ==
  \A t \in Threads :
    status[t] = "READY" ~> status[t] = "RUNNING" \/ fault # "none"

-----------------------------------------------------------------------------
(* What comments and assertions say of the code and the model refutes.     *)

(* lock_acquire "Acquires LOCK, sleeping until it becomes available": it   *)
(* does not dereference a NULL holder.                                     *)
HolderKnown == fault # "null_holder"
=============================================================================
