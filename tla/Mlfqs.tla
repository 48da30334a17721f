------------------------------- MODULE Mlfqs --------------------------------
(***************************************************************************)
(* The multi-level feedback scheduler of threads/thread.c (thread_mlfqs):  *)
(* the fixed-point load average and recent CPU use, and the priorities the *)
(* timer interrupt derives from them.  Interrupts are off in each of these *)
(* functions, so that a tick is one step.                                  *)
(*                                                                         *)
(* Threads that are not ready wait on one semaphore; its list is the one   *)
(* t->thread_pl points to.  Waking sleepers is in Alarm.                   *)
(***************************************************************************)
EXTENDS PriorityList, Integers
LOCAL INSTANCE SequencesExt

CONSTANTS
  all_list,      \* all threads, the idle one included, in order of creation
  IDLE,
  Nices,         \* arguments of thread_set_nice
  F_CONV,        \* 2^14 in the code
  TIMER_FREQ,
  TIME_SLICE,
  PRI_DEFAULT,
  MaxTicks       \* bound: ticks explored

VARIABLES
  running,
  ready,         \* ready_list
  waiters,       \* the waiters of the semaphore
  nice, recent_cpu, priority, recently_up,
  load_avg, load_avg_coefficient,
  ticks, thread_ticks

cpuvars == <<load_avg, load_avg_coefficient, ticks>>
vars == <<running, ready, waiters, nice, recent_cpu, priority, recently_up,
          cpuvars, thread_ticks>>

All == Members(all_list)
Others == All \ {IDLE}

TypeOK ==
  /\ running \in All
  /\ ready \in Seq(Others) /\ waiters \in Seq(Others)
  /\ nice \in [All -> Int] /\ recent_cpu \in [All -> Int]
  /\ priority \in [All -> PRI_MIN..PRI_MAX]
  /\ recently_up \in [All -> BOOLEAN]
  /\ load_avg \in Nat /\ load_avg_coefficient \in 0..F_CONV
  /\ ticks \in 0..MaxTicks /\ thread_ticks \in 0..(TIME_SLICE - 1)
-----------------------------------------------------------------------------
(* threads/fixed-point.h.  C's division rounds towards zero. *)
Quotient(x, y) == IF (x < 0) = (y < 0) \/ x = 0 THEN x \div y ELSE -((-x) \div y)

conv_itofp(n) == n * F_CONV
rzconv_fptoi(x) == Quotient(x, F_CONV)
mult_fpfp(x, y) == Quotient(x * y, F_CONV)
div_fpfp(x, y) == Quotient(x * F_CONV, y)


(* The value thread_calculate_priority gives to t->priority. *)
NewPriority(cpu, n) ==
  LET p == rzconv_fptoi(conv_itofp(PRI_MAX) - div_fpfp(cpu, conv_itofp(4))
                        - conv_itofp(n * 2))
  IN  IF p < PRI_MIN THEN PRI_MIN ELSE IF p > PRI_MAX THEN PRI_MAX ELSE p

(* thread_calculate_load_avg: with n threads running or ready. *)
NewLoad(n) == mult_fpfp(div_fpfp(conv_itofp(59), conv_itofp(60)), load_avg)
              + div_fpfp(conv_itofp(n), conv_itofp(60))

NewCoefficient(load) ==
  LET twice == mult_fpfp(load, conv_itofp(2))
  IN  div_fpfp(twice, twice + conv_itofp(1))
-----------------------------------------------------------------------------
(* init_thread under mlfqs; the idle thread has run and blocked. *)
Init ==
  /\ running = Head(SelectSeq(all_list, LAMBDA t : t # IDLE))
  /\ ready = Tail(SelectSeq(all_list, LAMBDA t : t # IDLE))
  /\ waiters = <<>>
  /\ nice = [t \in All |-> 0]
  /\ recent_cpu = [t \in All |-> 0]
  /\ priority = [t \in All |-> PRI_DEFAULT]
  /\ recently_up = [t \in All |-> FALSE]
  /\ load_avg = 0 /\ load_avg_coefficient = 0
  /\ ticks = 0 /\ thread_ticks = 0

(* Mutant: the thread keeps its place in its list. *)
thread_calculate_priority_in_place(s, t, cpu, n) ==
  LET pri == [s.priority EXCEPT ![t] = NewPriority(cpu, n)]
  IN  [ready |-> s.ready, waiters |-> s.waiters, priority |-> pri,
       yield |-> s.yield \/ pri[t] < thread_list_top_pri(s.ready, pri)]

(* thread_calculate_priority: t gets its new priority and its new place in *)
(* the list it is on (t->thread_pl), and the processor is to be yielded if *)
(* t is now worse than a ready thread.                                     *)
thread_calculate_priority(s, t, cpu, n) ==
  LET pri == [s.priority EXCEPT ![t] = NewPriority(cpu, n)]
      Placed(list) == IF t \in Members(list) THEN list_update_elem(list, t, pri)
                      ELSE list
      q == Placed(s.ready)
  IN  [ready |-> q, waiters |-> Placed(s.waiters), priority |-> pri,
       yield |-> s.yield \/ pri[t] < thread_list_top_pri(q, pri)]

(* schedule with ready list q; thread_schedule_tail starts a new slice. *)
schedule(q) ==
  /\ running' = IF q = <<>> THEN IDLE ELSE Head(q)
  /\ ready' = IF q = <<>> THEN q ELSE Tail(q)
  /\ thread_ticks' = 0

thread_yield(q, pri) ==
  schedule(IF running = IDLE THEN q ELSE list_insert_ordered(q, running, pri))

(* Mutant: once a second only the running thread is marked. *)
UpNoDecay(second) == [recently_up EXCEPT ![running] = running # IDLE \/ @]

(* t->recently_up before the priorities are updated: set for the running   *)
(* thread, and once a second for all by thread_calculate_recent_cpu.       *)
Up(second) == IF second THEN [t \in All |-> TRUE]
              ELSE [recently_up EXCEPT ![running] = running # IDLE \/ @]

(* timer_interrupt and thread_tick, with the thread_yield of intr_handler. *)
Tick ==
  LET now == ticks + 1
      second == now % TIMER_FREQ = 0
      slice == now % TIME_SLICE = 0
      used == IF running = IDLE THEN recent_cpu
              ELSE [recent_cpu EXCEPT ![running] = @ + conv_itofp(1)]
      load == NewLoad(Len(ready) + IF running = IDLE THEN 0 ELSE 1)
      up == Up(second)
      before == [ready |-> ready, waiters |-> waiters, priority |-> priority,
                 yield |-> priority[running] > thread_list_top_pri(ready, priority)]
      thread_update_priorities(s, t) ==
        IF up[t] THEN thread_calculate_priority(s, t, recent_cpu'[t], nice[t]) ELSE s
      after == IF slice THEN FoldLeft(thread_update_priorities, before, all_list)
               ELSE before
  IN  /\ now <= MaxTicks
      /\ ticks' = now
      /\ load_avg' = IF second THEN load ELSE load_avg
      /\ load_avg_coefficient' =
           IF second THEN NewCoefficient(load) ELSE load_avg_coefficient
      /\ recent_cpu' =
           IF second
           THEN [t \in All |-> mult_fpfp(load_avg_coefficient', used[t])
                               + conv_itofp(nice[t])]
           ELSE used
      /\ recently_up' = IF slice THEN [t \in All |-> FALSE] ELSE up
      /\ priority' = after.priority
      /\ waiters' = after.waiters
      /\ IF after.yield \/ thread_ticks + 1 >= TIME_SLICE
         THEN thread_yield(after.ready, after.priority)
         ELSE /\ ready' = after.ready
              /\ thread_ticks' = thread_ticks + 1
              /\ UNCHANGED running
      /\ UNCHANGED nice

(* thread_set_nice. *)
SetNice(n) ==
  LET s == thread_calculate_priority([ready |-> ready, waiters |-> waiters,
                                      priority |-> priority, yield |-> FALSE],
                                     running, recent_cpu[running], n)
  IN  /\ running # IDLE
      /\ nice' = [nice EXCEPT ![running] = n]
      /\ priority' = s.priority
      /\ IF s.yield THEN thread_yield(ready, s.priority)
         ELSE UNCHANGED <<running, ready, thread_ticks>>
      /\ UNCHANGED <<waiters, recent_cpu, recently_up, cpuvars>>

(* sema_down of a semaphore that is 0. *)
Block ==
  /\ running # IDLE
  /\ waiters' = list_insert_ordered(waiters, running, priority)
  /\ schedule(ready)
  /\ UNCHANGED <<nice, recent_cpu, priority, recently_up, cpuvars>>

(* sema_up: the first waiter becomes ready, and runs if it is better.  The *)
(* moments at which sema_up itself can be interrupted are in Synch.        *)
Unblock ==
  LET q == list_insert_ordered(ready, Head(waiters), priority)
  IN  /\ running # IDLE /\ waiters # <<>>
      /\ waiters' = Tail(waiters)
      /\ IF priority[running] < thread_list_top_pri(q, priority)
         THEN thread_yield(q, priority)
         ELSE ready' = q /\ UNCHANGED <<running, thread_ticks>>
      /\ UNCHANGED <<nice, recent_cpu, priority, recently_up, cpuvars>>

(* The same by an interrupt handler, which does not yield. *)
UnblockFromInterrupt ==
  /\ waiters # <<>>
  /\ waiters' = Tail(waiters)
  /\ ready' = list_insert_ordered(ready, Head(waiters), priority)
  /\ UNCHANGED <<running, thread_ticks, nice, recent_cpu, priority, recently_up,
                 cpuvars>>

(* The loop of the idle thread after an interrupt. *)
IdleBlock ==
  /\ running = IDLE /\ ready # <<>>
  /\ schedule(ready)
  /\ UNCHANGED <<waiters, nice, recent_cpu, priority, recently_up, cpuvars>>

Next == Tick \/ Block \/ Unblock \/ UnblockFromInterrupt \/ IdleBlock
        \/ \E n \in Nices : SetNice(n)

Spec == Init /\ [][Next]_vars
-----------------------------------------------------------------------------
(* p is PRI_MAX - recent_cpu / 4 - 2 * nice, computed exactly, limited to  *)
(* the range of priorities and rounded down or up.                         *)
Agrees(p, cpu, n) ==
  LET unit == 4 * F_CONV
      exact == unit * (PRI_MAX - 2 * n) - cpu
      top == unit * PRI_MAX
      limited == IF exact < 0 THEN 0 ELSE IF exact > top THEN top ELSE exact
  IN  p * unit - limited \in (1 - unit)..(unit - 1)

(* A thread whose recent CPU use has not been marked since the last slice  *)
(* has the priority that the comment in thread_calculate_priority gives    *)
(* for its present CPU use and niceness, whichever list it has been on.    *)
(* Threads that were never marked nor made nice still have PRI_DEFAULT.    *)
PrioritiesFresh ==
  \A t \in All : \/ recently_up[t]
                 \/ Agrees(priority[t], recent_cpu[t], nice[t])
                 \/ priority[t] = PRI_DEFAULT /\ nice[t] = 0 /\ recent_cpu[t] = 0

(* The re-sorting of thread_calculate_priority, one thread after another   *)
(* while the priorities of the others are still old, leaves the ready list *)
(* and the waiters of a semaphore sorted.                                  *)
ListsInOrder == Sorted(ready, priority) /\ Sorted(waiters, priority)
=============================================================================
