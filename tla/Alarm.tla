------------------------------- MODULE Alarm --------------------------------
(***************************************************************************)
(* The timer (devices/timer.c) and what a tick does to the scheduler       *)
(* (thread_tick, thread_update_timers): sleeping threads are woken, time   *)
(* slices end.  Donation and blocking are in Synch.                        *)
(*                                                                         *)
(* ticks - t->start, which is all the code reads of the clock, is kept as  *)
(* elapsed[t]; it does not grow without bound.                             *)
(***************************************************************************)
EXTENDS PriorityList, Integers, FiniteSets
LOCAL INSTANCE SequencesExt

CONSTANTS
  Threads,
  Priority,    \* t->priority
  Sleeps,      \* the arguments of timer_sleep, not only positive ones
  TIME_SLICE,
  IDLE

SliceAssumption == TIME_SLICE \in Nat \ {0} /\ IDLE \notin Threads

VARIABLES
  running,
  ready,         \* ready_list
  sleeping,      \* sleeping_list
  sleep,         \* t->sleep
  elapsed,       \* timer_elapsed (t->start), while t sleeps
  thread_ticks,
  late           \* history: ticks a better thread than the running one is ready

vars == <<running, ready, sleeping, sleep, elapsed, thread_ticks, late>>

TypeOK ==
  /\ running \in Threads \union {IDLE}
  /\ ready \in Seq(Threads) /\ sleeping \in Seq(Threads)
  /\ sleep \in [Threads -> Sleeps \union {-1}]
  /\ elapsed \in [Threads -> Nat]
  /\ thread_ticks \in 0..(TIME_SLICE - 1)
  /\ late \in Nat

(* thread_init and thread_start: the idle thread runs, the others are ready. *)
Init ==
  /\ running = IDLE
  /\ ready \in {q \in [1..Cardinality(Threads) -> Threads] :
                  NoDuplicates(q) /\ Sorted(q, Priority)}
  /\ sleeping = <<>>
  /\ sleep = [t \in Threads |-> -1]
  /\ elapsed = [t \in Threads |-> 0]
  /\ thread_ticks = 0
  /\ late = 0

(* The idle thread has PRI_MIN. *)
pri(t) == IF t = IDLE THEN PRI_MIN ELSE Priority[t]

(* A thread runs although a better one is ready. *)
Inverted(r, q) == r # IDLE /\ \E t \in Members(q) : Priority[t] > pri(r)

(* schedule with ready list q; thread_schedule_tail starts a new slice. *)
schedule(q) ==
  /\ running' = IF q = <<>> THEN IDLE ELSE Head(q)
  /\ ready' = IF q = <<>> THEN q ELSE Tail(q)
  /\ thread_ticks' = 0
  /\ late' = IF Inverted(running', ready') THEN late ELSE 0

thread_yield(q) ==
  schedule(IF running = IDLE THEN q
           ELSE list_insert_ordered(q, running, Priority))

(* Mutant: a thread is woken one tick late. *)
DueLate(t) == elapsed[t] + 1 > sleep[t]


(* thread_update_timers wakes t in this tick. *)
Due(t) == elapsed[t] + 1 >= sleep[t]

(* Mutant: woken threads are put at the end of the ready list. *)
WokenLast ==
  FoldLeft(LAMBDA q, t : IF Due(t) THEN Append(q, t) ELSE q, ready, sleeping)

(* The ready list after thread_update_timers has gone through the sleepers *)
(* in the order they went to sleep.                                        *)
Woken ==
  FoldLeft(LAMBDA q, t : IF Due(t) THEN list_insert_ordered(q, t, Priority)
                         ELSE q, ready, sleeping)

(* Mutant: the slice of a thread never ends. *)
YieldsNoSlice(q) == pri(running) > thread_list_top_pri(q, Priority)

(* Does thread_tick call intr_yield_on_return?  The comparison yields when *)
(* the running thread is better than all ready ones, not when it is worse. *)
Yields(q) == \/ pri(running) > thread_list_top_pri(q, Priority)
             \/ thread_ticks + 1 >= TIME_SLICE

(* What thread_update_timers does to the sleeping list. *)
UpdateTimers ==
  /\ sleeping' = SelectSeq(sleeping, LAMBDA t : ~Due(t))
  /\ elapsed' = [t \in Threads |->
                   IF t \in Members(sleeping) /\ ~Due(t) THEN elapsed[t] + 1 ELSE 0]

(* A timer interrupt, from timer_interrupt to the thread_yield of          *)
(* intr_handler.                                                           *)
TimerInterrupt ==
  LET q == Woken
  IN  /\ UpdateTimers
      /\ IF Yields(q) THEN thread_yield(q)
         ELSE /\ ready' = q
              /\ thread_ticks' = thread_ticks + 1
              /\ late' = IF Inverted(running, q) THEN late + 1 ELSE 0
              /\ UNCHANGED running
      /\ UNCHANGED sleep

(* timer_sleep, in any thread and for any number of ticks. *)
TimerSleep(n) ==
  /\ running # IDLE
  /\ sleep' = [sleep EXCEPT ![running] = n]
  /\ elapsed' = [elapsed EXCEPT ![running] = 0]
  /\ sleeping' = Append(sleeping, running)
  /\ schedule(ready)

(* thread_yield called by the running thread. *)
Yield ==
  /\ running # IDLE
  /\ thread_yield(ready)
  /\ UNCHANGED <<sleeping, sleep, elapsed>>

(* The loop of the idle thread after an interrupt. *)
IdleBlock ==
  /\ running = IDLE /\ ready # <<>>
  /\ schedule(ready)
  /\ UNCHANGED <<sleeping, sleep, elapsed>>

Next == \/ TimerInterrupt
        \/ \E n \in Sleeps : TimerSleep(n)
        \/ Yield
        \/ IdleBlock

Spec == Init /\ [][Next]_vars
-----------------------------------------------------------------------------
(* Nobody sleeps past the tick it asked for: a thread still in the         *)
(* sleeping list has time left, at least until the next tick.              *)
NobodyOversleeps ==
  \A t \in Members(sleeping) :
    elapsed[t] < IF sleep[t] > 0 THEN sleep[t] ELSE 1

(* Nobody wakes early. *)
NobodyWakesEarly ==
  \A t \in Members(sleeping) :
    t \notin Members(sleeping') => elapsed[t] + 1 >= sleep[t]

(* thread_update_timers: whoever is asleep stays so until the tick it      *)
(* asked for and no longer.                                                *)
OnTime == NobodyWakesEarly /\ NobodyOversleeps'

(* A better thread that becomes ready waits for the rest of a slice at     *)
(* most, because the ready list is in order whoever is woken and schedule  *)
(* takes the best: this is what is left of preemption by the alarm clock.  *)
InversionBounded == late < TIME_SLICE
-----------------------------------------------------------------------------
(* What tests say and the model refutes.                                   *)

(* "when the alarm clock wakes up threads, the higher-priority threads run *)
(* first": after a tick the running thread is the best one.                *)
HigherPriorityFirst == late = 0
=============================================================================
