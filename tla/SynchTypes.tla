----------------------------- MODULE SynchTypes -----------------------------
(***************************************************************************)
(* Typing of the scheduler and of priority donation, the inductive         *)
(* invariant of Synch, and the lemmas each action of SynchProofs uses.     *)
(***************************************************************************)
EXTENDS Synch, PriorityListProofs, FiniteSetTheorems

USE NamesAssumption


(* The types of the scheduler's state, as a lemma on schedule needs them. *)
StatusType == [Threads -> Statuses]
ListsType  == [Lists -> Seq(Threads)]
PlType     == [Threads -> Semas \union {READY_LIST, NULL}]
CpuOK == /\ running \in Threads \union {IDLE}
         /\ status \in StatusType
         /\ lists \in ListsType
         /\ thread_pl \in PlType

(* schedule takes the front of the ready list and touches no other list. *)
LEMMA ScheduleType ==
  ASSUME NEW st \in StatusType, NEW ls \in ListsType, NEW pl \in PlType,
         schedule(st, ls, pl)
  PROVE  CpuOK' /\ lists'[SLEEPING_LIST] = ls[SLEEPING_LIST]
<1> DEFINE ready == ls[READY_LIST]
<1>1. READY_LIST \in Lists /\ SLEEPING_LIST \in Lists /\ ready \in Seq(Threads)
  BY DEF Lists, ListsType
<1>2. CASE ready = <<>>
  BY <1>1, <1>2 DEF schedule, CpuOK
<1>3. CASE ready # <<>>
  <2>1. Head(ready) \in Threads /\ Tail(ready) \in Seq(Threads)
    BY <1>1, <1>3, HeadTailProperties
  <2>2. /\ running' = Head(ready)
        /\ status' = [st EXCEPT ![Head(ready)] = "RUNNING"]
        /\ lists' = [ls EXCEPT ![READY_LIST] = Tail(ready)]
        /\ thread_pl' = [pl EXCEPT ![Head(ready)] = NULL]
    BY <1>3 DEF schedule
  <2> QED
    BY <2>1, <2>2, <1>1
    DEF CpuOK, StatusType, ListsType, PlType, Statuses
<1> QED
  BY <1>2, <1>3

(* thread_block schedules: the same holds of it. *)
LEMMA BlockType ==
  ASSUME NEW t \in Threads, NEW ls \in ListsType, NEW pl \in PlType, CpuOK,
         thread_block(t, ls, pl)
  PROVE  CpuOK' /\ lists'[SLEEPING_LIST] = ls[SLEEPING_LIST]
<1>1. [status EXCEPT ![t] = "BLOCKED"] \in StatusType
  BY DEF CpuOK, StatusType, Statuses
<1> QED
  BY <1>1, ScheduleType DEF thread_block

(* Inserting a thread in one of the lists keeps their type. *)
LEMMA InsertType ==
  ASSUME NEW ls \in ListsType, NEW l \in Lists, NEW t \in Threads, NEW pri
  PROVE  [ls EXCEPT ![l] = list_insert_ordered(@, t, pri)] \in ListsType
<1>1. ls[l] \in Seq(Threads)
  BY DEF ListsType
<1>2. list_insert_ordered(ls[l], t, pri) \in Seq(Threads)
  BY <1>1, InsertProperties
<1> QED
  BY <1>2 DEF ListsType

(* Inserting in the ready list leaves the sleeping list alone. *)
LEMMA InsertReadyType ==
  ASSUME NEW ls \in ListsType, NEW t \in Threads, NEW pri
  PROVE  LET r == [ls EXCEPT ![READY_LIST] =
                     list_insert_ordered(ls[READY_LIST], t, pri)]
         IN  r \in ListsType /\ r[SLEEPING_LIST] = ls[SLEEPING_LIST]
<1>1. READY_LIST \in Lists /\ SLEEPING_LIST \in Lists
  BY DEF Lists
<1> DEFINE r == [ls EXCEPT ![READY_LIST] =
                   list_insert_ordered(ls[READY_LIST], t, pri)]
<1>2. r \in ListsType
  BY <1>1, InsertType
<1>3. r[SLEEPING_LIST] = ls[SLEEPING_LIST]
  BY <1>1 DEF ListsType
<1> QED
  BY <1>2, <1>3

(* thread_yield inserts the thread in the ready list and schedules. *)
LEMMA YieldType ==
  ASSUME NEW t \in Threads, NEW pri, NEW st \in StatusType,
         NEW ls \in ListsType, NEW pl \in PlType,
         thread_yield(t, pri, st, ls, pl)
  PROVE  CpuOK' /\ lists'[SLEEPING_LIST] = ls[SLEEPING_LIST]
<1> DEFINE st2 == [st EXCEPT ![t] = "READY"]
           ls2 == [ls EXCEPT ![READY_LIST] = list_insert_ordered(@, t, pri)]
           pl2 == [pl EXCEPT ![t] = READY_LIST]
<1>1. st2 \in StatusType /\ pl2 \in PlType
  BY DEF StatusType, PlType, Statuses
<1>2. ls2 \in ListsType /\ ls2[SLEEPING_LIST] = ls[SLEEPING_LIST]
  BY InsertReadyType
<1>3. schedule(st2, ls2, pl2)
  BY DEF thread_yield
<1> HIDE DEF st2, ls2, pl2
<1> QED
  BY <1>1, <1>2, <1>3, ScheduleType

(* thread_unblock without preemption only adds to the ready list. *)
LEMMA MakeReadyType ==
  ASSUME NEW w \in Threads, NEW ls \in ListsType, CpuOK, MakeReady(w, ls)
  PROVE  CpuOK' /\ lists'[SLEEPING_LIST] = ls[SLEEPING_LIST]
<1>1. lists' \in ListsType /\ lists'[SLEEPING_LIST] = ls[SLEEPING_LIST]
  BY InsertReadyType, Zenon DEF MakeReady
<1> QED
  BY <1>1 DEF CpuOK, MakeReady, StatusType, PlType, Statuses

(* thread_unblock keeps the types, whether it yields or not. *)
LEMMA UnblockType ==
  ASSUME NEW t \in Threads, NEW w \in Threads, CpuOK, thread_unblock(t, w)
  PROVE  CpuOK' /\ lists'[SLEEPING_LIST] = lists[SLEEPING_LIST]
<1> DEFINE ready == list_insert_ordered(lists[READY_LIST], w, priority)
           st == [status EXCEPT ![w] = "READY"]
           ls == [lists EXCEPT ![READY_LIST] = ready]
           pl == [thread_pl EXCEPT ![w] = READY_LIST]
<1>1. CASE priority[t] < thread_list_top_pri(ready, priority)
  <2>1. st \in StatusType /\ pl \in PlType
    BY DEF CpuOK, StatusType, PlType, Statuses
  <2>2. ls \in ListsType /\ ls[SLEEPING_LIST] = lists[SLEEPING_LIST]
    BY InsertReadyType DEF CpuOK
  <2>3. thread_yield(t, priority, st, ls, pl)
    BY <1>1 DEF thread_unblock
  <2> HIDE DEF st, ls, pl
  <2> QED
    BY <2>1, <2>2, <2>3, YieldType
<1>2. CASE ~(priority[t] < thread_list_top_pri(ready, priority))
  <2>1. MakeReady(w, lists)
    BY <1>2 DEF thread_unblock
  <2> QED
    BY <2>1, MakeReadyType DEF CpuOK
<1> QED
  BY <1>1, <1>2
-----------------------------------------------------------------------------
(* The record that the walk of lock_donate carries. *)
WalkType ==
  [cur: Threads \union {NULL}, pri: Priorities,
   priority: [Threads -> Priorities], donated: [Threads -> BOOLEAN],
   lists: ListsType, fault: Faults]

(* The receiver of a donation moves in a list other than the sleeping list. *)
LEMMA ReceiveType ==
  ASSUME TypeOK, NEW d \in WalkType, d.cur \in Threads,
         NEW pl \in Lists \ {SLEEPING_LIST}, d.cur \in Members(d.lists[pl])
  PROVE  /\ Receive(d, pl) \in WalkType
         /\ Receive(d, pl).lists[SLEEPING_LIST] = d.lists[SLEEPING_LIST]
<1> DEFINE pri == [d.priority EXCEPT ![d.cur] = d.pri]
           moved == list_update_elem(d.lists[pl], d.cur, pri)
           ls == [d.lists EXCEPT ![pl] = moved]
           don == [d.donated EXCEPT ![d.cur] = TRUE]
<1>1. d.lists \in ListsType /\ d.lists[pl] \in Seq(Threads)
  BY DEF WalkType, ListsType
<1>2. list_remove(d.lists[pl], d.cur) \in Seq(Threads)
  BY <1>1, RemoveProperties
<1>3. moved \in Seq(Threads)
  BY <1>2, InsertProperties DEF list_update_elem
<1>4. pri \in [Threads -> Priorities] /\ don \in [Threads -> BOOLEAN]
  BY DEF WalkType
<1>5. waiting_for_tlock[d.cur] \in Threads \union {NULL}
  BY DEF TypeOK
<1> HIDE DEF moved
<1>6. ls \in ListsType /\ ls[SLEEPING_LIST] = d.lists[SLEEPING_LIST]
  BY <1>1, <1>3 DEF ListsType, Lists
<1>7. Receive(d, pl) = [cur |-> waiting_for_tlock[d.cur], pri |-> d.pri,
                        priority |-> pri, donated |-> don, lists |-> ls,
                        fault |-> "none"]
  BY DEF Receive, moved
<1>8. d.pri \in Priorities
  BY DEF WalkType
<1> HIDE DEF pri, ls, don
<1> QED
  BY <1>4, <1>5, <1>6, <1>7, <1>8 DEF WalkType, Faults

(* One hop of a donation keeps the types and leaves the sleeping list alone. *)
LEMMA HopType ==
  ASSUME TypeOK, NEW d \in WalkType
  PROVE  /\ Hop(d) \in WalkType
         /\ Hop(d).lists[SLEEPING_LIST] = d.lists[SLEEPING_LIST]
<1>1. ASSUME NEW f \in Faults
      PROVE  /\ [d EXCEPT !.fault = f] \in WalkType
             /\ [d EXCEPT !.fault = f].lists = d.lists
  BY DEF WalkType
<1>2. /\ [d EXCEPT !.cur = NULL] \in WalkType
      /\ [d EXCEPT !.cur = NULL].lists = d.lists
  BY DEF WalkType
<1>3. CASE d.cur = NULL \/ d.fault # "none"
  <2>1. Hop(d) = d
    BY <1>3, Zenon DEF Hop
  <2> QED
    BY <2>1
<1>4. CASE ~(d.cur = NULL \/ d.fault # "none") /\ d.priority[d.cur] >= d.pri
  <2>1. Hop(d) = [d EXCEPT !.cur = NULL]
    BY <1>4, Zenon DEF Hop
  <2> QED
    BY <1>2, <2>1, Zenon
<1>5. CASE ~(d.cur = NULL \/ d.fault # "none") /\ ~(d.priority[d.cur] >= d.pri)
  <2> DEFINE pl == thread_pl[d.cur]
  <2>1. d.cur \in Threads
    BY <1>5 DEF WalkType
  <2>2. Hop(d) = Donate(d)
    BY <1>5, Zenon DEF Hop
  <2>3. CASE pl = NULL
    <3>1. Donate(d) = [d EXCEPT !.fault = "null_list"]
      BY <2>3, Zenon DEF Donate
    <3>2. "null_list" \in Faults
      BY DEF Faults
    <3> QED
      BY <3>1, <3>2, <2>2, <1>1, Zenon
  <2>4. CASE pl # NULL /\ d.cur \notin Members(d.lists[pl])
    <3>1. Donate(d) = [d EXCEPT !.fault = "unlinked"]
      BY <2>4, Zenon DEF Donate
    <3>2. "unlinked" \in Faults
      BY DEF Faults
    <3> QED
      BY <3>1, <3>2, <2>2, <1>1, Zenon
  <2>5. CASE pl # NULL /\ d.cur \in Members(d.lists[pl])
    <3>1. Donate(d) = Receive(d, pl)
      BY <2>5, Zenon DEF Donate
    <3>2. pl \in Lists \ {SLEEPING_LIST}
      BY <2>1, <2>5, Zenon DEF TypeOK, Lists, Semas
    <3> HIDE DEF pl
    <3> QED
      BY <2>1, <2>2, <2>5, <3>1, <3>2, ReceiveType
  <2> QED
    BY <2>3, <2>4, <2>5
<1> QED
  BY <1>3, <1>4, <1>5

(* The whole walk. *)
LEMMA DonateType ==
  ASSUME TypeOK, NEW l \in Locks, NEW p \in Priorities
  PROVE  /\ lock_donate(l, p) \in WalkType
         /\ lock_donate(l, p).lists[SLEEPING_LIST] = lists[SLEEPING_LIST]
<1> DEFINE d0 == [cur |-> holder[l], pri |-> p, priority |-> priority,
                  donated |-> donated, lists |-> lists, fault |-> "none"]
           OK(d) == /\ d \in WalkType
                    /\ d.lists[SLEEPING_LIST] = lists[SLEEPING_LIST]
<1>1. OK(d0)
  BY DEF TypeOK, WalkType, ListsType, Faults
<1>2. \A d : OK(d) => OK(Hop(d))
  BY HopType
<1> HIDE DEF OK, d0
<1>3. \A d : OK(d) => OK(ThreeHops(d))
  BY <1>2 DEF ThreeHops
<1>4. OK(ThreeHops(ThreeHops(ThreeHops(d0))))
  BY <1>1, <1>3
<1> QED
  BY <1>4 DEF OK, d0, lock_donate
-----------------------------------------------------------------------------
(* A thread in the second half of lock_release no longer has the lock on   *)
(* its acquired_locks, so that sema_up ends its ownership.                 *)
Released ==
  \A t \in Threads : pc[t].at = "up" => pc[t].on \notin acquired_locks[t]

(* A thread on the sleeping list is there once and is in timer_sleep, so   *)
(* waking it does not throw it out of lock_release.                        *)
SleepersAsleep ==
  /\ NoDuplicates(lists[SLEEPING_LIST])
  /\ \A w \in Members(lists[SLEEPING_LIST]) : pc[w].at = "sleep"

(* Mutual exclusion alone is not inductive. *)
IInv == TypeOK /\ MutualExclusion /\ Released /\ SleepersAsleep

(* The kernel boots into the invariant. *)
LEMMA InitIInv == Init => IInv
<1> SUFFICES ASSUME Init PROVE IInv
  OBVIOUS
<1> DEFINE n == Cardinality(Threads)
<1>1. n \in Nat
  BY ThreadsAssumption, FS_CardinalityType
<1>2. PICK q \in [1..n -> Threads] :
        lists = [l \in Lists |-> IF l = READY_LIST THEN q ELSE <<>>]
  BY DEF Init
<1>3. q \in Seq(Threads) /\ <<>> \in Seq(Threads)
  BY <1>1, SeqDef, EmptySeq
<1>4. lists \in [Lists -> Seq(Threads)]
  BY <1>2, <1>3
<1>5. pc \in [Threads -> PCs]
  BY DEF Init, Run, PCs
<1>6. value \in [Semas -> Nat]
  BY DEF Init
<1>7. TypeOK
  BY <1>4, <1>5, <1>6 DEF Init, TypeOK, Statuses, Faults
<1>8. MutualExclusion
  <2> SUFFICES ASSUME NEW l \in Locks
               PROVE  /\ value[l] = 1 /\ Owners(l) = {}
                      /\ \A t \in Threads : l \in acquired_locks[t] <=> holder[l] = t
    BY DEF MutualExclusion
  <2>1. value[l] = 1
    BY DEF Init
  <2>2. Owners(l) = {}
    BY DEF Init, Owners, Run
  <2> QED
    BY <2>1, <2>2 DEF Init
<1>9. Released
  BY DEF Released, Init, Run
<1>10. lists[SLEEPING_LIST] = <<>>
  BY <1>2 DEF Lists
<1>11. SleepersAsleep
  BY <1>10, EmptySeq DEF SleepersAsleep, NoDuplicates, Members
<1> QED
  BY <1>7, <1>8, <1>9, <1>11 DEF IInv

(* The part of the invariant that is about locks depends on who owns what  *)
(* and on the places of threads in lock_release only.                      *)
LEMMA LocksUntouched ==
  ASSUME IInv, UNCHANGED lockVars,
         \A l \in Locks : value'[l] = value[l],
         \A t \in Threads : /\ pc'[t].at = "up" <=> pc[t].at = "up"
                            /\ pc'[t].at = "up" => pc'[t].on = pc[t].on
  PROVE  MutualExclusion' /\ Released'
<1>1. \A l \in Locks : Owners(l)' = Owners(l)
  BY DEF Owners, lockVars
<1>2. MutualExclusion'
  BY <1>1 DEF IInv, MutualExclusion, lockVars
<1>3. Released'
  BY DEF IInv, Released, lockVars
<1> QED
  BY <1>2, <1>3

(* A step that leaves the sleeping list alone keeps the sleepers asleep if *)
(* it moves no thread out of timer_sleep.                                  *)
LEMMA SleepersUntouched ==
  ASSUME IInv, lists'[SLEEPING_LIST] = lists[SLEEPING_LIST],
         \A t \in Threads : pc[t].at = "sleep" => pc'[t].at = "sleep"
  PROVE  SleepersAsleep'
<1>1. lists[SLEEPING_LIST] \in Seq(Threads)
  BY DEF IInv, TypeOK, Lists
<1>2. Members(lists[SLEEPING_LIST]) \subseteq Threads
  BY <1>1, ElementOfSeq DEF Members
<1> QED
  BY <1>2 DEF IInv, SleepersAsleep

(* A panic changes nothing but the fault. *)
LEMMA StopIInv ==
  ASSUME IInv, NEW f \in Faults, Stop(f)
  PROVE  IInv'
<1>1. UNCHANGED <<lockVars, value, pc>>
  BY DEF Stop
<1>2. MutualExclusion' /\ Released'
  BY <1>1, LocksUntouched
<1>3. SleepersAsleep'
  BY SleepersUntouched DEF Stop, cpuVars
<1>4. TypeOK'
  BY DEF IInv, TypeOK, Stop, cpuVars, prioVars, lockVars
<1> QED
  BY <1>2, <1>3, <1>4 DEF IInv
-----------------------------------------------------------------------------
(* One lemma per action.  The running thread is awake: a step of a thread  *)
(* that is at a place of synch.c moves no sleeper.                         *)

(* A step of t inside a semaphore operation that is not a lock's. *)
LEMMA ThreadAwake ==
  ASSUME IInv, NEW t \in Threads, NEW p \in PCs, pc[t].at # "sleep",
         pc' = [pc EXCEPT ![t] = p], lists'[SLEEPING_LIST] = lists[SLEEPING_LIST]
  PROVE  SleepersAsleep'
<1>1. \A u \in Threads : pc[u].at = "sleep" => pc'[u].at = "sleep"
  BY DEF IInv, TypeOK
<1> QED
  BY <1>1, SleepersUntouched

(* A step that moves t between places other than the end of lock_release   *)
(* and changes no lock leaves their ownership as it was.                   *)
LEMMA OwnersKept ==
  ASSUME IInv, NEW t \in Threads, NEW p \in PCs, pc[t].at # "up", p.at # "up",
         pc' = [pc EXCEPT ![t] = p], UNCHANGED lockVars,
         \A l \in Locks : value'[l] = value[l]
  PROVE  MutualExclusion' /\ Released'
<1>1. \A u \in Threads : /\ pc'[u].at = "up" <=> pc[u].at = "up"
                         /\ pc'[u].at = "up" => pc'[u].on = pc[u].on
  BY DEF IInv, TypeOK
<1> QED
  BY <1>1, LocksUntouched

(* The body of the loop of sema_down: t joins the waiters and blocks. *)
LEMMA WaitType ==
  ASSUME IInv, NEW t \in Threads, NEW s \in Semas, NEW ls \in ListsType, NEW pri,
         NEW place \in {"down", "acquire"},
         ls[SLEEPING_LIST] = lists[SLEEPING_LIST],
         pc[t].at \notin {"sleep", "up"}, Wait(t, s, ls, pri, place),
         UNCHANGED lockVars, \A l \in Locks : value'[l] = value[l]
  PROVE  /\ CpuOK' /\ pc' \in [Threads -> PCs]
         /\ MutualExclusion' /\ Released' /\ SleepersAsleep'
<1> DEFINE ls2 == [ls EXCEPT ![s] = list_insert_ordered(@, t, pri)]
           pl == [thread_pl EXCEPT ![t] = s]
           p == [at |-> place, on |-> s, who |-> NULL]
<1>1. s \in Lists /\ s # SLEEPING_LIST /\ SLEEPING_LIST \in Lists
  BY DEF Lists, Semas
<1>2. ls2 \in ListsType
  BY <1>1, InsertType
<1>3. ls2[SLEEPING_LIST] = lists[SLEEPING_LIST]
  BY <1>1 DEF ListsType
<1>4. pl \in PlType /\ CpuOK
  BY DEF IInv, TypeOK, PlType, CpuOK, StatusType, ListsType
<1>5. thread_block(t, ls2, pl) /\ pc' = [pc EXCEPT ![t] = p]
  BY DEF Wait
<1>6. p \in PCs /\ p.at # "up"
  BY DEF PCs
<1> HIDE DEF ls2, pl, p
<1>7. CpuOK' /\ lists'[SLEEPING_LIST] = lists[SLEEPING_LIST]
  BY <1>2, <1>3, <1>4, <1>5, BlockType
<1>8. pc' \in [Threads -> PCs]
  BY <1>5, <1>6 DEF IInv, TypeOK
<1>9. MutualExclusion' /\ Released'
  BY <1>5, <1>6, OwnersKept, Zenon
<1>10. SleepersAsleep'
  BY <1>5, <1>6, <1>7, ThreadAwake, Zenon
<1> QED
  BY <1>7, <1>8, <1>9, <1>10

(* TypeOK gives the types of the scheduler's state. *)
LEMMA CpuOKFromType == TypeOK => CpuOK
BY DEF TypeOK, CpuOK, StatusType, ListsType, PlType

(* The places of a thread that runs outside synch.c. *)
LEMMA RunPlace == Run \in PCs /\ Run.at = "run"
BY DEF Run, PCs
=============================================================================
