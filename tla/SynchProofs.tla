---------------------------- MODULE SynchProofs -----------------------------
(***************************************************************************)
(* Type correctness and mutual exclusion of Synch, for every number of     *)
(* threads, locks, semaphores and priorities: the lock, priority and timer *)
(* operations preserve the inductive invariant, and so does every step.    *)
(***************************************************************************)
EXTENDS SynchSemaProofs

USE NamesAssumption

(* give_lock.  The value was positive, so nobody owned the lock. *)
LEMMA TakeLockIInv ==
  ASSUME IInv, NEW t \in Threads, NEW l \in Locks, pc[t].at \notin {"sleep", "up"},
         value[l] # 0, TakeLock(t, l)
  PROVE  IInv'
<1>1. l \in Semas
  BY DEF Semas
<1>2. /\ value' = [value EXCEPT ![l] = @ - 1]
      /\ holder' = [holder EXCEPT ![l] = t]
      /\ waiting_for_tlock' = [waiting_for_tlock EXCEPT ![t] = NULL]
      /\ acquired_locks' = [acquired_locks EXCEPT ![t] = @ \union {l}]
      /\ pc' = [pc EXCEPT ![t] = Run]
      /\ UNCHANGED <<cpuVars, priority, original_priority, donated, fault>>
  BY DEF TakeLock
<1>3. value[l] = 1 /\ Owners(l) = {}
  BY DEF IInv, MutualExclusion
<1>4. value' \in [Semas -> Nat] /\ value'[l] = 0
  BY <1>1, <1>2, <1>3 DEF IInv, TypeOK
<1>5. pc' \in [Threads -> PCs]
  BY <1>2, RunPlace DEF IInv, TypeOK
<1>6. /\ holder' \in [Locks -> Threads \union {NULL}]
      /\ waiting_for_tlock' \in [Threads -> Threads \union {NULL}]
      /\ acquired_locks' \in [Threads -> SUBSET Locks]
  BY <1>2 DEF IInv, TypeOK
<1>7. TypeOK'
  BY <1>2, <1>4, <1>5, <1>6 DEF IInv, TypeOK, cpuVars
<1>8. SleepersAsleep'
  BY <1>2, RunPlace, ThreadAwake, Zenon DEF cpuVars
<1>9. /\ pc'[t].at = "run"
      /\ \A u \in Threads : u # t => pc'[u] = pc[u]
  BY <1>2, RunPlace DEF IInv, TypeOK
<1>10. /\ acquired_locks'[t] = acquired_locks[t] \union {l}
       /\ \A u \in Threads : u # t => acquired_locks'[u] = acquired_locks[u]
       /\ holder'[l] = t
       /\ \A m \in Locks : m # l => holder'[m] = holder[m] /\ value'[m] = value[m]
  BY <1>2 DEF IInv, TypeOK, Semas
<1>11. Released'
  BY <1>9, <1>10 DEF IInv, Released
<1>12. Owners(l)' = {t}
  <2>1. \A u \in Threads : u # t => u \notin Owners(l)'
    BY <1>3, <1>9, <1>10 DEF Owners
  <2>2. t \in Owners(l)'
    BY <1>10 DEF Owners
  <2> QED
    BY <2>1, <2>2 DEF Owners
<1>13. \A m \in Locks : m # l => Owners(m)' = Owners(m)
  BY <1>9, <1>10 DEF Owners
<1>14. \A u \in Threads : l \in acquired_locks'[u] <=> holder'[l] = u
  <2>1. \A u \in Threads : l \notin acquired_locks[u]
    BY <1>3 DEF Owners
  <2> QED
    BY <2>1, <1>10
<1>15. ASSUME NEW m \in Locks, m # l, NEW u \in Threads
       PROVE  m \in acquired_locks'[u] <=> holder'[m] = u
  BY <1>10, <1>15 DEF IInv, MutualExclusion
<1>16. MutualExclusion'
  <2> SUFFICES ASSUME NEW m \in Locks
               PROVE  /\ \/ value'[m] = 1 /\ Owners(m)' = {}
                         \/ value'[m] = 0 /\ \E u \in Threads : Owners(m)' = {u}
                      /\ \A u \in Threads : m \in acquired_locks'[u] <=> holder'[m] = u
    BY DEF MutualExclusion
  <2>1. CASE m = l
    BY <2>1, <1>4, <1>12, <1>14
  <2>2. CASE m # l
    BY <2>2, <1>10, <1>13, <1>15 DEF IInv, MutualExclusion
  <2> QED
    BY <2>1, <2>2
<1> QED
  BY <1>7, <1>8, <1>11, <1>16 DEF IInv

(* lock_try_acquire. *)
LEMMA LockTryAcquireIInv ==
  ASSUME IInv, NEW t \in Threads, NEW l \in Locks, LockTryAcquire(t, l)
  PROVE  IInv'
<1>1. value[l] # 0 /\ TakeLock(t, l) /\ pc[t].at \notin {"sleep", "up"}
  BY DEF LockTryAcquire, At, IInv, TypeOK, Semas
<1> QED
  BY <1>1, TakeLockIInv

(* lock_acquire of a lock that is taken, with the donation it makes. *)
LEMMA LockAcquireBlockIInv ==
  ASSUME IInv, NEW t \in Threads, NEW l \in Locks, LockAcquireBlock(t, l)
  PROVE  IInv'
<1> DEFINE h == holder[l]
           d == IF priority[t] > priority[h] THEN lock_donate(l, priority[t])
                ELSE [priority |-> priority, donated |-> donated,
                      lists |-> lists, fault |-> "none"]
<1>1. CASE h = NULL
  BY <1>1, StopIInv, Zenon DEF LockAcquireBlock, Faults
<1>2. CASE h # NULL
  <2>1. /\ d.priority \in [Threads -> Priorities]
        /\ d.donated \in [Threads -> BOOLEAN]
        /\ d.lists \in ListsType
        /\ d.lists[SLEEPING_LIST] = lists[SLEEPING_LIST]
        /\ d.fault \in Faults
    <3>1. CASE priority[t] > priority[h]
      <4>1. d = lock_donate(l, priority[t])
        BY <3>1
      <4>2. priority[t] \in Priorities /\ TypeOK
        BY DEF IInv, TypeOK
      <4>3. /\ lock_donate(l, priority[t]) \in WalkType
            /\ lock_donate(l, priority[t]).lists[SLEEPING_LIST] = lists[SLEEPING_LIST]
        BY <4>2, DonateType, Zenon
      <4> HIDE DEF d
      <4> QED
        BY <4>1, <4>3 DEF WalkType
    <3>2. CASE ~(priority[t] > priority[h])
      <4>1. d = [priority |-> priority, donated |-> donated,
                 lists |-> lists, fault |-> "none"]
        BY <3>2
      <4> HIDE DEF d
      <4> QED
        BY <4>1 DEF IInv, TypeOK, ListsType, Faults
    <3> QED
      BY <3>1, <3>2
  <2>2. /\ pc[t].at \notin {"sleep", "up"} /\ h \in Threads /\ l \in Semas
    BY <1>2 DEF LockAcquireBlock, At, IInv, TypeOK, Semas
  <2>3. CASE d.fault # "none"
    <3>1. Stop(d.fault)
      BY <1>2, <2>3, Zenon DEF LockAcquireBlock
    <3> HIDE DEF d
    <3> QED
      BY <2>1, <3>1, StopIInv
  <2>4. CASE d.fault = "none"
    <3>1. /\ waiting_for_tlock' = [waiting_for_tlock EXCEPT ![t] = h]
          /\ priority' = d.priority
          /\ donated' = d.donated
          /\ Wait(t, l, d.lists, d.priority, "acquire")
          /\ UNCHANGED <<original_priority, lockVars, value, fault>>
      BY <1>2, <2>4, Zenon DEF LockAcquireBlock
    <3> HIDE DEF d
    <3>2. /\ CpuOK' /\ pc' \in [Threads -> PCs]
          /\ MutualExclusion' /\ Released' /\ SleepersAsleep'
      BY <2>1, <2>2, <3>1, WaitType
    <3>3. waiting_for_tlock' \in [Threads -> Threads \union {NULL}]
      BY <2>2, <3>1 DEF IInv, TypeOK
    <3>4. TypeOK'
      BY <2>1, <3>1, <3>2, <3>3, Zenon
      DEF IInv, TypeOK, CpuOK, StatusType, ListsType, PlType, lockVars
    <3> QED
      BY <3>2, <3>4 DEF IInv
  <2> QED
    BY <2>3, <2>4
<1> QED
  BY <1>1, <1>2

(* Back in the loop of sema_down inside lock_acquire. *)
LEMMA LockAcquireResumeIInv ==
  ASSUME IInv, NEW t \in Threads, NEW l \in Locks, LockAcquireResume(t, l)
  PROVE  IInv'
<1>1. l \in Semas /\ pc[t].at \notin {"sleep", "up"}
  BY DEF LockAcquireResume, At, Semas
<1>2. CASE value[l] = 0
  <2>1. Wait(t, l, lists, priority, "acquire") /\ UNCHANGED <<prioVars, lockVars, value, fault>>
    BY <1>2 DEF LockAcquireResume
  <2>2. lists \in ListsType
    BY DEF IInv, TypeOK, ListsType
  <2>3. /\ CpuOK' /\ pc' \in [Threads -> PCs]
        /\ MutualExclusion' /\ Released' /\ SleepersAsleep'
    BY <1>1, <2>1, <2>2, WaitType
  <2>4. TypeOK'
    BY <2>1, <2>3 DEF IInv, TypeOK, CpuOK, StatusType, ListsType, PlType,
                      prioVars, lockVars
  <2> QED
    BY <2>3, <2>4 DEF IInv
<1>3. CASE value[l] # 0
  BY <1>1, <1>3, TakeLockIInv, Zenon DEF LockAcquireResume
<1> QED
  BY <1>2, <1>3

(* A non-empty set of priorities has a largest element. *)
LEMMA LargestPriority ==
  ASSUME NEW T, T \subseteq PRI_MIN..PRI_MAX, T # {}
  PROVE  \E p \in T : \A q \in T : p >= q
<1> DEFINE Bounds == {n \in Nat : \A q \in T : q <= n}
<1>1. PRI_MAX \in Bounds
  BY DEF PRI_MIN, PRI_MAX
<1>2. PICK m \in Bounds : \A n \in Bounds : m <= n
  BY <1>1, LeastNatural, Zenon
<1>3. m \in T
  <2> SUFFICES ASSUME m \notin T PROVE FALSE
    OBVIOUS
  <2>1. \A q \in T : q < m /\ q \in Nat
    BY DEF PRI_MIN, PRI_MAX
  <2>2. PICK q0 \in T : TRUE
    BY Zenon
  <2>3. m - 1 \in Nat
    BY <2>1, <2>2
  <2>4. \A q \in T : q <= m - 1
    BY <2>1, <2>3
  <2>5. m - 1 \in Bounds
    BY <2>3, <2>4
  <2> QED
    BY <1>2, <2>3, <2>5
<1> HIDE DEF Bounds
<1>4. \A q \in T : q <= m /\ q \in Nat /\ m \in Nat
  BY <1>2 DEF Bounds, PRI_MIN, PRI_MAX
<1> QED
  BY <1>3, <1>4

(* next_potential_donation is PRI_MIN or the priority of a thread. *)
LEMMA NextDonationType ==
  ASSUME TypeOK, NEW ls \in SUBSET Locks
  PROVE  next_potential_donation(ls) \in Priorities \union {PRI_MIN}
<1> DEFINE tops == {PRI_MIN} \union
                   {thread_list_top_pri(lists[l], priority) : l \in ls}
<1>1. ASSUME NEW l \in ls
      PROVE  thread_list_top_pri(lists[l], priority) \in Priorities \union {PRI_MIN}
  <2>1. lists[l] \in Seq(Threads)
    BY DEF TypeOK, Lists, Semas
  <2>2. lists[l] # <<>> => Head(lists[l]) \in Threads
    BY <2>1, HeadTailProperties
  <2> QED
    BY <2>2 DEF TypeOK, thread_list_top_pri
<1>2. tops \subseteq Priorities \union {PRI_MIN} /\ tops # {}
  BY <1>1
<1> HIDE DEF tops
<1>3. tops \subseteq PRI_MIN..PRI_MAX
  BY <1>2, PrioritiesAssumption DEF PRI_MIN, PRI_MAX
<1>4. \E p \in tops : \A q \in tops : p >= q
  BY <1>2, <1>3, LargestPriority, Zenon
<1>5. next_potential_donation(ls) \in tops
  BY <1>4 DEF next_potential_donation, tops
<1> QED
  BY <1>2, <1>5

(* lock_release: the ownership of the lock moves from acquired_locks to    *)
(* the place of t.                                                         *)
LEMMA LockReleaseIInv ==
  ASSUME IInv, NEW t \in Threads, NEW l \in Locks, LockRelease(t, l)
  PROVE  IInv'
<1> DEFINE rest == acquired_locks[t] \ {l}
           best == next_potential_donation(rest)
           orig == original_priority[t]
           more == rest # {} /\ orig < best
           p == [at |-> "up", on |-> l, who |-> NULL]
<1>1. /\ acquired_locks' = [acquired_locks EXCEPT ![t] = rest]
      /\ priority' = [priority EXCEPT ![t] = IF more THEN best ELSE orig]
      /\ donated' = [donated EXCEPT ![t] = more]
      /\ holder' = [holder EXCEPT ![l] = NULL]
      /\ pc' = [pc EXCEPT ![t] = p]
      /\ UNCHANGED <<cpuVars, original_priority, waiting_for_tlock, value, fault>>
      /\ pc[t].at = "run" /\ holder[l] = t
  BY DEF LockRelease, At
<1>2. rest \in SUBSET Locks /\ orig \in Priorities /\ more \in BOOLEAN
  BY DEF IInv, TypeOK
<1>3. best \in Priorities \union {PRI_MIN}
  BY <1>2, NextDonationType DEF IInv
<1>4. p \in PCs /\ p.at = "up" /\ p.on = l
  BY DEF PCs, Semas
<1> HIDE DEF best, p
<1>5. (IF more THEN best ELSE orig) \in Priorities
  <2>1. orig \in Priorities
    BY <1>2
  <2> HIDE DEF rest, orig
  <2>2. more => best \in Priorities
    <3>1. orig \in Nat
      BY <2>1, PrioritiesAssumption DEF PRI_MIN, PRI_MAX
    <3>2. ASSUME orig < best, best = PRI_MIN PROVE FALSE
      BY <3>1, <3>2 DEF PRI_MIN
    <3> QED
      BY <1>3, <3>2
  <2> HIDE DEF more
  <2> QED
    BY <1>2, <2>2
<1> HIDE DEF rest, orig, more
<1>6. /\ priority' \in [Threads -> Priorities]
      /\ donated' \in [Threads -> BOOLEAN]
      /\ holder' \in [Locks -> Threads \union {NULL}]
      /\ acquired_locks' \in [Threads -> SUBSET Locks]
  BY <1>1, <1>2, <1>5 DEF IInv, TypeOK
<1>7. pc' \in [Threads -> PCs]
  BY <1>1, <1>4 DEF IInv, TypeOK
<1>8. TypeOK'
  BY <1>1, <1>6, <1>7 DEF IInv, TypeOK, cpuVars
<1>9. SleepersAsleep'
  BY <1>1, <1>4, ThreadAwake, Zenon DEF cpuVars
<1>10. /\ pc'[t].at = "up" /\ pc'[t].on = l
       /\ \A u \in Threads : u # t => pc'[u] = pc[u]
       /\ acquired_locks'[t] = acquired_locks[t] \ {l}
       /\ \A u \in Threads : u # t => acquired_locks'[u] = acquired_locks[u]
       /\ holder'[l] = NULL
       /\ \A m \in Locks : m # l => holder'[m] = holder[m]
  BY <1>1, <1>4 DEF IInv, TypeOK, rest
<1>11. Released'
  BY <1>10 DEF IInv, Released
<1>12. value[l] = 0 /\ Owners(l) = {t}
  <2>1. t \in Owners(l)
    BY <1>1 DEF IInv, MutualExclusion, Owners
  <2> QED
    BY <2>1 DEF IInv, MutualExclusion
<1>13. Owners(l)' = {t}
  <2>1. \A u \in Threads : u # t => u \notin Owners(l)'
    BY <1>12, <1>10 DEF Owners
  <2>2. t \in Owners(l)'
    BY <1>10 DEF Owners
  <2> QED
    BY <2>1, <2>2 DEF Owners
<1>14. \A m \in Locks : m # l => Owners(m)' = Owners(m)
  BY <1>1, <1>10 DEF Owners
<1>15. \A u \in Threads : l \notin acquired_locks'[u]
  BY <1>10, <1>12 DEF Owners
<1>16. ASSUME NEW m \in Locks, m # l, NEW u \in Threads
       PROVE  m \in acquired_locks'[u] <=> holder'[m] = u
  BY <1>10, <1>16 DEF IInv, MutualExclusion
<1>17. MutualExclusion'
  <2> SUFFICES ASSUME NEW m \in Locks
               PROVE  /\ \/ value'[m] = 1 /\ Owners(m)' = {}
                         \/ value'[m] = 0 /\ \E u \in Threads : Owners(m)' = {u}
                      /\ \A u \in Threads : m \in acquired_locks'[u] <=> holder'[m] = u
    BY DEF MutualExclusion
  <2>1. CASE m = l
    BY <2>1, <1>1, <1>10, <1>12, <1>13, <1>15
  <2>2. CASE m # l
    BY <2>2, <1>1, <1>14, <1>16 DEF IInv, MutualExclusion
  <2> QED
    BY <2>1, <2>2
<1> QED
  BY <1>8, <1>9, <1>11, <1>17 DEF IInv

(* thread_set_priority. *)
LEMMA SetPriorityIInv ==
  ASSUME IInv, NEW t \in Threads, NEW p \in Priorities, thread_set_priority(t, p)
  PROVE  IInv'
<1> DEFINE keep == donated[t] /\ priority[t] >= p
           pri  == [priority EXCEPT ![t] = IF keep THEN @ ELSE p]
<1>1. /\ priority' = pri
      /\ original_priority' = [original_priority EXCEPT ![t] = p]
      /\ donated' = [donated EXCEPT ![t] = keep]
      /\ IF pri[t] < thread_list_top_pri(lists[READY_LIST], pri)
         THEN thread_yield(t, pri, status, lists, thread_pl)
         ELSE UNCHANGED cpuVars
      /\ UNCHANGED <<waiting_for_tlock, lockVars, value, pc, fault>>
  BY DEF thread_set_priority
<1>2. pri \in [Threads -> Priorities] /\ keep \in BOOLEAN
  BY DEF IInv, TypeOK
<1> HIDE DEF keep, pri
<1>3. CpuOK /\ status \in StatusType /\ lists \in ListsType /\ thread_pl \in PlType
  BY CpuOKFromType DEF IInv, CpuOK
<1>4. CpuOK' /\ lists'[SLEEPING_LIST] = lists[SLEEPING_LIST]
  <2>1. CASE pri[t] < thread_list_top_pri(lists[READY_LIST], pri)
    BY <1>1, <1>3, <2>1, YieldType, Zenon
  <2>2. CASE ~(pri[t] < thread_list_top_pri(lists[READY_LIST], pri))
    BY <1>1, <1>3, <2>2 DEF cpuVars, CpuOK
  <2> QED
    BY <2>1, <2>2
<1>5. MutualExclusion' /\ Released'
  BY <1>1, LocksUntouched
<1>6. SleepersAsleep'
  BY <1>1, <1>4, SleepersUntouched
<1>7. /\ priority' \in [Threads -> Priorities]
      /\ original_priority' \in [Threads -> Priorities]
      /\ donated' \in [Threads -> BOOLEAN]
  BY <1>1, <1>2, Zenon DEF IInv, TypeOK
<1>8. TypeOK'
  BY <1>1, <1>4, <1>7 DEF IInv, TypeOK, CpuOK, StatusType, ListsType, PlType, lockVars
<1> QED
  BY <1>5, <1>6, <1>8 DEF IInv

(* timer_sleep: the running thread is not on the sleeping list yet. *)
LEMMA TimerSleepIInv ==
  ASSUME IInv, NEW t \in Threads, TimerSleep(t)
  PROVE  IInv'
<1> DEFINE old == lists[SLEEPING_LIST]
           ls == [lists EXCEPT ![SLEEPING_LIST] = Append(@, t)]
           p == [at |-> "sleep", on |-> NULL, who |-> NULL]
<1>1. /\ thread_block(t, ls, thread_pl)
      /\ pc' = [pc EXCEPT ![t] = p]
      /\ UNCHANGED <<prioVars, lockVars, value, fault>>
      /\ pc[t].at = "run"
  BY DEF TimerSleep, At
<1>2. SLEEPING_LIST \in Lists /\ old \in Seq(Threads)
  BY DEF IInv, TypeOK, Lists
<1>3. /\ Append(old, t) \in Seq(Threads)
      /\ Len(Append(old, t)) = Len(old) + 1
      /\ \A i \in 1..Len(old) : Append(old, t)[i] = old[i]
      /\ Append(old, t)[Len(old) + 1] = t
      /\ Len(old) \in Nat
  BY <1>2, AppendProperties, LenProperties
<1>4. ls \in ListsType /\ ls[SLEEPING_LIST] = Append(old, t)
  BY <1>2, <1>3, Zenon DEF IInv, TypeOK, ListsType
<1>5. CpuOK /\ thread_pl \in PlType
  BY CpuOKFromType DEF IInv, CpuOK
<1>6. p \in PCs /\ p.at = "sleep"
  BY DEF PCs
<1> HIDE DEF old, ls, p
<1>7. CpuOK' /\ lists'[SLEEPING_LIST] = Append(old, t)
  BY <1>1, <1>4, <1>5, BlockType
<1>8. pc' \in [Threads -> PCs] /\ pc'[t].at = "sleep"
  BY <1>1, <1>6 DEF IInv, TypeOK
<1>9. \A u \in Threads : u # t => pc'[u] = pc[u]
  BY <1>1 DEF IInv, TypeOK
<1>10. MutualExclusion' /\ Released'
  BY <1>1, <1>6, OwnersKept, Zenon
<1>11. NoDuplicates(old) /\ \A i \in 1..Len(old) : old[i] \in Threads /\ old[i] # t
  BY <1>1, <1>2, ElementOfSeq DEF IInv, SleepersAsleep, Members, old
<1>12. NoDuplicates(Append(old, t))
  BY <1>3, <1>11 DEF NoDuplicates
<1>13. ASSUME NEW w \in Members(Append(old, t)) PROVE pc'[w].at = "sleep"
  <2>1. PICK i \in 1..(Len(old) + 1) : w = Append(old, t)[i]
    BY <1>3, <1>13 DEF Members
  <2>2. CASE i = Len(old) + 1
    BY <2>1, <2>2, <1>3, <1>8
  <2>3. CASE i \in 1..Len(old)
    <3>1. w = old[i] /\ w \in Members(old)
      BY <2>1, <2>3, <1>3 DEF Members
    <3>2. pc[w].at = "sleep"
      BY <3>1 DEF IInv, SleepersAsleep, old
    <3> QED
      BY <3>1, <3>2, <2>3, <1>9, <1>11
  <2> QED
    BY <2>1, <2>2, <2>3, <1>3
<1>14. SleepersAsleep'
  BY <1>7, <1>12, <1>13 DEF SleepersAsleep
<1>15. TypeOK'
  BY <1>1, <1>7, <1>8 DEF IInv, TypeOK, CpuOK, StatusType, ListsType, PlType,
                          prioVars, lockVars
<1> QED
  BY <1>10, <1>14, <1>15 DEF IInv

(* A tick wakes a sleeper. *)
LEMMA TimerWakeIInv ==
  ASSUME IInv, NEW w \in Threads, TimerWake(w)
  PROVE  IInv'
<1> DEFINE old == lists[SLEEPING_LIST]
           rest == list_remove(old, w)
           ls == [lists EXCEPT ![SLEEPING_LIST] = rest]
<1>1. /\ w \in Members(old)
      /\ MakeReady(w, ls)
      /\ pc' = [pc EXCEPT ![w] = Run]
      /\ UNCHANGED <<prioVars, lockVars, value, fault>>
  BY DEF TimerWake
<1>2. SLEEPING_LIST \in Lists /\ old \in Seq(Threads)
  BY DEF IInv, TypeOK, Lists
<1>3. NoDuplicates(old) /\ \A u \in Members(old) : pc[u].at = "sleep"
  BY Zenon DEF IInv, SleepersAsleep
<1> HIDE DEF old
<1>4. rest \in Seq(Threads)
  BY <1>1, <1>2, RemoveProperties, Zenon
<1>5. /\ Members(rest) \subseteq Members(old) /\ w \notin Members(rest)
      /\ NoDuplicates(rest)
  BY <1>1, <1>2, <1>3, RemoveMembers, RemoveKeepsOrder
<1> HIDE DEF rest
<1>6. ls \in ListsType /\ ls[SLEEPING_LIST] = rest
  BY <1>2, <1>4 DEF IInv, TypeOK, ListsType
<1>7. CpuOK
  BY CpuOKFromType DEF IInv
<1> HIDE DEF ls
<1>8. CpuOK' /\ lists'[SLEEPING_LIST] = rest
  BY <1>1, <1>6, <1>7, MakeReadyType
<1>9. pc[w].at = "sleep"
  BY <1>1, <1>3
<1>10. MutualExclusion' /\ Released'
  BY <1>1, <1>9, RunPlace, OwnersKept, Zenon
<1>11. pc' \in [Threads -> PCs] /\ \A u \in Threads : u # w => pc'[u] = pc[u]
  BY <1>1, RunPlace DEF IInv, TypeOK
<1>12. Members(rest) \subseteq Threads
  BY <1>4, ElementOfSeq DEF Members
<1>13. SleepersAsleep'
  BY <1>3, <1>5, <1>8, <1>11, <1>12 DEF SleepersAsleep
<1>14. TypeOK'
  BY <1>1, <1>8, <1>11 DEF IInv, TypeOK, CpuOK, StatusType, ListsType, PlType,
                           prioVars, lockVars
<1> QED
  BY <1>10, <1>13, <1>14 DEF IInv

(* The steps that only switch threads. *)
LEMMA SwitchIInv ==
  ASSUME IInv, (\E t \in Threads : TimerYield(t)) \/ IdleBlock
  PROVE  IInv'
<1>1. CpuOK /\ status \in StatusType /\ lists \in ListsType /\ thread_pl \in PlType
  BY CpuOKFromType DEF IInv, CpuOK
<1>2. UNCHANGED <<prioVars, lockVars, value, pc, fault>>
  BY DEF TimerYield, IdleBlock
<1>3. CpuOK' /\ lists'[SLEEPING_LIST] = lists[SLEEPING_LIST]
  <2>1. CASE \E t \in Threads : TimerYield(t)
    BY <1>1, <2>1, YieldType DEF TimerYield
  <2>2. CASE IdleBlock
    BY <1>1, <2>2, ScheduleType DEF IdleBlock
  <2> QED
    BY <2>1, <2>2
<1>4. MutualExclusion' /\ Released'
  BY <1>2, LocksUntouched
<1>5. SleepersAsleep'
  BY <1>2, <1>3, SleepersUntouched
<1>6. TypeOK'
  BY <1>2, <1>3 DEF IInv, TypeOK, CpuOK, StatusType, ListsType, PlType,
                    prioVars, lockVars
<1> QED
  BY <1>4, <1>5, <1>6 DEF IInv
-----------------------------------------------------------------------------
(* Every step of the kernel keeps the invariant. *)
LEMMA NextIInv == IInv /\ [Next]_vars => IInv'
<1> SUFFICES ASSUME IInv, [Next]_vars PROVE IInv'
  OBVIOUS
<1>1. CASE UNCHANGED vars
  <2>1. UNCHANGED <<cpuVars, prioVars, lockVars, value, pc, fault>>
    BY <1>1 DEF vars
  <2>2. MutualExclusion' /\ Released'
    BY <2>1, LocksUntouched
  <2>3. SleepersAsleep'
    BY <2>1, SleepersUntouched DEF cpuVars
  <2>4. TypeOK'
    BY <2>1 DEF IInv, TypeOK, cpuVars, prioVars, lockVars
  <2> QED
    BY <2>2, <2>3, <2>4 DEF IInv
<1>2. ASSUME NEW t \in Threads, ThreadStep(t) PROVE IInv'
  BY <1>2, SemaDownIInv, SemaTryDownIInv, SemaUpIInv, ListFrontIInv,
     ListRemoveIInv, UnblockIInv, LockTryAcquireIInv, LockAcquireBlockIInv,
     LockAcquireResumeIInv, LockReleaseIInv, SetPriorityIInv, TimerSleepIInv
  DEF ThreadStep
<1>3. ASSUME NEW t \in Threads, TimerWake(t) PROVE IInv'
  BY <1>3, TimerWakeIInv
<1>4. ASSUME NEW t \in Threads, TimerYield(t) PROVE IInv'
  BY <1>4, SwitchIInv
<1>5. ASSUME NEW s \in Sems, InterruptSemaUp(s) PROVE IInv'
  BY <1>5, InterruptSemaUpIInv
<1>6. CASE IdleBlock
  BY <1>6, SwitchIInv
<1>7. CASE Panic
  BY <1>1, <1>7 DEF Panic
<1> QED
  BY <1>1, <1>2, <1>3, <1>4, <1>5, <1>6, <1>7 DEF Next

(* The invariant holds in every reachable state. *)
THEOREM Invariance == Spec => []IInv
BY InitIInv, NextIInv, PTL DEF Spec

(* Type correctness of the scheduler and the synchronization primitives:   *)
(* every list holds threads, every place in sema_up names a thread to wake.*)
THEOREM TypeCorrect == Spec => []TypeOK
<1>1. IInv => TypeOK
  BY DEF IInv
<1> QED
  BY <1>1, Invariance, PTL

(* Mutual exclusion: lock_acquire never gives a lock to two threads, and   *)
(* lock->holder and acquired_locks agree, whatever the interleaving of     *)
(* sema_up's unprotected list operations, donation and the timer.          *)
THEOREM LocksExclusive == Spec => []MutualExclusion
<1>1. IInv => MutualExclusion
  BY DEF IInv
<1> QED
  BY <1>1, Invariance, PTL
=============================================================================
