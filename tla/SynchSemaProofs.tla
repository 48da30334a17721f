-------------------------- MODULE SynchSemaProofs ---------------------------
(***************************************************************************)
(* The semaphore operations preserve the inductive invariant of Synch.     *)
(***************************************************************************)
EXTENDS SynchTypes

USE NamesAssumption

(* sema_down, for a semaphore that is not a lock's. *)
LEMMA SemaDownIInv ==
  ASSUME IInv, NEW t \in Threads, NEW s \in Sems, SemaDown(t, s)
  PROVE  IInv'
<1>1. s \in Semas /\ s \notin Locks /\ pc[t].at \notin {"sleep", "up"}
  BY DEF SemaDown, At, Semas
<1>2. CASE value[s] = 0
  <2>1. Wait(t, s, lists, priority, "down") /\ UNCHANGED <<value, prioVars, lockVars, fault>>
    BY <1>2 DEF SemaDown
  <2>2. lists \in ListsType
    BY DEF IInv, TypeOK, ListsType
  <2>3. /\ CpuOK' /\ pc' \in [Threads -> PCs]
        /\ MutualExclusion' /\ Released' /\ SleepersAsleep'
    BY <1>1, <2>1, <2>2, WaitType
  <2>4. TypeOK'
    BY <2>1, <2>3 DEF IInv, TypeOK, CpuOK, StatusType, ListsType, PlType,
                      prioVars, lockVars
  <2> QED
    BY <2>3, <2>4 DEF IInv
<1>3. CASE value[s] # 0
  <2>1. /\ value' = [value EXCEPT ![s] = @ - 1]
        /\ pc' = [pc EXCEPT ![t] = Run]
        /\ UNCHANGED <<cpuVars, prioVars, lockVars, fault>>
    BY <1>3 DEF SemaDown
  <2>2. \A l \in Locks : value'[l] = value[l]
    BY <1>1, <2>1 DEF IInv, TypeOK, Semas
  <2>3. value' \in [Semas -> Nat]
    BY <1>1, <1>3, <2>1 DEF IInv, TypeOK
  <2>4. pc' \in [Threads -> PCs]
    BY <2>1, RunPlace DEF IInv, TypeOK
  <2>5. TypeOK'
    BY <2>1, <2>3, <2>4 DEF IInv, TypeOK, cpuVars, prioVars, lockVars
  <2>6. MutualExclusion' /\ Released'
    BY <1>1, <2>1, <2>2, RunPlace, OwnersKept, Zenon
  <2>7. SleepersAsleep'
    BY <1>1, <2>1, RunPlace, ThreadAwake, Zenon DEF cpuVars
  <2> QED
    BY <2>5, <2>6, <2>7 DEF IInv
<1> QED
  BY <1>2, <1>3

(* sema_try_down, for a semaphore that is not a lock's. *)
LEMMA SemaTryDownIInv ==
  ASSUME IInv, NEW t \in Threads, NEW s \in Sems, SemaTryDown(t, s)
  PROVE  IInv'
<1>1. s \in Semas /\ s \notin Locks
  BY DEF Semas
<1>2. /\ value[s] > 0 /\ value' = [value EXCEPT ![s] = @ - 1]
      /\ UNCHANGED <<cpuVars, prioVars, lockVars, pc, fault>>
  BY DEF SemaTryDown
<1>3. value' \in [Semas -> Nat] /\ \A l \in Locks : value'[l] = value[l]
  BY <1>1, <1>2 DEF IInv, TypeOK, Semas
<1>4. MutualExclusion' /\ Released'
  BY <1>2, <1>3, LocksUntouched
<1>5. SleepersAsleep'
  BY <1>2, SleepersUntouched DEF cpuVars
<1>6. TypeOK'
  BY <1>2, <1>3 DEF IInv, TypeOK, cpuVars, prioVars, lockVars
<1> QED
  BY <1>4, <1>5, <1>6 DEF IInv

(* sema_up.  At the end of lock_release it ends the ownership of the lock, *)
(* which t alone still had.                                                *)
LEMMA SemaUpIInv ==
  ASSUME IInv, NEW t \in Threads, NEW s \in Semas, SemaUp(t, s)
  PROVE  IInv'
<1> DEFINE p == IF lists[s] = <<>> THEN Run
                ELSE [at |-> "pop", on |-> s, who |-> NULL]
<1>1. /\ value' = [value EXCEPT ![s] = @ + 1]
      /\ pc' = [pc EXCEPT ![t] = p]
      /\ UNCHANGED <<cpuVars, prioVars, lockVars, fault>>
  BY DEF SemaUp
<1>2. p \in PCs /\ p.at # "up" /\ pc[t].at # "sleep"
  BY RunPlace DEF PCs, SemaUp, At
<1> HIDE DEF p
<1>3. value' \in [Semas -> Nat] /\ pc' \in [Threads -> PCs]
  BY <1>1, <1>2 DEF IInv, TypeOK
<1>4. TypeOK'
  BY <1>1, <1>3 DEF IInv, TypeOK, cpuVars, prioVars, lockVars
<1>5. SleepersAsleep'
  BY <1>1, <1>2, ThreadAwake, Zenon DEF cpuVars
<1>6. CASE pc[t].at = "run" /\ s \in Sems
  <2>1. \A l \in Locks : value'[l] = value[l]
    BY <1>1, <1>6 DEF IInv, TypeOK, Semas
  <2>2. MutualExclusion' /\ Released'
    BY <1>1, <1>2, <1>6, <2>1, OwnersKept, Zenon
  <2> QED
    BY <1>4, <1>5, <2>2 DEF IInv
<1>7. CASE pc[t].at = "up" /\ pc[t].on = s
  <2>1. \A u \in Threads : u # t => pc'[u] = pc[u]
    BY <1>1 DEF IInv, TypeOK
  <2>2. pc'[t].at # "up"
    BY <1>1, <1>2 DEF IInv, TypeOK
  <2>3. s \notin acquired_locks[t]
    BY <1>7 DEF IInv, Released
  <2>4. Released'
    BY <2>1, <2>2, <1>1 DEF IInv, Released, lockVars
  <2>5. ASSUME NEW l \in Locks, l # s
        PROVE  Owners(l)' = Owners(l) /\ value'[l] = value[l]
    <3>1. \A u \in Threads : pc'[u].at = "up" /\ pc'[u].on = l
                               <=> pc[u].at = "up" /\ pc[u].on = l
      BY <2>1, <2>2, <2>5, <1>7
    <3> QED
      BY <3>1, <2>5, <1>1 DEF Owners, lockVars, IInv, TypeOK, Semas
  <2>6. ASSUME s \in Locks
        PROVE  Owners(s)' = {} /\ value'[s] = 1
    <3>1. t \in Owners(s)
      BY <1>7 DEF Owners
    <3>2. value[s] = 0 /\ Owners(s) = {t}
      BY <2>6, <3>1 DEF IInv, MutualExclusion
    <3>3. \A u \in Threads : u \notin Owners(s)'
      BY <3>2, <2>1, <2>2, <2>3, <1>1 DEF Owners, lockVars
    <3>4. Owners(s)' = {}
      BY <3>3 DEF Owners
    <3> QED
      BY <3>2, <3>4, <1>1 DEF IInv, TypeOK
  <2>7. MutualExclusion'
    BY <2>5, <2>6, <1>1 DEF IInv, MutualExclusion, lockVars
  <2> QED
    BY <1>4, <1>5, <2>4, <2>7 DEF IInv
<1> QED
  BY <1>6, <1>7 DEF SemaUp, At

(* list_front in sema_up. *)
LEMMA ListFrontIInv ==
  ASSUME IInv, NEW t \in Threads, NEW s \in Semas, ListFront(t, s)
  PROVE  IInv'
<1>1. CASE lists[s] = <<>>
  BY <1>1, StopIInv DEF ListFront, Faults
<1>2. CASE lists[s] # <<>>
  <2> DEFINE p == [at |-> "remove", on |-> s, who |-> Head(lists[s])]
  <2>1. lists[s] \in Seq(Threads)
    BY DEF IInv, TypeOK, Lists
  <2>2. Head(lists[s]) \in Threads
    BY <1>2, <2>1, HeadTailProperties
  <2>3. p \in PCs /\ p.at # "up"
    BY <2>2 DEF PCs
  <2>4. /\ pc' = [pc EXCEPT ![t] = p]
        /\ UNCHANGED <<cpuVars, prioVars, lockVars, value, fault>>
        /\ pc[t].at \notin {"up", "sleep"}
    BY <1>2 DEF ListFront, At
  <2> HIDE DEF p
  <2>5. MutualExclusion' /\ Released'
    BY <2>3, <2>4, OwnersKept, Zenon
  <2>6. SleepersAsleep'
    BY <2>3, <2>4, ThreadAwake, Zenon DEF cpuVars
  <2>7. TypeOK'
    BY <2>3, <2>4 DEF IInv, TypeOK, cpuVars, prioVars, lockVars
  <2> QED
    BY <2>5, <2>6, <2>7 DEF IInv
<1> QED
  BY <1>1, <1>2

(* list_remove in sema_up. *)
LEMMA ListRemoveIInv ==
  ASSUME IInv, NEW t \in Threads, NEW s \in Semas, ListRemove(t, s)
  PROVE  IInv'
<1>1. CASE pc[t].who \notin Members(lists[s])
  BY <1>1, StopIInv DEF ListRemove, Faults
<1>2. CASE pc[t].who \in Members(lists[s])
  <2> DEFINE p == [at |-> "unblock", on |-> s, who |-> pc[t].who]
             rest == list_remove(lists[s], pc[t].who)
  <2>1. s \in Lists /\ s # SLEEPING_LIST /\ lists[s] \in Seq(Threads)
    BY DEF IInv, TypeOK, Lists, Semas
  <2>2. rest \in Seq(Threads)
    BY <1>2, <2>1, RemoveProperties
  <2>3. /\ lists' = [lists EXCEPT ![s] = rest]
        /\ pc' = [pc EXCEPT ![t] = p]
        /\ UNCHANGED <<running, status, thread_pl, prioVars, lockVars, value, fault>>
        /\ pc[t].at = "remove" /\ pc[t].on = s
    BY <1>2 DEF ListRemove, At
  <2>4. pc[t] \in [at: {"remove", "unblock"}, on: Semas, who: Threads]
    BY <2>3, Zenon DEF IInv, TypeOK, PCs
  <2>6. p \in PCs /\ p.at # "up"
    BY <2>4 DEF PCs
  <2> HIDE DEF p, rest
  <2>7. lists' \in ListsType /\ lists'[SLEEPING_LIST] = lists[SLEEPING_LIST]
    BY <2>1, <2>2, <2>3 DEF IInv, TypeOK, ListsType, Lists
  <2>8. MutualExclusion' /\ Released'
    BY <2>3, <2>6, OwnersKept, Zenon
  <2>9. SleepersAsleep'
    BY <2>3, <2>6, <2>7, ThreadAwake, Zenon
  <2>5. pc' \in [Threads -> PCs]
    BY <2>3, <2>6 DEF IInv, TypeOK
  <2>10. TypeOK'
    BY <2>3, <2>5, <2>7 DEF IInv, TypeOK, ListsType, prioVars, lockVars
  <2> QED
    BY <2>8, <2>9, <2>10 DEF IInv
<1> QED
  BY <1>1, <1>2

(* thread_unblock in sema_up. *)
LEMMA UnblockIInv ==
  ASSUME IInv, NEW t \in Threads, Unblock(t)
  PROVE  IInv'
<1>1. CASE status[pc[t].who] # "BLOCKED"
  BY <1>1, StopIInv DEF Unblock, Faults
<1>2. CASE status[pc[t].who] = "BLOCKED"
  <2>1. /\ thread_unblock(t, pc[t].who)
        /\ pc' = [pc EXCEPT ![t] = Run]
        /\ UNCHANGED <<prioVars, lockVars, value, fault>>
        /\ pc[t].at = "unblock"
    BY <1>2 DEF Unblock, At
  <2>2. pc[t].who \in Threads
    BY <2>1, Zenon DEF IInv, TypeOK, PCs
  <2>3. CpuOK' /\ lists'[SLEEPING_LIST] = lists[SLEEPING_LIST]
    BY <2>1, <2>2, UnblockType, CpuOKFromType DEF IInv
  <2>4. MutualExclusion' /\ Released'
    BY <2>1, RunPlace, OwnersKept, Zenon
  <2>5. SleepersAsleep'
    BY <2>1, <2>3, RunPlace, ThreadAwake, Zenon
  <2>6. pc' \in [Threads -> PCs]
    BY <2>1, RunPlace DEF IInv, TypeOK
  <2>7. TypeOK'
    BY <2>1, <2>3, <2>6 DEF IInv, TypeOK, CpuOK, StatusType, ListsType, PlType,
                            prioVars, lockVars
  <2> QED
    BY <2>4, <2>5, <2>7 DEF IInv
<1> QED
  BY <1>1, <1>2

(* sema_up in an interrupt handler, for a semaphore that is not a lock's. *)
LEMMA InterruptSemaUpIInv ==
  ASSUME IInv, NEW s \in Sems, InterruptSemaUp(s)
  PROVE  IInv'
<1>1. s \in Semas /\ s \in Lists /\ s \notin Locks /\ s # SLEEPING_LIST
  BY DEF Semas, Lists
<1>2. /\ value' = [value EXCEPT ![s] = @ + 1]
      /\ UNCHANGED <<prioVars, lockVars, pc, fault>>
  BY DEF InterruptSemaUp
<1>3. value' \in [Semas -> Nat] /\ \A l \in Locks : value'[l] = value[l]
  BY <1>1, <1>2 DEF IInv, TypeOK, Semas
<1>4. CpuOK' /\ lists'[SLEEPING_LIST] = lists[SLEEPING_LIST]
  <2>1. CpuOK /\ lists \in ListsType /\ lists[s] \in Seq(Threads)
    BY <1>1, CpuOKFromType DEF IInv, CpuOK, ListsType
  <2>2. CASE lists[s] = <<>>
    BY <2>1, <2>2 DEF InterruptSemaUp, cpuVars, CpuOK
  <2>3. CASE lists[s] # <<>>
    <3> DEFINE w == Head(lists[s])
               ls == [lists EXCEPT ![s] = Tail(@)]
    <3>1. w \in Threads /\ Tail(lists[s]) \in Seq(Threads)
      BY <2>1, <2>3, HeadTailProperties
    <3>2. ls \in ListsType /\ ls[SLEEPING_LIST] = lists[SLEEPING_LIST]
      BY <1>1, <2>1, <3>1 DEF ListsType, Lists
    <3>3. MakeReady(w, ls)
      BY <2>3 DEF InterruptSemaUp
    <3> HIDE DEF w, ls
    <3> QED
      BY <2>1, <3>1, <3>2, <3>3, MakeReadyType
  <2> QED
    BY <2>2, <2>3
<1>5. MutualExclusion' /\ Released'
  BY <1>2, <1>3, LocksUntouched
<1>6. SleepersAsleep'
  BY <1>2, <1>4, SleepersUntouched
<1>7. TypeOK'
  BY <1>2, <1>3, <1>4 DEF IInv, TypeOK, CpuOK, StatusType, ListsType, PlType,
                          prioVars, lockVars
<1> QED
  BY <1>5, <1>6, <1>7 DEF IInv
=============================================================================
