-------------------------- MODULE SharedLockProofs --------------------------
(***************************************************************************)
(* The shared lock implements the readers-writer lock, for any number of   *)
(* threads and any priorities; no signal is lost and no reader is left     *)
(* waiting for a lock that is not exclusively held.                        *)
(***************************************************************************)
EXTENDS SharedLock, FiniteSetTheorems, TLAPS

USE ThreadsAssumption

R == Access("shared")
W == Access("exclusive")

(* The inductive invariant: the count needs slock to exclude (Monitor),    *)
(* because a thread tests i and changes it while it has slock.             *)
IInv == TypeOK /\ CountsLockers /\ Monitor /\ SignalKept /\ OnlyWritersWait

(* The sets of threads with access are finite and can be counted. *)
LEMMA AccessFinite ==
  ASSUME NEW m PROVE IsFiniteSet(Access(m)) /\ Cardinality(Access(m)) \in Nat
<1>1. Access(m) \subseteq Threads
  BY DEF Access
<1> QED
  BY <1>1, FS_Subset, FS_CardinalityType

(* slock_init gives nobody access. *)
LEMMA InitIInv == Init => IInv
<1> SUFFICES ASSUME Init PROVE IInv
  OBVIOUS
<1>1. R = {} /\ W = {}
  BY DEF Init, Access, R, W
<1>2. Cardinality({}) = 0
  BY FS_EmptySet
<1>3. CountsLockers
  BY <1>1, <1>2 DEF CountsLockers, Init, R, W
<1>4. TypeOK /\ Monitor /\ SignalKept /\ OnlyWritersWait
  BY DEF Init, TypeOK, Monitor, InMonitor, SignalKept, OnlyWritersWait, PCs,
         Modes
<1> QED
  BY <1>3, <1>4 DEF IInv

(* Every step keeps the fields in their types. *)
LEMMA NextType ==
  ASSUME IInv, Next PROVE TypeOK'
<1> USE DEF IInv, TypeOK, Goto, PCs, Modes
<1>1. ASSUME NEW w \in Threads, Signal(w)
      PROVE  /\ semaphore' \in [Threads -> {0, 1}]
             /\ waiters' \in SUBSET Threads
  <2>1. semaphore[w] = 0
    BY <1>1 DEF Signal, Front, SignalKept
  <2> QED
    BY <1>1, <2>1 DEF Signal
<1>2. PICK t \in Threads : Step(t) \/ \E m \in Modes : Call(t, m)
  BY DEF Next
<1>3. ASSUME NEW m \in Modes, Call(t, m) PROVE TypeOK'
  BY <1>3 DEF Call
<1>4. CASE LockAcquire(t)
  BY <1>4 DEF LockAcquire
<1>5. CASE CondWait(t)
  BY <1>5 DEF CondWait
<1>6. CASE Enter(t)
  BY <1>6 DEF Enter
<1>7. CASE SemaDown(t)
  BY <1>7 DEF SemaDown
<1>8. CASE CallRelease(t)
  BY <1>8 DEF CallRelease
<1>9. CASE ReleaseShared(t)
  BY <1>1, <1>9 DEF ReleaseShared
<1>10. CASE ReleaseExclusive(t)
  BY <1>10 DEF ReleaseExclusive
<1>11. CASE Broadcast(t)
  BY <1>1, <1>11 DEF Broadcast
<1> QED
  BY <1>2, <1>3, <1>4, <1>5, <1>6, <1>7, <1>8, <1>9, <1>10, <1>11 DEF Step
-----------------------------------------------------------------------------
(* How a step changes who has access: it is a step of the readers-writer   *)
(* lock, or it changes nobody's access.                                    *)

(* Entering adds the thread to those that have its kind of access. *)
LEMMA EnterAccess ==
  ASSUME TypeOK, NEW t \in Threads, Enter(t)
  PROVE  /\ t \notin R /\ t \notin W
         /\ mode[t] = "shared" => R' = R \union {t} /\ W' = W
         /\ mode[t] = "exclusive" => W' = W \union {t} /\ R' = R
BY DEF TypeOK, Enter, Goto, Access, R, W

(* A release takes the thread out of those that have its kind of access. *)
LEMMA ReleaseAccess ==
  ASSUME TypeOK, NEW t \in Threads
  PROVE  /\ ReleaseShared(t) => t \in R /\ R' = R \ {t} /\ W' = W
         /\ ReleaseExclusive(t) => t \in W /\ W' = W \ {t} /\ R' = R
BY DEF TypeOK, ReleaseShared, ReleaseExclusive, Goto, Access, R, W

(* No other step changes who has access, nor the count. *)
LEMMA OtherAccess ==
  ASSUME TypeOK, NEW t \in Threads,
         \/ \E m \in Modes : Call(t, m)
         \/ LockAcquire(t) \/ CondWait(t) \/ SemaDown(t)
         \/ CallRelease(t) \/ Broadcast(t)
  PROVE  R' = R /\ W' = W /\ i' = i
<1> USE DEF TypeOK, Goto, Access, R, W
<1>1. ASSUME NEW m \in Modes, Call(t, m) PROVE R' = R /\ W' = W /\ i' = i
  BY <1>1 DEF Call
<1>2. CASE LockAcquire(t)
  BY <1>2 DEF LockAcquire
<1>3. CASE CondWait(t)
  BY <1>3 DEF CondWait
<1>4. CASE SemaDown(t)
  BY <1>4 DEF SemaDown
<1>5. CASE CallRelease(t)
  BY <1>5 DEF CallRelease
<1>6. CASE Broadcast(t)
  BY <1>6 DEF Broadcast
<1> QED
  BY <1>1, <1>2, <1>3, <1>4, <1>5, <1>6

(* A thread that passes the loop of lock_acquire_exclusive finds no other  *)
(* thread with access, and one that passes the loop of lock_acquire_shared *)
(* finds no writer.                                                        *)
LEMMA EnterAlone ==
  ASSUME IInv, NEW t \in Threads, Enter(t)
  PROVE  /\ W = {}
         /\ mode[t] = "exclusive" => R = {}
         /\ i = Cardinality(R)
<1>1. /\ mode[t] = "exclusive" => i = 0
      /\ mode[t] = "shared" => ~(i < 0)
      /\ mode[t] \in Modes
  BY DEF Enter, Busy, IInv, TypeOK, Modes
<1>2. W = {} /\ i = Cardinality(R)
  BY <1>1 DEF IInv, CountsLockers, R, W, Modes
<1>3. Cardinality(R) = 0 => R = {}
  BY AccessFinite, FS_EmptySet DEF R
<1> QED
  BY <1>1, <1>2, <1>3

(* The count stays right. *)
LEMMA NextCounts ==
  ASSUME IInv, Next PROVE CountsLockers'
<1> SUFFICES \/ i' = -1 /\ R' = {} /\ Cardinality(W') = 1
             \/ i' = Cardinality(R') /\ W' = {}
  BY DEF CountsLockers, R, W
<1>0. TypeOK /\ IsFiniteSet(R) /\ IsFiniteSet(W)
  BY AccessFinite DEF IInv, R, W
<1>1. \/ i = -1 /\ R = {} /\ Cardinality(W) = 1
      \/ i = Cardinality(R) /\ W = {}
  BY DEF IInv, CountsLockers, R, W
<1>2. PICK t \in Threads : Step(t) \/ \E m \in Modes : Call(t, m)
  BY DEF Next
<1>3. CASE Enter(t)
  <2>1. W = {} /\ i = Cardinality(R)
    BY <1>3, EnterAlone
  <2>2. CASE mode[t] = "shared"
    <3>1. R' = R \union {t} /\ W' = {} /\ t \notin R
      BY <1>0, <1>3, <2>1, <2>2, EnterAccess
    <3>2. Cardinality(R') = Cardinality(R) + 1
      BY <1>0, <3>1, FS_AddElement
    <3> QED
      BY <1>3, <2>1, <2>2, <3>1, <3>2 DEF Enter
  <2>3. CASE mode[t] = "exclusive"
    <3>1. R' = {} /\ W' = {t}
      BY <1>0, <1>3, <2>1, <2>3, EnterAccess, EnterAlone
    <3>2. Cardinality({t}) = 1
      BY FS_Singleton
    <3> QED
      BY <1>3, <2>3, <3>1, <3>2 DEF Enter
  <2> QED
    BY <1>0, <2>2, <2>3 DEF TypeOK, Modes
<1>4. CASE ReleaseShared(t)
  <2>1. t \in R /\ R' = R \ {t} /\ W' = W /\ i' = i - 1
    BY <1>0, <1>4, ReleaseAccess DEF ReleaseShared
  <2>2. Cardinality(R') = Cardinality(R) - 1
    BY <1>0, <2>1, FS_RemoveElement
  <2> QED
    BY <1>1, <2>1, <2>2
<1>5. CASE ReleaseExclusive(t)
  <2>1. t \in W /\ W' = W \ {t} /\ R' = R /\ i' = 0
    BY <1>0, <1>5, ReleaseAccess DEF ReleaseExclusive
  <2>2. R = {} /\ Cardinality(W) = 1
    BY <1>1, <2>1
  <2>3. PICK x : W = {x}
    BY <1>0, <2>2, FS_Singleton
  <2>4. W' = {} /\ Cardinality(R') = 0
    BY <2>1, <2>2, <2>3, FS_EmptySet
  <2> QED
    BY <2>1, <2>4
<1>6. CASE \/ \E m \in Modes : Call(t, m)
           \/ LockAcquire(t) \/ CondWait(t) \/ SemaDown(t)
           \/ CallRelease(t) \/ Broadcast(t)
  BY <1>0, <1>1, <1>6, OtherAccess
<1> QED
  BY <1>2, <1>3, <1>4, <1>5, <1>6 DEF Step
-----------------------------------------------------------------------------
(* The other conjuncts. *)

(* Only the thread that has slock is inside the monitor. *)
LEMMA NextMonitor ==
  ASSUME IInv, Next PROVE Monitor'
<1> USE DEF IInv, TypeOK, Monitor, InMonitor, Goto, PCs
<1>2. PICK t \in Threads : Step(t) \/ \E m \in Modes : Call(t, m)
  BY DEF Next
<1>3. ASSUME NEW m \in Modes, Call(t, m) PROVE Monitor'
  BY <1>3 DEF Call
<1>4. CASE LockAcquire(t)
  BY <1>4 DEF LockAcquire
<1>5. CASE CondWait(t)
  BY <1>5 DEF CondWait
<1>6. CASE Enter(t)
  BY <1>6 DEF Enter
<1>7. CASE SemaDown(t)
  BY <1>7 DEF SemaDown
<1>8. CASE CallRelease(t)
  BY <1>8 DEF CallRelease
<1>9. CASE ReleaseShared(t)
  BY <1>9 DEF ReleaseShared
<1>10. CASE ReleaseExclusive(t)
  BY <1>10 DEF ReleaseExclusive
<1>11. CASE Broadcast(t)
  BY <1>11 DEF Broadcast
<1> QED
  BY <1>2, <1>3, <1>4, <1>5, <1>6, <1>7, <1>8, <1>9, <1>10, <1>11 DEF Step

(* A waiter is in the list or has its signal. *)
LEMMA NextSignalKept ==
  ASSUME IInv, Next PROVE SignalKept'
<1> USE DEF IInv, TypeOK, SignalKept, Goto, PCs
<1>1. ASSUME NEW t \in Threads, NEW w \in Threads, Signal(w),
             ~(pc[t] \in {"down", "blocked"}),
             pc' = pc \/ pc' = [pc EXCEPT ![t] = "out"]
      PROVE  SignalKept'
  BY <1>1 DEF Signal, Front
<1>2. PICK t \in Threads : Step(t) \/ \E m \in Modes : Call(t, m)
  BY DEF Next
<1>3. ASSUME NEW m \in Modes, Call(t, m) PROVE SignalKept'
  BY <1>3 DEF Call
<1>4. CASE LockAcquire(t)
  BY <1>4 DEF LockAcquire
<1>5. CASE CondWait(t)
  BY <1>5 DEF CondWait
<1>6. CASE Enter(t)
  BY <1>6 DEF Enter
<1>7. CASE SemaDown(t)
  BY <1>7 DEF SemaDown
<1>8. CASE CallRelease(t)
  BY <1>8 DEF CallRelease
<1>9. CASE ReleaseShared(t)
  BY <1>1, <1>9 DEF ReleaseShared
<1>10. CASE ReleaseExclusive(t)
  BY <1>10 DEF ReleaseExclusive
<1>11. CASE Broadcast(t)
  BY <1>1, <1>11 DEF Broadcast
<1> QED
  BY <1>2, <1>3, <1>4, <1>5, <1>6, <1>7, <1>8, <1>9, <1>10, <1>11 DEF Step

(* A reader joins the waiters only while the lock is exclusively held, and *)
(* the writer that ends that wakes them all before it leaves the monitor.  *)
LEMMA NextOnlyWriters ==
  ASSUME IInv, Next PROVE OnlyWritersWait'
<1> USE DEF OnlyWritersWait, Goto
<1>0. TypeOK /\ Monitor /\ SignalKept /\ OnlyWritersWait
  BY DEF IInv
<1>1. PICK t \in Threads : Step(t) \/ \E m \in Modes : Call(t, m)
  BY DEF Next
<1>2. \A u \in Threads : pc[u] = "broadcast" /\ owner # u => FALSE
  BY <1>0 DEF Monitor, InMonitor
<1>3. ASSUME NEW m \in Modes, Call(t, m) PROVE OnlyWritersWait'
  <2>1. t \notin waiters
    BY <1>0, <1>3 DEF Call, SignalKept
  <2> QED
    BY <1>0, <1>3, <2>1 DEF Call, TypeOK
<1>4. CASE LockAcquire(t)
  BY <1>0, <1>4 DEF LockAcquire, TypeOK
<1>5. CASE CondWait(t)
  <2>1. mode[t] = "shared" => i = -1
    <3>1. mode[t] = "shared" => i < 0
      BY <1>5 DEF CondWait, Busy
    <3>2. i = -1 \/ i = Cardinality(R)
      BY DEF IInv, CountsLockers, R
    <3> QED
      BY <3>1, <3>2, AccessFinite DEF R
  <2> QED
    BY <1>0, <1>5, <2>1 DEF CondWait, TypeOK
<1>6. CASE Enter(t)
  <2>1. owner = t
    BY <1>0, <1>6 DEF Enter, Monitor, InMonitor
  <2>2. i = Cardinality(R) /\ i # -1
    BY <1>6, EnterAlone, AccessFinite DEF R
  <2>3. \A u \in waiters : mode[u] # "shared"
    BY <1>0, <1>2, <1>6, <2>1, <2>2 DEF Enter
  <2> QED
    BY <1>6, <2>3 DEF Enter
<1>7. CASE SemaDown(t)
  BY <1>0, <1>7 DEF SemaDown, TypeOK
<1>8. CASE CallRelease(t)
  BY <1>0, <1>8 DEF CallRelease, TypeOK
<1>9. CASE ReleaseShared(t)
  <2>1. waiters' \subseteq waiters /\ mode' = mode
    BY <1>9 DEF ReleaseShared, Signal
  <2>2. owner = t /\ t \in R
    BY <1>0, <1>9, ReleaseAccess DEF ReleaseShared, Monitor, InMonitor
  <2>3. i # -1
    BY <2>2, AccessFinite DEF IInv, CountsLockers, R
  <2>4. \A u \in waiters : mode[u] # "shared"
    BY <1>0, <1>2, <1>9, <2>2, <2>3 DEF ReleaseShared
  <2> QED
    BY <2>1, <2>4
<1>10. CASE ReleaseExclusive(t)
  <2>1. pc'[t] = "broadcast"
    BY <1>0, <1>10 DEF ReleaseExclusive, TypeOK
  <2> QED
    BY <2>1
<1>11. CASE Broadcast(t)
  <2>1. CASE waiters = {}
    BY <1>11, <2>1 DEF Broadcast
  <2>2. CASE waiters # {}
    BY <1>11, <2>2 DEF Broadcast, Signal
  <2> QED
    BY <2>1, <2>2
<1> QED
  BY <1>1, <1>3, <1>4, <1>5, <1>6, <1>7, <1>8, <1>9, <1>10, <1>11 DEF Step

(* The invariant is inductive. *)
LEMMA NextIInv == IInv /\ [Next]_vars => IInv'
<1>1. IInv /\ Next => IInv'
  BY NextType, NextCounts, NextMonitor, NextSignalKept, NextOnlyWriters
  DEF IInv
<1>2. IInv /\ UNCHANGED vars => IInv'
  BY DEF IInv, vars, TypeOK, CountsLockers, Monitor, InMonitor, SignalKept,
         OnlyWritersWait, Access
<1> QED
  BY <1>1, <1>2

(* Every reachable state satisfies the inductive invariant. *)
THEOREM Invariance == Spec => []IInv
BY InitIInv, NextIInv, PTL DEF Spec

(* sl->i counts the shared lockers or is -1 for the exclusive one. *)
THEOREM CountAlwaysRight == Spec => []CountsLockers
<1>1. IInv => CountsLockers
  BY DEF IInv
<1> QED
  BY <1>1, Invariance, PTL

(* The single signal of lock_release_shared is enough: no reader waits     *)
(* while the lock is not exclusively held.                                 *)
THEOREM ReadersNeverStranded == Spec => []OnlyWritersWait
<1>1. IInv => OnlyWritersWait
  BY DEF IInv
<1> QED
  BY <1>1, Invariance, PTL

(* A signal sent between cond_wait's lock_release and its sema_down waits  *)
(* for the waiter.                                                         *)
THEOREM SignalsNeverLost == Spec => []SignalKept
<1>1. IInv => SignalKept
  BY DEF IInv
<1> QED
  BY <1>1, Invariance, PTL

(* The shared lock implements the readers-writer lock. *)
THEOREM Refinement == Spec => RWSpec
<1>1. Init => RW!Init
  BY DEF Init, RW!Init, Access
<1>2. IInv /\ [Next]_vars => [RW!Next]_<<R, W>>
  <2> SUFFICES ASSUME IInv, [Next]_vars PROVE RW!Next \/ UNCHANGED <<R, W>>
    OBVIOUS
  <2> USE DEF R, W
  <2>0. TypeOK
    BY DEF IInv
  <2>1. CASE UNCHANGED vars
    BY <2>1 DEF vars, Access
  <2>2. ASSUME NEW t \in Threads, Enter(t) PROVE RW!Next
    <3>1. CASE mode[t] = "shared"
      BY <2>0, <2>2, <3>1, EnterAccess, EnterAlone DEF RW!Next, RW!StartRead
    <3>2. CASE mode[t] = "exclusive"
      BY <2>0, <2>2, <3>2, EnterAccess, EnterAlone DEF RW!Next, RW!StartWrite
    <3> QED
      BY <2>0, <3>1, <3>2 DEF TypeOK, Modes
  <2>3. ASSUME NEW t \in Threads, ReleaseShared(t) PROVE RW!Next
    BY <2>0, <2>3, ReleaseAccess DEF RW!Next, RW!EndRead
  <2>4. ASSUME NEW t \in Threads, ReleaseExclusive(t) PROVE RW!Next
    BY <2>0, <2>4, ReleaseAccess DEF RW!Next, RW!EndWrite
  <2>5. ASSUME NEW t \in Threads,
               \/ \E m \in Modes : Call(t, m)
               \/ LockAcquire(t) \/ CondWait(t) \/ SemaDown(t)
               \/ CallRelease(t) \/ Broadcast(t)
        PROVE  UNCHANGED <<R, W>>
    BY <2>0, <2>5, OtherAccess
  <2> QED
    BY <2>1, <2>2, <2>3, <2>4, <2>5 DEF Next, Step
<1> QED
  BY <1>1, <1>2, Invariance, PTL DEF Spec, RWSpec, RW!Spec, R, W
=============================================================================
