---------------------------- MODULE SharedLock ------------------------------
(***************************************************************************)
(* Condition variables and shared locks (threads/synch.c), over the locks  *)
(* and semaphores of Synch.  Here a lock is its owner and the semaphore of *)
(* a condition's waiter is its value.  One step is the code of one thread  *)
(* between two calls that other threads can see: everything else happens   *)
(* with sl->slock held.                                                    *)
(***************************************************************************)
EXTENDS Integers, FiniteSets

CONSTANTS
  Threads,
  Priority,   \* the priority of each thread
  NULL

ASSUME ThreadsAssumption == IsFiniteSet(Threads) /\ NULL \notin Threads

VARIABLES
  i,          \* sl->i: shared lockers, or -1 if exclusively locked
  owner,      \* the thread that has sl->slock
  waiters,    \* sl->cond.waiters: the threads whose semaphore is in the list
  semaphore,  \* the value of a thread's waiter.semaphore
  mode,       \* the access a thread asks for
  pc

vars == <<i, owner, waiters, semaphore, mode, pc>>

Modes == {"shared", "exclusive"}

(* "out": has no access and asks for none.  "acquire" and "release": in     *)
(* lock_acquire (&sl->slock) at the start of an acquire or release, or at   *)
(* the end of cond_wait.  "test": at the loop of an acquire.  "down":       *)
(* between lock_release and sema_down in cond_wait.  "blocked": blocked in  *)
(* that sema_down.  "hold": has access.  "update": in a release, with       *)
(* slock.  "broadcast": in the loop of cond_broadcast.                      *)
PCs == {"out", "acquire", "test", "down", "blocked", "hold", "release",
        "update", "broadcast"}

TypeOK ==
  /\ i \in Int
  /\ owner \in Threads \union {NULL}
  /\ waiters \in SUBSET Threads
  /\ semaphore \in [Threads -> {0, 1}]
  /\ mode \in [Threads -> Modes]
  /\ pc \in [Threads -> PCs]

(* slock_init *)
Init ==
  /\ i = 0
  /\ owner = NULL
  /\ waiters = {}
  /\ semaphore = [t \in Threads |-> 0]
  /\ mode = [t \in Threads |-> "shared"]
  /\ pc = [t \in Threads |-> "out"]

Goto(t, place) == pc' = [pc EXCEPT ![t] = place]
-----------------------------------------------------------------------------
(* A thread calls lock_acquire_shared or lock_acquire_exclusive. *)
Call(t, m) ==
  /\ pc[t] = "out"
  /\ mode' = [mode EXCEPT ![t] = m]
  /\ Goto(t, "acquire")
  /\ UNCHANGED <<i, owner, waiters, semaphore>>

(* lock_acquire (&sl->slock) returns. *)
LockAcquire(t) ==
  /\ pc[t] \in {"acquire", "release"}
  /\ owner = NULL
  /\ owner' = t
  /\ Goto(t, IF pc[t] = "acquire" THEN "test" ELSE "update")
  /\ UNCHANGED <<i, waiters, semaphore, mode>>

(* Mutant: lock_acquire_exclusive waits for writers only. *)
BusyForReaders(m) == i < 0

(* The conditions of the loops of lock_acquire_exclusive and _shared. *)
Busy(m) == IF m = "exclusive" THEN i # 0 ELSE i < 0

(* cond_wait up to its lock_release.  list_insert_ordered compares         *)
(* semaphores nobody waits on yet, so where the waiter goes is arbitrary;  *)
(* cond_signal sorts the list, and a set stands for it.                    *)
CondWait(t) ==
  /\ pc[t] = "test" /\ Busy(mode[t])
  /\ waiters' = waiters \union {t}
  /\ semaphore' = [semaphore EXCEPT ![t] = 0]
  /\ owner' = NULL
  /\ Goto(t, "down")
  /\ UNCHANGED <<i, mode>>

(* The loop ends: t takes its access and releases slock. *)
Enter(t) ==
  /\ pc[t] = "test" /\ ~Busy(mode[t])
  /\ i' = IF mode[t] = "exclusive" THEN -1 ELSE i + 1
  /\ owner' = NULL
  /\ Goto(t, "hold")
  /\ UNCHANGED <<waiters, semaphore, mode>>

(* sema_down of the waiter's semaphore: it blocks, or the signal came first. *)
SemaDown(t) ==
  /\ pc[t] = "down" \/ (pc[t] = "blocked" /\ semaphore[t] = 1)
  /\ IF semaphore[t] = 0
     THEN Goto(t, "blocked") /\ UNCHANGED semaphore
     ELSE /\ semaphore' = [semaphore EXCEPT ![t] = 0]
          /\ Goto(t, "acquire")
  /\ UNCHANGED <<i, owner, waiters, mode>>

(* The caller gives up its access. *)
CallRelease(t) ==
  /\ pc[t] = "hold"
  /\ Goto(t, "release")
  /\ UNCHANGED <<i, owner, waiters, semaphore, mode>>

(* Where list_sort can put the front of the list.  cond_cmp reads the      *)
(* priority of the thread that waits on each semaphore; a thread that has  *)
(* not called sema_down yet is not in that list, and what is read for it   *)
(* is whatever the memory holds.                                           *)
Front(w) ==
  /\ w \in waiters
  /\ pc[w] = "blocked" =>
       \A u \in waiters : pc[u] = "blocked" => Priority[w] >= Priority[u]

(* Mutant: a signal reaches only a thread that is already blocked. *)
SignalBlocked(w) ==
  /\ Front(w)
  /\ waiters' = waiters \ {w}
  /\ semaphore' = [semaphore EXCEPT ![w] = IF pc[w] = "blocked" THEN 1 ELSE @]

(* cond_signal with a waiter. *)
Signal(w) ==
  /\ Front(w)
  /\ waiters' = waiters \ {w}
  /\ semaphore' = [semaphore EXCEPT ![w] = @ + 1]

(* Mutant: the last reader signals nobody. *)
ReleaseSharedNoSignal(t) ==
  /\ pc[t] = "update" /\ mode[t] = "shared"
  /\ i' = i - 1
  /\ owner' = NULL
  /\ Goto(t, "out")
  /\ UNCHANGED <<waiters, semaphore, mode>>

(* Mutant: a reader frees the lock as a writer does. *)
ReleaseSharedReset(t) ==
  /\ pc[t] = "update" /\ mode[t] = "shared"
  /\ i' = 0
  /\ owner' = NULL
  /\ Goto(t, "out")
  /\ UNCHANGED <<waiters, semaphore, mode>>

(* lock_release_shared with slock: the last reader signals one waiter. *)
ReleaseShared(t) ==
  /\ pc[t] = "update" /\ mode[t] = "shared"
  /\ i' = i - 1
  /\ IF i - 1 = 0 /\ waiters # {}
     THEN \E w \in Threads : Signal(w)
     ELSE UNCHANGED <<waiters, semaphore>>
  /\ owner' = NULL
  /\ Goto(t, "out")
  /\ UNCHANGED mode

(* lock_release_exclusive with slock, up to cond_broadcast. *)
ReleaseExclusive(t) ==
  /\ pc[t] = "update" /\ mode[t] = "exclusive"
  /\ i' = 0
  /\ Goto(t, "broadcast")
  /\ UNCHANGED <<owner, waiters, semaphore, mode>>

(* Mutant: lock_release_exclusive signals one waiter. *)
BroadcastOne(t) ==
  /\ pc[t] = "broadcast"
  /\ IF waiters # {} THEN \E w \in Threads : Signal(w)
     ELSE UNCHANGED <<waiters, semaphore>>
  /\ owner' = NULL
  /\ Goto(t, "out")
  /\ UNCHANGED <<i, mode>>

(* One iteration of the loop of cond_broadcast; after the last one         *)
(* lock_release_exclusive releases slock.                                  *)
Broadcast(t) ==
  /\ pc[t] = "broadcast"
  /\ IF waiters # {}
     THEN (\E w \in Threads : Signal(w)) /\ UNCHANGED <<owner, pc>>
     ELSE /\ owner' = NULL
          /\ Goto(t, "out")
          /\ UNCHANGED <<waiters, semaphore>>
  /\ UNCHANGED <<i, mode>>

Step(t) == \/ LockAcquire(t) \/ CondWait(t) \/ Enter(t) \/ SemaDown(t)
           \/ CallRelease(t) \/ ReleaseShared(t) \/ ReleaseExclusive(t)
           \/ Broadcast(t)

Next == \E t \in Threads : Step(t) \/ \E m \in Modes : Call(t, m)

Spec == Init /\ [][Next]_vars

(* A thread that is given the CPU again and again gets on with what it     *)
(* does, and whoever has access releases it.  Asking for access is up to   *)
(* the callers.                                                            *)
LiveSpec == Spec /\ \A t \in Threads : SF_vars(Step(t))
-----------------------------------------------------------------------------
(* The threads that have access: a release gives it up when it changes i. *)
Access(m) == {t \in Threads : /\ mode[t] = m
                              /\ pc[t] \in {"hold", "release", "update"}}

(* sl->i counts what the struct's comment says ("Shared lockers, or -1 if  *)
(* exclusively locked"), and readers and writers exclude each other.       *)
CountsLockers ==
  \/ i = -1 /\ Access("shared") = {} /\ Cardinality(Access("exclusive")) = 1
  \/ i = Cardinality(Access("shared")) /\ Access("exclusive") = {}

(* slock protects the fields of the shared lock. *)
InMonitor(t) == pc[t] \in {"test", "update", "broadcast"}
Monitor == \A t \in Threads : InMonitor(t) <=> owner = t

(* The last reader signals one waiter and not all, which is enough only if *)
(* the waiter is a writer: whenever the lock is not exclusively held, no   *)
(* reader waits, except for one that a broadcast is about to wake.         *)
OnlyWritersWait ==
  \A t \in waiters : mode[t] = "shared" =>
    i = -1 \/ \E u \in Threads : pc[u] = "broadcast"

(* A signal sent before the waiter reaches sema_down is not lost: a thread *)
(* in cond_wait is in the list or has its signal, never both or neither.   *)
SignalKept ==
  \A t \in Threads : LET waits == pc[t] \in {"down", "blocked"}
                     IN  /\ t \in waiters => waits /\ semaphore[t] = 0
                         /\ waits /\ t \notin waiters => semaphore[t] = 1

(* While the lock is free and threads wait for it, somebody is under way   *)
(* that will take the lock or signal: nobody waits for an event that has   *)
(* passed.                                                                 *)
NobodyStranded ==
  i = 0 /\ waiters # {} =>
    \E t \in Threads \ waiters :
      pc[t] \in {"down", "blocked", "acquire", "test", "broadcast"}

(* The shared lock implements the readers-writer lock. *)
RW == INSTANCE ReadersWriter WITH readers <- Access("shared"),
                                  writers <- Access("exclusive")
RWSpec == RW!Spec

(* A reader that waits is woken: the writer it waits for broadcasts. *)
ReaderWoken == \A t \in Threads :
                 t \in waiters /\ mode[t] = "shared" ~> t \notin waiters

=============================================================================
