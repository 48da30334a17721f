------------------------------ MODULE Console -------------------------------
(***************************************************************************)
(* The console of lib/kernel/console.c: printf, puts, putbuf and putchar   *)
(* write characters under a lock that a thread may take again (it counts   *)
(* console_lock_depth), interrupt handlers write without it, and after a   *)
(* panic nobody uses it.  The lock itself is in Synch; here it is who      *)
(* holds it.                                                               *)
(***************************************************************************)
EXTENDS Integers, Sequences, FiniteSets

CONSTANTS
  Threads,
  None,
  MaxChars,      \* characters of a call
  MaxNested      \* bound: calls of a thread inside each other

VARIABLES
  holder,              \* console_lock
  console_lock_depth,
  use_console_lock,
  calls,               \* for each thread, the characters its open calls have left
  waiting,             \* threads in lock_acquire
  booted,              \* console_init has been called
  only,                \* the thread that runs alone, at boot or after a panic
  group                \* history: the thread whose output is unfinished

vars == <<holder, console_lock_depth, use_console_lock, calls, waiting, booted,
          only, group>>

TypeOK ==
  /\ holder \in Threads \union {None} /\ group \in Threads \union {None}
  /\ only \in Threads \union {None}
  /\ console_lock_depth \in Nat
  /\ use_console_lock \in BOOLEAN /\ booted \in BOOLEAN
  /\ calls \in [Threads -> Seq(0..MaxChars)]
  /\ waiting \in [Threads -> 0..MaxChars]

(* At boot the initial thread writes without the lock. *)
Init ==
  /\ holder = None /\ console_lock_depth = 0 /\ use_console_lock = FALSE
  /\ calls = [t \in Threads |-> <<>>]
  /\ waiting = [t \in Threads |-> 0]
  /\ only \in Threads /\ booted = FALSE
  /\ group = None

(* console_init, and thread_start after it; main does not write meanwhile. *)
ConsoleInit ==
  /\ ~booted /\ calls[only] = <<>>
  /\ booted' = TRUE /\ use_console_lock' = TRUE
  /\ only' = None
  /\ UNCHANGED <<holder, console_lock_depth, calls, waiting, group>>

(* acquire_console at the beginning of a call that writes n characters;    *)
(* inside another call of the same thread it only counts.                  *)
Begin(t, n) ==
  /\ only \in {t, None} /\ waiting[t] = 0 /\ Len(calls[t]) < MaxNested
  /\ IF use_console_lock /\ holder # t
     THEN /\ waiting' = [waiting EXCEPT ![t] = n]
          /\ UNCHANGED <<console_lock_depth, calls>>
     ELSE /\ calls' = [calls EXCEPT ![t] = <<n>> \o @]
          /\ console_lock_depth' = IF use_console_lock THEN console_lock_depth + 1
                                   ELSE console_lock_depth
          /\ UNCHANGED waiting
  /\ UNCHANGED <<holder, use_console_lock, group, only, booted>>

(* lock_acquire returns. *)
Acquired(t) ==
  /\ waiting[t] # 0 /\ holder = None
  /\ holder' = t
  /\ calls' = [calls EXCEPT ![t] = <<waiting[t]>> \o @]
  /\ waiting' = [waiting EXCEPT ![t] = 0]
  /\ UNCHANGED <<console_lock_depth, use_console_lock, group, only, booted>>

(* console_locked_by_current_thread in a thread. *)
Locked(t) == ~use_console_lock \/ holder = t

(* putchar_have_lock, with its assertion. *)
Put(t) ==
  /\ calls[t] # <<>> /\ Head(calls[t]) > 0 /\ Locked(t)
  /\ calls' = [calls EXCEPT ![t] = <<Head(@) - 1>> \o Tail(@)]
  /\ group' = t
  /\ UNCHANGED <<holder, console_lock_depth, use_console_lock, waiting, only, booted>>

(* Mutant: the lock is released at the end of an inner call too. *)
release_console_always(t) ==
  /\ holder' = IF use_console_lock THEN None ELSE holder
  /\ UNCHANGED console_lock_depth

release_console(t) ==
  IF ~use_console_lock THEN UNCHANGED <<holder, console_lock_depth>>
  ELSE IF console_lock_depth > 0
       THEN console_lock_depth' = console_lock_depth - 1 /\ UNCHANGED holder
       ELSE holder' = None /\ UNCHANGED console_lock_depth

(* The end of a call. *)
End(t) ==
  /\ calls[t] # <<>> /\ Head(calls[t]) = 0
  /\ release_console(t)
  /\ calls' = [calls EXCEPT ![t] = Tail(@)]
  /\ group' = IF Len(calls[t]) = 1 THEN None ELSE group
  /\ UNCHANGED <<use_console_lock, waiting, only, booted>>

(* console_panic: only the thread that panics runs from now on. *)
Panic(t) ==
  /\ use_console_lock
  /\ use_console_lock' = FALSE
  /\ only' = t
  /\ calls' = [u \in Threads |-> IF u = t THEN calls[t] ELSE <<>>]
  /\ waiting' = [u \in Threads |-> 0]
  /\ group' = None
  /\ UNCHANGED <<holder, console_lock_depth, booted>>

Next == \/ ConsoleInit
        \/ \E t \in Threads :
             \/ \E n \in 1..MaxChars : Begin(t, n)
             \/ Acquired(t) \/ Put(t) \/ End(t) \/ Panic(t)

Spec == Init /\ [][Next]_vars
-----------------------------------------------------------------------------
(* "prevent simultaneous printf() calls from mixing their output": until   *)
(* the outermost call of a thread ends, only that thread's characters are  *)
(* written (interrupt handlers excepted), also when it calls printf again  *)
(* from inside.  The assertion of putchar_have_lock holds, and the lock is *)
(* free when no call is open.                                              *)
OutputWhole ==
  use_console_lock =>
    /\ \A t \in Threads : calls[t] # <<>> => holder = t /\ group \in {t, None}
    /\ holder # None => console_lock_depth = Len(calls[holder]) - 1
    /\ holder = None => console_lock_depth = 0 /\ group = None
=============================================================================
