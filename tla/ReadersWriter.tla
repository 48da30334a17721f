--------------------------- MODULE ReadersWriter ----------------------------
(***************************************************************************)
(* What a shared lock promises: any number of threads have shared access,  *)
(* or one thread has exclusive access.                                     *)
(***************************************************************************)
EXTENDS FiniteSets

CONSTANT Threads

VARIABLES
  readers,  \* the threads that have shared access
  writers   \* the threads that have exclusive access

Init == readers = {} /\ writers = {}

StartRead(t) ==
  /\ t \notin readers
  /\ writers = {}
  /\ readers' = readers \union {t}
  /\ UNCHANGED writers

StartWrite(t) ==
  /\ readers = {} /\ writers = {}
  /\ writers' = {t}
  /\ UNCHANGED readers

EndRead(t) ==
  /\ t \in readers
  /\ readers' = readers \ {t}
  /\ UNCHANGED writers

EndWrite(t) ==
  /\ t \in writers
  /\ writers' = writers \ {t}
  /\ UNCHANGED readers

Next == \E t \in Threads :
          StartRead(t) \/ StartWrite(t) \/ EndRead(t) \/ EndWrite(t)

Spec == Init /\ [][Next]_<<readers, writers>>
=============================================================================
