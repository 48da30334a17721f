---------------------------- MODULE MCSharedLock ----------------------------
(* Instances of SharedLock: the first thread has the highest priority. *)
EXTENDS SharedLock, TLC

CONSTANTS t1, t2, t3, t4

Four  == {t1, t2, t3, t4}

FourPriorities  == t1 :> 2 @@ t2 :> 1 @@ t3 :> 1 @@ t4 :> 1
=============================================================================
