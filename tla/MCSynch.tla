------------------------------ MODULE MCSynch ------------------------------
(* Small instances of Synch for TLC. *)
EXTENDS Synch, TLC

ThreadLockSymmetry == Permutations(Threads) \union Permutations(Locks)
=============================================================================
