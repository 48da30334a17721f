------------------------------ MODULE MCProcess -----------------------------
(* Instances of Process.  Processes are interchangeable. *)
EXTENDS Process, TLC

ProcSymmetry == Permutations(Procs)

ExitStatuses == {-1, 0}
=============================================================================
