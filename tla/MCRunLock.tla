------------------------------ MODULE MCRunLock ------------------------------
(* Instances of RunLock for TLC. *)
EXTENDS RunLock, TLC

ProcSymmetry == Permutations(Procs)
=============================================================================
