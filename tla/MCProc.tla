------------------------------- MODULE MCProc ------------------------------
(* Instances of Proc for TLC. *)
EXTENDS Proc, TLC

Sym == Permutations(Procs \ {initproc}) \cup Permutations(CPUs)
============================================================================
