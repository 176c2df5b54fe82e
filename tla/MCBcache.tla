------------------------------ MODULE MCBcache -----------------------------
(* Instances of Bcache for TLC. *)
EXTENDS Bcache, TLC

Sym == Permutations(Procs) \cup Permutations(Blocks) \cup Permutations(Vals)
============================================================================
