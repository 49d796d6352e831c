------------------------------ MODULE MCMaster ------------------------------
(* A small instance of Master for TLC. *)
EXTENDS Master, TLC

Renamings == Permutations(Procs) \cup Permutations(Ids)
=============================================================================
