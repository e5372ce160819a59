-------------------------- MODULE MCMutationRouting -------------------------
(* Instances of MutationRouting for TLC. *)
EXTENDS MutationRouting, TLC

Symmetry == Permutations(Procs) \union Permutations(Calls)
=============================================================================
