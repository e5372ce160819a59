---------------------------- MODULE MCOwnerHealth ---------------------------
(* Instances of OwnerHealth for TLC. *)
EXTENDS OwnerHealth, TLC

\* Generations, and the threads of a session, are interchangeable.
Symmetry == Permutations(Gens) \union Permutations(Slots)

\* Sessions too, where there are several.
SessionSymmetry == Symmetry \union Permutations(Sessions)
=============================================================================
