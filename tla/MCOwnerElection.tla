--------------------------- MODULE MCOwnerElection --------------------------
(* Instances of OwnerElection for TLC. *)
EXTENDS OwnerElection, TLC

\* Processes and clients are interchangeable; no liveness is checked with it.
Symmetry == Permutations(Procs) \union Permutations(Clients)
=============================================================================
