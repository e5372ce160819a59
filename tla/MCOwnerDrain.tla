---------------------------- MODULE MCOwnerDrain ----------------------------
(* Instances of OwnerDrain for TLC. *)
EXTENDS OwnerDrain

CONSTANTS c1, d1, h1, h2
=============================================================================
