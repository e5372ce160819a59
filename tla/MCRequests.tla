----------------------------- MODULE MCRequests ------------------------------
(* Instances of Requests for TLC.                                           *)
EXTENDS Requests

\* A classifier that takes null for a read, and an object by its operation: without
\* one, for a mutation.  So what it says of absent arguments depends on who asks.
MCReads == {a \in Values : a.shape = "null" \/ a.op = "get"}
=============================================================================
