----------------------------- MODULE MCDispatch -----------------------------
(* Instances of Dispatch for TLC. *)
EXTENDS Dispatch, TLC

CONSTANTS mutation, notice, read, blank,  \* lines
          serialized                      \* the worker

\* A mutation, a notification that names a mutating tool, a read, and a line of
\* white space.
AllLines == {mutation, notice, read, blank}
AllRoute == mutation :> serialized @@ notice :> serialized
              @@ read :> Concurrent @@ blank :> Blank
=============================================================================
