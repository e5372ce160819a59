---------------------------- MODULE OwnerService ----------------------------
(***************************************************************************)
(* What the resident-owner layer promises to everyone above it: a          *)
(* workspace has at most one writer at a time, a process is a writer at    *)
(* most once in its life, and the registration clients dial names only a   *)
(* process that was the writer and had finished its startup when it was    *)
(* registered.  Anyone may lose the registration; only the writer restores *)
(* it.  OwnerElection implements this specification.                       *)
(***************************************************************************)
CONSTANTS
  Procs,  \* owner processes; an identity is never used twice
  None    \* no process

ASSUME NoneIsNoProcess == None \notin Procs

VARIABLES
  writer,      \* the process that holds the workspace, or None
  ready,       \* processes whose startup completed while they were the writer
  past,        \* processes that have ended
  registered   \* the process clients are told to dial, or None

svars == <<writer, ready, past, registered>>

SInit ==
  /\ writer = None
  /\ ready = {}
  /\ past = {}
  /\ registered = None

Elect(p) ==
  /\ writer = None
  /\ p \notin past
  /\ writer' = p
  /\ UNCHANGED <<ready, past, registered>>

BecomeReady(p) ==
  /\ writer = p
  /\ ready' = ready \union {p}
  /\ UNCHANGED <<writer, past, registered>>

Register(p) ==
  /\ writer = p
  /\ p \in ready
  /\ registered' = p
  /\ UNCHANGED <<writer, ready, past>>

Unregister ==
  /\ registered' = None
  /\ UNCHANGED <<writer, ready, past>>

\* A process ends, and with it whatever it held; no other process's hold moves.
End(p) ==
  /\ p \notin past
  /\ past' = past \union {p}
  /\ writer' = IF writer = p THEN None ELSE writer
  /\ UNCHANGED <<ready, registered>>

SNext ==
  \/ Unregister
  \/ \E p \in Procs : Elect(p) \/ BecomeReady(p) \/ Register(p) \/ End(p)

SSpec == SInit /\ [][SNext]_svars
=============================================================================
