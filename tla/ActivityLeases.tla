--------------------------- MODULE ActivityLeases ---------------------------
(***************************************************************************)
(* The registry of running operations (src/src/activity.rs): leases that   *)
(* announce work, the exclusive lanes among them, and the bounded wait for  *)
(* a lane.  Every critical section is one atomic step; a poisoned lock is    *)
(* recovered, and so is no different from a free one.                        *)
(***************************************************************************)
EXTENDS Naturals

CONSTANTS
  Calls,   \* operations, each of which holds at most one lease
  Lanes,
  NoLane   \* an operation that only makes itself visible

VARIABLES
  records,   \* the registered leases
  trying,    \* call -> the lane it waits for, NoLane if none
  late,      \* waiting calls whose deadline has passed
  refused    \* calls that were answered busy

leaseVars == <<records, trying, late, refused>>

\* Only this process registers leases, so the pid of a record is its own, and
\* the rule that retires the records of dead processes never applies.
Record == [call : Calls, lane : Lanes \union {NoLane}, exclusive : BOOLEAN]

LeaseTypeOK ==
  /\ records \subseteq Record
  /\ trying \in [Calls -> Lanes \union {NoLane}]
  /\ late \subseteq Calls
  /\ refused \subseteq Calls

LeaseInit ==
  /\ records = {}
  /\ trying = [c \in Calls |-> NoLane]
  /\ late = {}
  /\ refused = {}

NewRecord(c, l, ex) ==
  [call |-> c, lane |-> l, exclusive |-> ex]

Holds(c) == \E r \in records : r.call = c

Occupied(l) == \E r \in records : r.lane = l

-----------------------------------------------------------------------------
(* begin, begin_in_lane: announces the work, and never waits or refuses.   *)
BeginShared(c, l) ==
  /\ ~Holds(c) /\ trying[c] = NoLane
  /\ records' = records \union {NewRecord(c, l, FALSE)}
  /\ UNCHANGED <<trying, late, refused>>

(* try_acquire_exclusive.                                                  *)
TryAcquire(c, l) ==
  /\ ~Holds(c) /\ trying[c] = NoLane
  /\ trying' = [trying EXCEPT ![c] = l]
  /\ UNCHANGED <<records, late, refused>>

\* One look, under the registry lock, finds the lane free and takes it.  A call
\* past its deadline still gets this last look.
Claim(c) ==
  /\ trying[c] # NoLane /\ ~Occupied(trying[c])
  /\ records' = records \union {NewRecord(c, trying[c], TRUE)}
  /\ trying' = [trying EXCEPT ![c] = NoLane]
  /\ late' = late \ {c}
  /\ UNCHANGED refused

\* Mutant: every look that finds a holder starts the wait anew.
DeadlineRestarts(c) ==
  /\ trying[c] # NoLane /\ c \notin late /\ ~Occupied(trying[c])
  /\ late' = late \union {c}
  /\ UNCHANGED <<records, trying, refused>>

\* It sleeps in pieces of ACQUIRE_POLL, never beyond its deadline.
DeadlinePasses(c) ==
  /\ trying[c] # NoLane /\ c \notin late
  /\ late' = late \union {c}
  /\ UNCHANGED <<records, trying, refused>>

\* A look that finds a holder at or after the deadline ends in a busy error.
Refuse(c) ==
  /\ trying[c] # NoLane /\ c \in late /\ Occupied(trying[c])
  /\ trying' = [trying EXCEPT ![c] = NoLane]
  /\ late' = late \ {c}
  /\ refused' = refused \union {c}
  /\ UNCHANGED records

\* Mutant: a lease is removed by the name of its lane.
DropLane(c) ==
  /\ Holds(c)
  /\ \E r \in records : r.call = c /\ records' = {s \in records : s.lane # r.lane}
  /\ UNCHANGED <<trying, late, refused>>

\* Drop of an ActivityLease: the operation returned, failed or panicked.
DropLease(c) ==
  /\ Holds(c)
  /\ records' = {r \in records : r.call # c}
  /\ UNCHANGED <<trying, late, refused>>

LeaseNext ==
  \E c \in Calls :
    \/ \E l \in Lanes \union {NoLane} : BeginShared(c, l)
    \/ \E l \in Lanes : TryAcquire(c, l)
    \/ Claim(c) \/ DeadlinePasses(c) \/ Refuse(c)
    \/ DropLease(c)

LeaseSpec == LeaseInit /\ [][LeaseNext]_leaseVars
=============================================================================
