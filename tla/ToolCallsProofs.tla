--------------------------- MODULE ToolCallsProofs ---------------------------
(***************************************************************************)
(* Proofs about ToolCalls, for any number of calls, lanes and processes.     *)
(* The three helpers are proved one by one, each from an invariant of its    *)
(* own; what ties them together is where a call stands while it is in one.   *)
(***************************************************************************)
EXTENDS ToolCalls, TLAPS

LaneRecord(c) == [call |-> c, lane |-> LaneOf[c], exclusive |-> TRUE]

\* Whoever is at work exclusively has the record that says so, and whoever waits
\* for a lane is an exclusive call that was not yet let in.
LaneInv ==
  /\ stage \in [Calls -> {"new", "asked", "working", "worked", "done"}]
  /\ trying \in [Calls -> Lanes \union {NoLane}]
  /\ \A c \in Exclusive : AtWork(c) => LaneRecord(c) \in records
  /\ \A c \in Calls : trying[c] # NoLane =>
       c \in Exclusive /\ trying[c] = LaneOf[c] /\ stage[c] = "asked"
  /\ WorkExcluded

\* Whoever is in capture_stdout holds its lock and has not returned, and stdout
\* is redirected only while the call it is redirected for is.
CaptureInv ==
  /\ at \in [Captures -> C!Stages]
  /\ text \in [Captures -> SUBSET (Captures \union {Server})]
  /\ \A c \in Captures : at[c] # "out" => holder = c /\ stage[c] = "working"
  /\ stdout # Nobody =>
       stdout \in Captures /\ at[stdout] \in {"redirected", "running", "returned"}
  /\ CapturedIsOwn

\* From the kill on, what is left of a group was sent it; a killed child forks
\* no more.
Doomed(c) == phase[c] = "killing" \/ result[c].kind = "timedOut"

RunnerInv ==
  /\ R!RunnerTypeOK
  /\ \A c \in Runs : phase[c] = "idle" => result[c].kind = "none"
  /\ \A c \in Runs : Doomed(c) => R!Group(c) \subseteq killed

-----------------------------------------------------------------------------
(* Lanes.                                                                    *)

LEMMA LaneArrive ==
  ASSUME LaneInv, NEW c \in Calls, Arrive(c)
  PROVE  LaneInv'
<1>1. /\ stage[c] = "new" /\ stage' \in [Calls -> {"new", "asked", "working", "worked", "done"}]
      /\ trying' \in [Calls -> Lanes \union {NoLane}]
      /\ records \subseteq records'
  BY CallAssumption DEF Arrive, Reaches, L!TryAcquire, L!BeginShared, LaneInv
<1>2. \A d \in Exclusive : AtWork(d)' => AtWork(d)
  BY CallAssumption DEF Arrive, Reaches, LaneInv, AtWork
<1>3. \A d \in Exclusive : AtWork(d)' => LaneRecord(d) \in records'
  BY <1>1, <1>2 DEF LaneInv
<1>4. \A d \in Calls : trying'[d] # NoLane =>
        d \in Exclusive /\ trying'[d] = LaneOf[d] /\ stage'[d] = "asked"
  <2>1. CASE c \in Exclusive
    BY <2>1, <1>1 DEF Arrive, Reaches, L!TryAcquire, LaneInv
  <2>2. CASE c \notin Exclusive
    BY <2>2, <1>1 DEF Arrive, Reaches, L!BeginShared, LaneInv
  <2> QED
    BY <2>1, <2>2
<1>5. WorkExcluded'
  BY <1>2 DEF LaneInv, WorkExcluded
<1> QED
  BY <1>1, <1>3, <1>4, <1>5 DEF LaneInv, LaneRecord

\* A lane is taken only when no record names it, so by nobody who is let in.
LEMMA LaneClaim ==
  ASSUME LaneInv, NEW c \in Calls, GetLane(c)
  PROVE  LaneInv'
<1>1. c \in Exclusive /\ trying[c] = LaneOf[c] /\ stage[c] = "asked"
  BY DEF GetLane, L!Claim, LaneInv
<1>2. /\ stage' = [stage EXCEPT ![c] = "working"]
      /\ trying' = [trying EXCEPT ![c] = NoLane]
      /\ records' = records \union {LaneRecord(c)}
  BY <1>1 DEF GetLane, Reaches, L!Claim, L!NewRecord, LaneRecord
<1>3. \A d \in Exclusive : AtWork(d) => LaneOf[d] # LaneOf[c]
  <2> SUFFICES ASSUME NEW d \in Exclusive, AtWork(d), LaneOf[d] = LaneOf[c]
               PROVE  FALSE
    OBVIOUS
  <2>1. LaneRecord(d) \in records /\ LaneRecord(d).lane = trying[c]
    BY <1>1 DEF LaneInv, LaneRecord
  <2> QED
    BY <2>1 DEF GetLane, L!Claim, L!Occupied
<1>4. WorkExcluded'
  BY <1>1, <1>2, <1>3 DEF LaneInv, WorkExcluded, AtWork
<1>5. \A d \in Exclusive : AtWork(d)' => LaneRecord(d) \in records'
  BY <1>1, <1>2 DEF LaneInv, AtWork
<1>6. \A d \in Calls : trying'[d] # NoLane =>
        d \in Exclusive /\ trying'[d] = LaneOf[d] /\ stage'[d] = "asked"
  BY <1>1, <1>2 DEF LaneInv
<1>7. /\ stage' \in [Calls -> {"new", "asked", "working", "worked", "done"}]
      /\ trying' \in [Calls -> Lanes \union {NoLane}]
  BY <1>2 DEF LaneInv
<1> QED
  BY <1>4, <1>5, <1>6, <1>7 DEF LaneInv, LaneRecord

LEMMA LaneRefuse ==
  ASSUME LaneInv, NEW c \in Calls, Busy(c)
  PROVE  LaneInv'
<1>1. /\ stage' = [stage EXCEPT ![c] = "done"] /\ records' = records
      /\ trying' = [trying EXCEPT ![c] = NoLane]
  BY DEF Busy, Reaches, L!Refuse
<1>2. \A d \in Exclusive : AtWork(d)' => AtWork(d)
  BY <1>1, CallAssumption DEF LaneInv, AtWork
<1>3. WorkExcluded'
  BY <1>2 DEF LaneInv, WorkExcluded
<1> QED
  BY <1>1, <1>2, <1>3 DEF LaneInv, LaneRecord

\* A lease that is dropped takes nobody else's record with it.
LEMMA LaneLeave ==
  ASSUME LaneInv, NEW c \in Calls, Leave(c)
  PROVE  LaneInv'
<1>1. \A d \in Exclusive : d # c /\ LaneRecord(d) \in records => LaneRecord(d) \in records'
  BY DEF Leave, L!DropLease, LaneRecord
<1>2. stage' = [stage EXCEPT ![c] = "done"] /\ stage[c] = "worked" /\ trying' = trying
  BY DEF Leave, Reaches, L!DropLease
<1>3. \A d \in Exclusive : AtWork(d)' => AtWork(d) /\ d # c
  BY <1>2, CallAssumption DEF LaneInv, AtWork
<1>4. WorkExcluded'
  BY <1>3 DEF LaneInv, WorkExcluded
<1> QED
  BY <1>1, <1>2, <1>3, <1>4 DEF LaneInv, LaneRecord

\* Every other step leaves the records alone, and moves a call at most from
\* working to worked.
LEMMA LaneOther ==
  ASSUME LaneInv, UNCHANGED <<records, trying>>,
         \/ UNCHANGED stage
         \/ \E c \in Calls : stage[c] = "working" /\ Reaches(c, "worked")
  PROVE  LaneInv'
<1>1. CASE UNCHANGED stage
  BY <1>1 DEF LaneInv, LaneRecord, WorkExcluded, AtWork
<1>2. CASE \E c \in Calls : stage[c] = "working" /\ Reaches(c, "worked")
  BY <1>2, CallAssumption DEF Reaches, LaneInv, LaneRecord, AtWork, WorkExcluded
<1> QED
  BY <1>1, <1>2

LEMMA LaneStep == LaneInv /\ [Next]_vars => LaneInv'
<1> SUFFICES ASSUME LaneInv, [Next]_vars PROVE LaneInv'
  OBVIOUS
<1>1. ASSUME NEW c \in Calls, Arrive(c) \/ GetLane(c) \/ Busy(c) \/ Leave(c)
      PROVE  LaneInv'
  BY <1>1, LaneArrive, LaneClaim, LaneRefuse, LaneLeave
<1>2. ASSUME NEW c \in Calls, Capture(c) \/ Run(c)
      PROVE  LaneInv'
  BY <1>2, LaneOther DEF Capture, Run, leaseVars
<1>3. ASSUME NEW c \in Calls, WaitsOn(c) \/ Launch(c) \/ Command(c) \/ ForkHelper(c)
      PROVE  LaneInv'
  BY <1>3, LaneOther DEF WaitsOn, L!DeadlinePasses, Launch, Command, ForkHelper, leaseVars
<1>4. ASSUME NEW p \in Procs, ProcessExits(p)
      PROVE  LaneInv'
  BY <1>4, LaneOther DEF ProcessExits, leaseVars
<1>5. CASE Respond \/ UNCHANGED vars
  BY <1>5, LaneOther DEF Respond, vars, leaseVars
<1> QED
  BY <1>1, <1>2, <1>3, <1>4, <1>5 DEF Next, ThreadStep

\* Two calls are never at work in a lane both took exclusively (activity.rs:
\* try_acquire_exclusive, claim_locked, the Drop of a lease).
THEOREM LanesExclude == Spec => []WorkExcluded
<1>1. Init => LaneInv
  BY CallAssumption DEF Init, L!LeaseInit, LaneInv, WorkExcluded, AtWork
<1>2. LaneInv => WorkExcluded
  BY DEF LaneInv
<1> QED
  BY <1>1, <1>2, LaneStep, PTL DEF Spec

-----------------------------------------------------------------------------
(* Captures.  The lane invariant says that a call that waits for its lane,    *)
(* or is refused, captures nothing yet.                                       *)

LEMMA CaptureCallStep ==
  ASSUME CaptureInv, NEW c \in Captures, Capture(c)
  PROVE  CaptureInv'
<1> USE CallAssumption DEF CaptureInv, C!Stages, C!Go, CapturedIsOwn, C!CapturedIsOwn, Reaches
<1>1. CASE C!Lock(c) \/ C!EnterRoot(c) \/ C!MakePipe(c) \/ C!PipeFails(c)
  BY <1>1 DEF Capture, C!Lock, C!EnterRoot, C!MakePipe, C!PipeFails
<1>2. CASE C!EnterFails(c) \/ C!Leave(c)
  BY <1>2 DEF Capture, C!EnterFails, C!Leave, Calls
<1>3. CASE C!Redirect(c) \/ C!RedirectFails(c) \/ C!StartReader(c)
  BY <1>3 DEF Capture, C!Redirect, C!RedirectFails, C!StartReader
<1>4. CASE C!Restore(c) \/ C!Join(c)
  BY <1>4 DEF Capture, C!Restore, C!Join
<1> QED
  BY <1>1, <1>2, <1>3, <1>4 DEF Capture, C!CallStep

\* The command prints while its call holds the lock, so into its own pipe.
LEMMA CaptureCommand ==
  ASSUME CaptureInv, NEW c \in Calls, Command(c)
  PROVE  CaptureInv'
<1> USE DEF CaptureInv, C!Stages, CapturedIsOwn, C!CapturedIsOwn
<1>1. CASE C!CommandPrints(c)
  <2>1. stdout # Nobody => stdout = c
    BY <1>1 DEF C!CommandPrints, Command
  <2> QED
    BY <1>1, <2>1 DEF C!CommandPrints, C!Printed, Command
<1>2. CASE C!CommandEnds(c)
  BY <1>2 DEF C!CommandEnds, C!Go, Command
<1> QED
  BY <1>1, <1>2 DEF Command, C!CommandStep

\* A response is written between calls, so with stdout in its place.
LEMMA CaptureRespond ==
  ASSUME CaptureInv, Respond
  PROVE  CaptureInv'
<1>1. stdout = Nobody
  BY DEF CaptureInv, Respond, Between, Calls
<1> QED
  BY <1>1 DEF CaptureInv, Respond, C!Respond, C!Printed, CapturedIsOwn, C!CapturedIsOwn

\* What other calls do changes nothing here, and does not move a capture in
\* progress.
LEMMA CaptureOther ==
  ASSUME CaptureInv, UNCHANGED <<at, holder, stdout, text>>,
         \A c \in Captures : stage[c] = "working" => stage'[c] = "working"
  PROVE  CaptureInv'
  BY DEF CaptureInv, CapturedIsOwn, C!CapturedIsOwn

LEMMA CaptureStep == CaptureInv /\ LaneInv /\ [Next]_vars => CaptureInv'
<1> SUFFICES ASSUME CaptureInv, LaneInv, [Next]_vars PROVE CaptureInv'
  OBVIOUS
<1>1. ASSUME NEW c \in Calls, Arrive(c) \/ GetLane(c) \/ Busy(c) \/ Leave(c) \/ WaitsOn(c)
      PROVE  CaptureInv'
  <2>1. UNCHANGED <<at, holder, stdout, text>>
    BY <1>1 DEF Arrive, GetLane, Busy, Leave, WaitsOn, captureVars
  <2>2. stage[c] # "working" \/ UNCHANGED stage
    BY <1>1 DEF Arrive, GetLane, Busy, Leave, WaitsOn, L!Claim, L!Refuse, LaneInv
  <2>3. \A d \in Calls : d # c => stage'[d] = stage[d]
    BY <1>1 DEF Arrive, GetLane, Busy, Leave, WaitsOn, Reaches, LaneInv
  <2> QED
    BY <2>1, <2>2, <2>3, CaptureOther DEF Calls
<1>2. ASSUME NEW c \in Calls, Capture(c) \/ Command(c)
      PROVE  CaptureInv'
  BY <1>2, CaptureCallStep, CaptureCommand DEF Capture
<1>3. ASSUME NEW c \in Calls, Run(c)
      PROVE  CaptureInv'
  <2>1. \A d \in Captures : stage'[d] = stage[d]
    BY <1>3, CallAssumption DEF Run, Reaches, LaneInv, Calls
  <2> QED
    BY <1>3, <2>1, CaptureOther DEF Run, captureVars
<1>4. ASSUME NEW c \in Calls, Launch(c) \/ ForkHelper(c)
      PROVE  CaptureInv'
  BY <1>4, CaptureOther DEF Launch, ForkHelper, C!Inherit, C!PassOn
<1>5. ASSUME NEW p \in Procs, ProcessExits(p)
      PROVE  CaptureInv'
  BY <1>5, CaptureOther DEF ProcessExits, C!ProcEnds
<1>6. CASE Respond \/ UNCHANGED vars
  BY <1>6, CaptureRespond, CaptureOther DEF vars, captureVars
<1> QED
  BY <1>1, <1>2, <1>3, <1>4, <1>5, <1>6 DEF Next, ThreadStep

\* A capture returns nothing but what its own command printed (capture.rs: the
\* lock, and the restoration on every path).
THEOREM CapturesKeepApart == Spec => []CapturedIsOwn
<1>1. Init => LaneInv /\ CaptureInv
  BY CallAssumption
     DEF Init, L!LeaseInit, LaneInv, WorkExcluded, AtWork,
         C!CaptureInit, CaptureInv, C!Stages, CapturedIsOwn, C!CapturedIsOwn
<1>2. CaptureInv => CapturedIsOwn
  BY DEF CaptureInv
<1> QED
  BY <1>1, <1>2, LaneStep, CaptureStep, PTL DEF Spec

-----------------------------------------------------------------------------
(* Commands.                                                                 *)

LEMMA RunnerSpawn ==
  ASSUME RunnerInv, NEW c \in Runs, R!Spawn(c)
  PROVE  RunnerInv'
<1>1. ~Doomed(c) /\ ~Doomed(c)' /\ \A d \in Runs : d # c => phase'[d] = phase[d]
  BY DEF R!Spawn, R!Moves, RunnerInv, R!RunnerTypeOK, Doomed
<1>2. \A d \in Runs : d # c => R!Group(d)' = R!Group(d)
  BY ProcAssumption DEF R!Spawn, R!Group
<1>3. R!RunnerTypeOK'
  BY ProcAssumption DEF R!Spawn, R!Moves, RunnerInv, R!RunnerTypeOK, R!Phases
<1> QED
  BY <1>1, <1>2, <1>3 DEF R!Spawn, R!Moves, RunnerInv, R!RunnerTypeOK, Doomed

\* The kill reaches everything the group has at that moment.
LEMMA RunnerAfterSpawn ==
  ASSUME RunnerInv, NEW c \in Runs, R!SpawnFails(c) \/ R!AfterSpawn(c)
  PROVE  RunnerInv'
<1> USE DEF RunnerInv, R!RunnerTypeOK, R!Moves, R!Returns, R!Phases, R!Kinds, R!Group, Doomed
<1>1. CASE R!SpawnFails(c)
  BY <1>1 DEF R!SpawnFails
<1>2. CASE R!SeeExit(c) \/ R!RunFails(c)
  BY <1>2 DEF R!SeeExit, R!RunFails
<1>3. CASE R!Timeout(c)
  BY <1>3 DEF R!Timeout
<1>4. CASE R!TreeEnds(c)
  BY <1>4 DEF R!TreeEnds
<1>5. CASE R!TreeLingers(c)
  BY <1>5 DEF R!TreeLingers
<1>6. CASE R!Collect(c)
  BY <1>6 DEF R!Collect
<1>7. CASE R!DrainExpires(c)
  <2>1. result'[c].kind = result[c].kind /\ \A d \in Runs : d # c => result'[d] = result[d]
    BY <1>7 DEF R!DrainExpires
  <2>2. result' \in [Runs -> [kind : R!Kinds, terminated : BOOLEAN, truncated : BOOLEAN]]
    BY <1>7 DEF R!DrainExpires
  <2> QED
    BY <1>7, <2>1, <2>2 DEF R!DrainExpires
<1> QED
  BY <1>1, <1>2, <1>3, <1>4, <1>5, <1>6, <1>7 DEF R!AfterSpawn

LEMMA RunnerFork ==
  ASSUME RunnerInv, NEW c \in Runs, R!Fork(c)
  PROVE  RunnerInv'
<1>1. ~Doomed(c)
  BY DEF R!Fork, RunnerInv, R!Group
<1>2. \A d \in Runs : d # c => R!Group(d)' = R!Group(d)
  BY ProcAssumption DEF R!Fork, R!Group
<1> QED
  BY <1>1, <1>2, ProcAssumption DEF R!Fork, RunnerInv, R!RunnerTypeOK, Doomed

LEMMA RunnerOther ==
  ASSUME RunnerInv, UNCHANGED <<phase, killed, result>>, alive' \subseteq alive
  PROVE  RunnerInv'
  BY DEF RunnerInv, R!RunnerTypeOK, Doomed, R!Group

LEMMA RunnerStep == RunnerInv /\ [Next]_vars => RunnerInv'
<1> SUFFICES ASSUME RunnerInv, [Next]_vars PROVE RunnerInv'
  OBVIOUS
<1>1. ASSUME NEW c \in Calls, Launch(c) \/ Run(c) \/ ForkHelper(c)
      PROVE  RunnerInv'
  BY <1>1, RunnerSpawn, RunnerAfterSpawn, RunnerFork DEF Launch, Run, ForkHelper
<1>2. ASSUME NEW c \in Calls,
             Arrive(c) \/ GetLane(c) \/ WaitsOn(c) \/ Busy(c) \/ Leave(c) \/ Capture(c) \/ Command(c)
      PROVE  RunnerInv'
  BY <1>2, RunnerOther DEF Arrive, GetLane, WaitsOn, Busy, Leave, Capture, Command, runnerVars
<1>3. ASSUME NEW p \in Procs, ProcessExits(p)
      PROVE  RunnerInv'
  BY <1>3, RunnerOther DEF ProcessExits, R!Exit
<1>4. CASE Respond \/ UNCHANGED vars
  BY <1>4, RunnerOther DEF Respond, vars, runnerVars
<1> QED
  BY <1>1, <1>2, <1>3, <1>4 DEF Next, ThreadStep

\* A run that timed out leaves no process that was not sent the kill
\* (process.rs: run_with_timeout kills the group).
THEOREM TimeoutKillsTheTree == Spec => []TreeKilled
<1>1. Init => RunnerInv
  BY DEF Init, R!RunnerInit, RunnerInv, R!RunnerTypeOK, R!Phases, R!Kinds, R!NoResult, Doomed
<1>2. RunnerInv => TreeKilled
  BY DEF RunnerInv, Doomed, TreeKilled, R!TreeKilled
<1> QED
  BY <1>1, <1>2, RunnerStep, PTL DEF Spec
=============================================================================
