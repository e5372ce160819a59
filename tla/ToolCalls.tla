------------------------------ MODULE ToolCalls ------------------------------
(***************************************************************************)
(* Tool handlers that use the library's runtime helpers: a call announces   *)
(* itself or takes a lane (ActivityLeases), then captures a printing command *)
(* (StdoutCapture) or runs an external one (ProcessRunner), and drops its     *)
(* lease.  The three meet in the process they share: an external command      *)
(* inherits whatever handles a capture has open when it is spawned.           *)
(***************************************************************************)
EXTENDS FiniteSets

CONSTANTS
  Captures,    \* calls that capture a printing command
  Runs,        \* calls that run an external one
  LaneOf,      \* call -> its lane
  Exclusive,   \* calls that take their lane exclusively
  Lanes, NoLane, Procs, Child, Helper, Nobody, Server

Calls == Captures \union Runs

ASSUME CallAssumption ==
  /\ Captures \intersect Runs = {}
  /\ LaneOf \in [Calls -> Lanes \union {NoLane}]
  /\ Exclusive \subseteq {c \in Calls : LaneOf[c] # NoLane}
  /\ NoLane \notin Lanes
  /\ Nobody \notin Captures /\ Server \notin Captures

\* Every command has processes of its own.
ASSUME ProcAssumption ==
  /\ Child \in [Runs -> Procs] /\ Helper \in [Runs -> Procs]
  /\ \A c, d \in Runs :
       /\ Child[c] # Helper[d]
       /\ c # d => Child[c] # Child[d] /\ Helper[c] # Helper[d]

VARIABLES
  stage,    \* how far each call has come
  serial,   \* stdio under ServerConfig::serial; otherwise the HTTP hub
  records, trying, late, refused,
  at, holder, stdout, cwd, open, inherited, text,
  phase, alive, killed, result

L == INSTANCE ActivityLeases
C == INSTANCE StdoutCapture
R == INSTANCE ProcessRunner

leaseVars == <<records, trying, late, refused>>
captureVars == <<at, holder, stdout, cwd, open, inherited, text>>
runnerVars == <<phase, alive, killed, result>>
vars == <<stage, serial, leaseVars, captureVars, runnerVars>>

TypeOK ==
  /\ stage \in [Calls -> {"new", "asked", "working", "worked", "done"}]
  /\ serial \in BOOLEAN
  /\ L!LeaseTypeOK /\ C!CaptureTypeOK /\ R!RunnerTypeOK

Init ==
  /\ stage = [c \in Calls |-> "new"]
  /\ serial \in BOOLEAN
  /\ L!LeaseInit /\ C!CaptureInit /\ R!RunnerInit

AtWork(c) == stage[c] \in {"working", "worked"}

Reaches(c, s) == stage' = [stage EXCEPT ![c] = s]

Between == \A c \in Calls : stage[c] \in {"new", "done"}

\* A call arrives.  The serial server handles one at a time, on the thread that
\* writes the responses.
Arrive(c) ==
  /\ stage[c] = "new"
  /\ serial => Between
  /\ IF c \in Exclusive
       THEN Reaches(c, "asked") /\ L!TryAcquire(c, LaneOf[c])
       ELSE Reaches(c, "working") /\ L!BeginShared(c, LaneOf[c])
  /\ UNCHANGED <<serial, captureVars, runnerVars>>

GetLane(c) ==
  /\ L!Claim(c) /\ Reaches(c, "working")
  /\ UNCHANGED <<serial, captureVars, runnerVars>>

WaitsOn(c) ==
  /\ L!DeadlinePasses(c)
  /\ UNCHANGED <<stage, serial, captureVars, runnerVars>>

Busy(c) ==
  /\ L!Refuse(c) /\ Reaches(c, "done")
  /\ UNCHANGED <<serial, captureVars, runnerVars>>

\* capture_stdout, and the return from it.
Capture(c) ==
  /\ c \in Captures /\ stage[c] = "working"
  /\ C!CallStep(c)
  /\ IF at'[c] = "out" THEN Reaches(c, "worked") ELSE UNCHANGED stage
  /\ UNCHANGED <<serial, leaseVars, runnerVars>>

Command(c) ==
  /\ c \in Captures
  /\ C!CommandStep(c)
  /\ UNCHANGED <<stage, serial, leaseVars, runnerVars>>

\* run_with_timeout, and the return from it.
Launch(c) ==
  /\ c \in Runs /\ stage[c] = "working"
  /\ R!Spawn(c) /\ C!Inherit(Child[c])
  /\ UNCHANGED <<stage, serial, leaseVars>>

Run(c) ==
  /\ c \in Runs /\ stage[c] = "working"
  /\ R!SpawnFails(c) \/ R!AfterSpawn(c)
  /\ IF phase'[c] = "over" THEN Reaches(c, "worked") ELSE UNCHANGED stage
  /\ UNCHANGED <<serial, leaseVars, captureVars>>

Leave(c) ==
  /\ stage[c] = "worked"
  /\ L!DropLease(c) /\ Reaches(c, "done")
  /\ UNCHANGED <<serial, captureVars, runnerVars>>

Respond ==
  /\ serial /\ Between
  /\ C!Respond
  /\ UNCHANGED <<stage, serial, leaseVars, runnerVars>>

ForkHelper(c) ==
  /\ c \in Runs
  /\ R!Fork(c) /\ C!PassOn(Child[c], Helper[c])
  /\ UNCHANGED <<stage, serial, leaseVars>>

ProcessExits(p) ==
  /\ R!Exit(p) /\ C!ProcEnds(p)
  /\ UNCHANGED <<stage, serial, leaseVars>>

\* What the thread of a call does by itself, deadlines included.
ThreadStep(c) ==
  \/ GetLane(c) \/ WaitsOn(c) \/ Busy(c)
  \/ Capture(c) \/ Launch(c) \/ Run(c) \/ Leave(c)

Next ==
  \/ \E c \in Calls :
       Arrive(c) \/ ThreadStep(c) \/ Command(c) \/ ForkHelper(c)
  \/ \E p \in Procs : ProcessExits(p)
  \/ Respond

\* Threads are scheduled and their clocks run.  Commands and processes owe
\* nothing: they may hang.
Spec == Init /\ [][Next]_vars /\ \A c \in Calls : WF_vars(ThreadStep(c))

-----------------------------------------------------------------------------
\* Two calls that entered a lane exclusively are never at work in it together,
\* whatever is announced in the lane besides, whoever fails or is refused, and
\* in whatever order the leases are dropped.
WorkExcluded ==
  \A c, d \in Exclusive :
    AtWork(c) /\ AtWork(d) /\ LaneOf[c] = LaneOf[d] => c = d

\* What a capture returns was printed by its own command: neither the command
\* of another call nor a response of the server lands in its pipe, whichever
\* step of whichever capture failed before.
CapturedIsOwn == C!CapturedIsOwn

\* Violated: with stdout restored the pipe of a capture has no writer left; a process
\* that another thread spawned meanwhile may be one.
RestoredIsAtEnd == C!RestoredIsAtEnd

\* A run that timed out leaves nothing behind: whatever of its group still
\* exists was sent the kill, the processes its child had forked included.
TreeKilled == R!TreeKilled

\* No wait of these helpers is open-ended, whatever the others do: a call that
\* asks for a lane gets it or a busy error though its holder hangs, and a
\* command that hangs, or leaves its pipes to a process that does, is given up, and
\* a capture returns when its command has, unless a process that was spawned while
\* it was being set up has inherited its pipe and lives on.
BoundedWaits ==
  /\ \A c \in Exclusive : stage[c] = "asked" ~> stage[c] # "asked"
  /\ \A c \in Runs : phase[c] = "polling" ~> phase[c] = "over"
  /\ \A c \in Captures :
       at[c] = "joining" ~> (at[c] = "out" \/ \E p \in Procs : c \in inherited[p])
=============================================================================
