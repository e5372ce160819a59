---------------------------- MODULE ProcessRunner ----------------------------
(***************************************************************************)
(* run_with_timeout (src/src/process.rs): a command in a process group of   *)
(* its own, two threads that read its pipes to their end, a deadline, and    *)
(* bounded waits for the killed group and for the output.  Nothing bounds    *)
(* the processes themselves.                                                 *)
(***************************************************************************)
EXTENDS FiniteSets

CONSTANTS
  Runs,    \* calls that run a command
  Procs,   \* processes
  Child,   \* call -> the process it spawns
  Helper   \* call -> a process the child may fork, into the same group

VARIABLES
  phase,    \* where each run is
  alive,    \* processes that run; each holds its group's two pipes open
  killed,   \* processes that were sent the kill
  result    \* what each run returned

runnerVars == <<phase, alive, killed, result>>

Phases == {"idle", "polling", "killing", "collecting", "draining", "over"}

NoResult == [kind |-> "none", terminated |-> FALSE, truncated |-> FALSE]
Kinds == {"none", "completed", "timedOut", "error"}

RunnerTypeOK ==
  /\ phase \in [Runs -> Phases]
  /\ alive \subseteq Procs
  /\ killed \subseteq Procs
  /\ result \in [Runs -> [kind : Kinds, terminated : BOOLEAN, truncated : BOOLEAN]]

RunnerInit ==
  /\ phase = [c \in Runs |-> "idle"]
  /\ alive = {}
  /\ killed = {}
  /\ result = [c \in Runs |-> NoResult]

Group(c) == {Child[c], Helper[c]} \intersect alive

Moves(c, from, to) == phase[c] = from /\ phase' = [phase EXCEPT ![c] = to]

Returns(c, kind) == result' = [result EXCEPT ![c].kind = kind]

-----------------------------------------------------------------------------
(* run_with_timeout.                                                       *)

Spawn(c) ==
  /\ Moves(c, "idle", "polling")
  /\ alive' = alive \union {Child[c]}
  /\ UNCHANGED <<killed, result>>

SpawnFails(c) ==
  /\ Moves(c, "idle", "over")
  /\ Returns(c, "error")
  /\ UNCHANGED <<alive, killed>>

\* try_wait sees the child gone.  Whatever it forked is left alone.
SeeExit(c) ==
  /\ Child[c] \notin alive /\ Moves(c, "polling", "collecting")
  /\ Returns(c, "completed")
  /\ UNCHANGED <<alive, killed>>

\* Mutant: only the child is killed.
TimeoutKillsChild(c) ==
  /\ Moves(c, "polling", "killing")
  /\ killed' = killed \union {Child[c]}
  /\ UNCHANGED <<alive, result>>

\* The deadline, after one last look: the whole group is killed.  The child
\* may have ended meanwhile; it is not reaped, and its group still exists.
Timeout(c) ==
  /\ Moves(c, "polling", "killing")
  /\ killed' = killed \union Group(c)
  /\ UNCHANGED <<alive, result>>

\* A thread of its own waits for the group, for POST_KILL_DRAIN at most.
TreeEnds(c) ==
  /\ Child[c] \notin alive /\ Moves(c, "killing", "draining")
  /\ result' = [result EXCEPT ![c].kind = "timedOut", ![c].terminated = TRUE]
  /\ UNCHANGED <<alive, killed>>

TreeLingers(c) ==
  /\ Moves(c, "killing", "draining")
  /\ Returns(c, "timedOut")
  /\ UNCHANGED <<alive, killed>>

\* Waiting for the child, or killing it, fails: the ? of three steps.
RunFails(c) ==
  /\ phase[c] \in {"polling", "killing"}
  /\ phase' = [phase EXCEPT ![c] = "over"]
  /\ Returns(c, "error")
  /\ UNCHANGED <<alive, killed>>

\* collect_output: both readers have come to the end of their pipes.
Collect(c) ==
  /\ phase[c] \in {"collecting", "draining"} /\ Group(c) = {}
  /\ phase' = [phase EXCEPT ![c] = "over"]
  /\ UNCHANGED <<alive, killed, result>>

\* The drain runs out with a reader missing, or a reader fails.
DrainExpires(c) ==
  /\ phase[c] \in {"collecting", "draining"}
  /\ phase' = [phase EXCEPT ![c] = "over"]
  /\ result' = [result EXCEPT ![c].truncated = TRUE]
  /\ UNCHANGED <<alive, killed>>

AfterSpawn(c) ==
  \/ SeeExit(c) \/ Timeout(c) \/ RunFails(c)
  \/ TreeEnds(c) \/ TreeLingers(c) \/ Collect(c) \/ DrainExpires(c)

-----------------------------------------------------------------------------
(* The processes.  A killed one forks no more, and ends when the system      *)
(* comes to it.                                                              *)

Fork(c) ==
  /\ Child[c] \in alive \ killed /\ Helper[c] \notin alive
  /\ alive' = alive \union {Helper[c]}
  /\ UNCHANGED <<phase, killed, result>>

Exit(p) ==
  /\ p \in alive
  /\ alive' = alive \ {p}
  /\ UNCHANGED <<phase, killed, result>>

RunnerNext ==
  \/ \E c \in Runs : Spawn(c) \/ SpawnFails(c) \/ AfterSpawn(c) \/ Fork(c)
  \/ \E p \in Procs : Exit(p)

RunnerSpec == RunnerInit /\ [][RunnerNext]_runnerVars

-----------------------------------------------------------------------------
\* A run that timed out leaves nothing behind: whatever of its group still
\* exists was sent the kill, the processes its child had forked included.
TreeKilled ==
  \A c \in Runs : result[c].kind = "timedOut" => Group(c) \subseteq killed
=============================================================================
