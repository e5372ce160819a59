---------------------------- MODULE OwnerElection ---------------------------
(***************************************************************************)
(* The resident owner of one workspace (src/src/sidecar.rs): how client    *)
(* sessions elect, attach to, retire and replace the single owner process, *)
(* and how the owner process takes the singleton lock, starts up,          *)
(* publishes its endpoint, keeps it published, and ends.                   *)
(*                                                                         *)
(* An endpoint is represented by the process that wrote it: token, pid and *)
(* generation are fresh per process, so they are the process identity.     *)
(* The listening address is not: the kernel may hand a dead owner's port   *)
(* to its successor.  The fingerprint that it published (stamp) is kept     *)
(* apart from the binary that it runs (build).                             *)
(* Every file operation, ping and spawn is a step of its own, so clients   *)
(* and owners interleave between them.  Timers are nondeterministic: a     *)
(* bounded wait may end at any moment, and a ping may be lost.             *)
(***************************************************************************)
EXTENDS Naturals

CONSTANTS
  Clients,      \* client sessions: stdio servers that may run at once
  Procs,        \* owner processes that may ever be spawned
  None,         \* no process
  MaxBuild      \* bound on installs

ASSUME ProcsAssumption == None \notin Procs
ASSUME BuildAssumption == MaxBuild \in Nat \ {0}

VARIABLES
  lock,       \* holder of the exclusive owner-lock file
  file,       \* writer of the endpoint file's content; None: absent
  state,      \* life-cycle state of each owner process
  port,       \* first process that was given the port each process listens on
  build,      \* the binary that each process was started from
  stamp,      \* fingerprint of each process: version compiled in, binary on disk
  overtaken,  \* processes between exec and fingerprint when a reinstall came (history)
  installed,  \* the binary on disk
  pc,         \* next step of each client
  flow,       \* what the client wants an owner for
  version,    \* version compiled into each running client
  cached,     \* endpoint a session attached to at startup and dials ever after
  using,      \* endpoint the current call is directed at
  seen        \* endpoint last read from the file

ownerVars  == <<lock, state, port, build, stamp, overtaken>>
clientVars == <<pc, flow, version, cached, using, seen>>
vars == <<lock, file, state, port, build, stamp, overtaken, installed,
          pc, flow, version, cached, using, seen>>

ProcStates == {"unborn", "spawned", "starting", "bound",
               "serving", "retiring", "draining", "dead"}
HoldingStates   == {"starting", "bound", "serving", "retiring", "draining"}
PublishedStates == {"serving", "retiring", "draining", "dead"}
\* The steps of ensure_owner_process, of recover_owner, and of a call.
EnsurePcs  == {"read", "ping", "retire", "clear", "spawn",
               "poll", "pollPing", "pollWait"}
RecoverPcs == {"recRead", "recPing", "recCheck", "recClear"}
CallPcs    == {"retireSick", "send"}
Pcs   == {"off", "ready"} \union EnsurePcs \union RecoverPcs \union CallPcs
Flows == {"none", "start", "sick", "recover"}
\* A binary is its app_version, which a rebuild need not change, and its signature,
\* the size and the modification time of the file, which every build has of its own.
Versions == 1..MaxBuild
Builds == Versions \X (1..MaxBuild)

TypeOK ==
  /\ lock \in Procs \union {None}
  /\ file \in Procs \union {None}
  /\ state \in [Procs -> ProcStates]
  /\ port \in [Procs -> Procs \union {None}]
  /\ build \in [Procs -> Builds]
  /\ stamp \in [Procs -> Builds]
  /\ overtaken \subseteq Procs
  /\ installed \in Builds
  /\ pc \in [Clients -> Pcs]
  /\ flow \in [Clients -> Flows]
  /\ version \in [Clients -> Versions]
  /\ cached \in [Clients -> Procs \union {None}]
  /\ using \in [Clients -> Procs \union {None}]
  /\ seen \in [Clients -> Procs \union {None}]

Init ==
  /\ lock = None
  /\ file = None
  /\ state = [p \in Procs |-> "unborn"]
  /\ port = [p \in Procs |-> None]
  /\ build = [p \in Procs |-> <<1, 1>>]
  /\ stamp = [p \in Procs |-> <<1, 1>>]
  /\ overtaken = {}
  /\ installed = <<1, 1>>
  /\ pc = [c \in Clients |-> "off"]
  /\ flow = [c \in Clients |-> "none"]
  /\ version = [c \in Clients |-> 1]
  /\ cached = [c \in Clients |-> None]
  /\ using = [c \in Clients |-> None]
  /\ seen = [c \in Clients |-> None]

-----------------------------------------------------------------------------
(* Helpers of the client steps.                                            *)

\* current_build_fingerprint: the version this client was compiled with and
\* the signature of the binary that is on disk now.
Fingerprint(c) == <<version[c], installed[2]>>

\* Mutant: an exited process that nobody has waited for counts as alive.
AliveCountingZombies(p) == state[p] # "unborn"

Alive(p) == state[p] \notin {"unborn", "dead"}

\* An owner answers requests from its first accept until its last connection
\* thread ends; in "draining" only connections accepted earlier are answered.
Answering(p) == state[p] \in {"serving", "retiring", "draining"}

\* A ping to endpoint p comes back Ok: whoever listens on p's port replied.
\* A reply refusing the token is a reply.
PingOk(p) == \E q \in Procs : Answering(q) /\ port[q] = port[p]

Goto(c, label) == pc' = [pc EXCEPT ![c] = label]

\* The call is over; the endpoint cached at startup is kept.
EndCall(c) ==
  /\ Goto(c, "ready")
  /\ flow' = [flow EXCEPT ![c] = "none"]
  /\ using' = [using EXCEPT ![c] = None]
  /\ seen' = [seen EXCEPT ![c] = None]
  /\ UNCHANGED <<version, cached>>

\* ensure_owner_process or recover_owner returned endpoint p.
Attach(c, p) ==
  \/ /\ flow[c] = "start"
     /\ cached' = [cached EXCEPT ![c] = p]
     /\ Goto(c, "ready")
     /\ flow' = [flow EXCEPT ![c] = "none"]
     /\ seen' = [seen EXCEPT ![c] = None]
     /\ UNCHANGED <<version, using>>
  \/ /\ flow[c] = "sick" /\ p # using[c]       \* Retired: the call uses p
     /\ using' = [using EXCEPT ![c] = p]
     /\ Goto(c, "send")
     /\ flow' = [flow EXCEPT ![c] = "none"]
     /\ seen' = [seen EXCEPT ![c] = None]
     /\ UNCHANGED <<version, cached>>
  \/ /\ flow[c] = "sick" /\ p = using[c]       \* ReplacementFailed
     /\ EndCall(c)
  \/ /\ flow[c] = "recover"                    \* Reelected: one retry on p
     /\ EndCall(c)

\* ensure_owner_process returned an error: a session that was starting exits,
\* a call is refused.
Fail(c) ==
  \/ /\ flow[c] = "start"
     /\ Goto(c, "off")
     /\ flow' = [flow EXCEPT ![c] = "none"]
     /\ seen' = [seen EXCEPT ![c] = None]
     /\ version' = [version EXCEPT ![c] = 1]   \* no session, no version
     /\ UNCHANGED <<cached, using>>
  \/ /\ flow[c] # "start"
     /\ EndCall(c)

-----------------------------------------------------------------------------
(* Client steps: a session and its calls.                                  *)

\* run_stdio elects or attaches before anything else.
SessionStart(c) ==
  /\ pc[c] = "off"
  /\ version' = [version EXCEPT ![c] = installed[1]]
  /\ flow' = [flow EXCEPT ![c] = "start"]
  /\ Goto(c, "read")
  /\ UNCHANGED <<cached, using, seen, file, installed, ownerVars>>

\* The session ends, or its process is killed, between any two steps.
SessionEnd(c) ==
  /\ pc[c] # "off"
  /\ Goto(c, "off")
  /\ flow' = [flow EXCEPT ![c] = "none"]
  /\ cached' = [cached EXCEPT ![c] = None]
  /\ using' = [using EXCEPT ![c] = None]
  /\ seen' = [seen EXCEPT ![c] = None]
  /\ version' = [version EXCEPT ![c] = 1]
  /\ UNCHANGED <<file, installed, ownerVars>>

\* A tool call starts on the cached endpoint; the health gate lets it pass.
CallStart(c) ==
  /\ pc[c] = "ready"
  /\ using' = [using EXCEPT ![c] = cached[c]]
  /\ Goto(c, "send")
  /\ UNCHANGED <<flow, version, cached, seen, file, installed, ownerVars>>

\* A tool call starts and its gate wins the right to retire the owner
\* (OwnerHealth models when).
CallStartSick(c) ==
  /\ pc[c] = "ready"
  /\ using' = [using EXCEPT ![c] = cached[c]]
  /\ flow' = [flow EXCEPT ![c] = "sick"]
  /\ Goto(c, "retireSick")
  /\ UNCHANGED <<version, cached, seen, file, installed, ownerVars>>

\* Answered, or failed in a way that must not be retried.
SendDone(c) ==
  /\ pc[c] = "send"
  /\ EndCall(c)
  /\ UNCHANGED <<file, installed, ownerVars>>

\* The owner was not reached.
SendFails(c) ==
  /\ pc[c] = "send"
  /\ flow' = [flow EXCEPT ![c] = "recover"]
  /\ Goto(c, "recRead")
  /\ UNCHANGED <<version, cached, using, seen, file, installed, ownerVars>>

-----------------------------------------------------------------------------
(* Client steps: ensure_owner_process.                                     *)

Read(c, none, some) ==
  /\ seen' = [seen EXCEPT ![c] = file]
  /\ Goto(c, IF file = None THEN none ELSE some)
  /\ UNCHANGED <<flow, version, cached, using, file, installed, ownerVars>>

\* The ping did not come back: the endpoint that was read is forgotten.
Drop(c, next) ==
  /\ seen' = [seen EXCEPT ![c] = None]
  /\ Goto(c, next)
  /\ UNCHANGED <<flow, version, cached, using, file, installed, ownerVars>>

EnsureRead(c) == pc[c] = "read" /\ Read(c, "clear", "ping")

\* Mutant: only the versions are compared.
EnsureAttachByVersion(c) ==
  /\ pc[c] = "ping"
  /\ PingOk(seen[c])
  /\ stamp[seen[c]][1] = Fingerprint(c)[1]
  /\ Attach(c, seen[c])
  /\ UNCHANGED <<file, installed, ownerVars>>

EnsureAttach(c) ==
  /\ pc[c] = "ping"
  /\ PingOk(seen[c])
  /\ stamp[seen[c]] = Fingerprint(c)
  /\ Attach(c, seen[c])
  /\ UNCHANGED <<file, installed, ownerVars>>

EnsureFindsStaleBuild(c) ==
  /\ pc[c] = "ping"
  /\ PingOk(seen[c])
  /\ stamp[seen[c]] # Fingerprint(c)
  /\ Goto(c, "retire")
  /\ UNCHANGED <<flow, version, cached, using, seen, file, installed, ownerVars>>

EnsurePingFails(c) == pc[c] = "ping" /\ Drop(c, "clear")

\* retire_stale_owner: the owner takes the shutdown request, or it is lost;
\* either way the bounded wait for the owner's death ends, dead or not.
Retire(c, victim, next) ==
  /\ \/ /\ state[victim] = "serving"
        /\ state' = [state EXCEPT ![victim] = "retiring"]
     \/ UNCHANGED state
  /\ seen' = [seen EXCEPT ![c] = None]
  /\ Goto(c, next)
  /\ UNCHANGED <<flow, version, cached, using, file, installed, lock, port, build, stamp, overtaken>>

EnsureRetire(c) == pc[c] = "retire" /\ Retire(c, seen[c], "clear")

RetireSick(c) == pc[c] = "retireSick" /\ Retire(c, using[c], "read")

EnsureClear(c) ==
  /\ pc[c] = "clear"
  /\ file' = None
  /\ Goto(c, "spawn")
  /\ UNCHANGED <<flow, version, cached, using, seen, installed, ownerVars>>

\* The child runs the binary now on disk.
Spawn(c) ==
  /\ pc[c] = "spawn"
  /\ \E p \in Procs :
       /\ state[p] = "unborn"
       /\ state' = [state EXCEPT ![p] = "spawned"]
       /\ build' = [build EXCEPT ![p] = installed]
  /\ Goto(c, "poll")
  /\ UNCHANGED <<flow, version, cached, using, seen, file, installed,
                 lock, port, stamp, overtaken>>

SpawnFails(c) ==
  /\ pc[c] = "spawn"
  /\ Fail(c)
  /\ UNCHANGED <<file, installed, ownerVars>>

PollRead(c) == pc[c] = "poll" /\ Read(c, "pollWait", "pollPing")

\* Any endpoint that answers will do, whatever its build.
PollAttach(c) ==
  /\ pc[c] = "pollPing"
  /\ PingOk(seen[c])
  /\ Attach(c, seen[c])
  /\ UNCHANGED <<file, installed, ownerVars>>

PollPingFails(c) == pc[c] = "pollPing" /\ Drop(c, "pollWait")

PollAgain(c) ==
  /\ pc[c] = "pollWait"
  /\ Goto(c, "poll")
  /\ UNCHANGED <<flow, version, cached, using, seen, file, installed, ownerVars>>

PollDeadline(c) ==
  /\ pc[c] = "pollWait"
  /\ Fail(c)
  /\ UNCHANGED <<file, installed, ownerVars>>

-----------------------------------------------------------------------------
(* Client steps: recover_owner, after `using` could not be reached.        *)

RecoverRead(c) == pc[c] = "recRead" /\ Read(c, "recCheck", "recPing")

RecoverAttach(c) ==
  /\ pc[c] = "recPing"
  /\ PingOk(seen[c])
  /\ Attach(c, seen[c])
  /\ UNCHANGED <<file, installed, ownerVars>>

RecoverPingFails(c) == pc[c] = "recPing" /\ Drop(c, "recCheck")

\* A live process behind the endpoint is a live writer: refuse the call.
RecoverRefuses(c) ==
  /\ pc[c] = "recCheck"
  /\ Alive(using[c])
  /\ EndCall(c)
  /\ UNCHANGED <<file, installed, ownerVars>>

RecoverFindsDead(c) ==
  /\ pc[c] = "recCheck"
  /\ ~Alive(using[c])
  /\ Goto(c, "recClear")
  /\ UNCHANGED <<flow, version, cached, using, seen, file, installed, ownerVars>>

RecoverClear(c) ==
  /\ pc[c] = "recClear"
  /\ file' = None
  /\ Goto(c, "read")
  /\ UNCHANGED <<flow, version, cached, using, seen, installed, ownerVars>>

-----------------------------------------------------------------------------
(* Owner process steps.                                                    *)

\* Mutant: contention is taken for acquisition.
TryLockIgnoringHolder(p) ==
  /\ state[p] = "spawned"
  /\ lock' = p
  /\ state' = [state EXCEPT ![p] = "starting"]
  /\ UNCHANGED <<file, installed, port, build, stamp, overtaken, clientVars>>

TryLock(p) ==
  /\ state[p] = "spawned"
  /\ lock = None
  /\ lock' = p
  /\ state' = [state EXCEPT ![p] = "starting"]
  /\ UNCHANGED <<file, installed, port, build, stamp, overtaken, clientVars>>

\* Mutant: whoever exits removes the lock file.
DieUnlinkingLock(p) ==
  /\ state' = [state EXCEPT ![p] = "dead"]
  /\ lock' = None
  /\ UNCHANGED <<file, installed, port, build, stamp, overtaken, clientVars>>

\* The process ends; the kernel drops its lock in the same instant.
Die(p) ==
  /\ state' = [state EXCEPT ![p] = "dead"]
  /\ lock' = IF lock = p THEN None ELSE lock
  /\ UNCHANGED <<file, installed, port, build, stamp, overtaken, clientVars>>

\* Another process holds the lock: the doomed second owner exits.
LockContended(p) == state[p] = "spawned" /\ lock # None /\ Die(p)

\* The lock file, init, bind or the endpoint write reported an error.
StartupFails(p) == state[p] \in {"spawned", "starting", "bound"} /\ Die(p)

\* init succeeded, the listener is bound, perhaps to a port that a dead owner
\* had, and the fingerprint is computed.
Bind(p) ==
  /\ state[p] = "starting"
  /\ state' = [state EXCEPT ![p] = "bound"]
  /\ \/ port' = [port EXCEPT ![p] = p]
     \/ \E q \in Procs : /\ state[q] = "dead"
                         /\ port[q] # None
                         /\ port' = [port EXCEPT ![p] = port[q]]
  /\ stamp' = [stamp EXCEPT ![p] = <<build[p][1], installed[2]>>]
  /\ UNCHANGED <<lock, file, installed, build, overtaken, clientVars>>

Publish(p) ==
  /\ state[p] = "bound"
  /\ state' = [state EXCEPT ![p] = "serving"]
  /\ file' = p
  /\ UNCHANGED <<lock, port, build, stamp, overtaken, installed, clientVars>>

\* Publishing and restoring truncate the file before they write it: until the
\* write a reader finds nothing it can parse.
Truncate(p) ==
  /\ state[p] = "bound" \/ Answering(p)
  /\ file \notin {p, None}
  /\ file' = None
  /\ UNCHANGED <<installed, ownerVars, clientVars>>

\* Mutant: only an overwritten registration is restored, not a missing one.
WatchdogReassertOverwritten(p) ==
  /\ Answering(p)
  /\ file \notin {p, None}
  /\ file' = p
  /\ UNCHANGED <<installed, ownerVars, clientVars>>

\* The watchdog runs from publication to the end of the process.
WatchdogReassert(p) ==
  /\ Answering(p)
  /\ file # p
  /\ file' = p
  /\ UNCHANGED <<installed, ownerVars, clientVars>>

\* The watchdog found the workspace state gone.
WatchdogExit(p) == Answering(p) /\ Die(p)

\* The idle timeout, or the retiring flag, ends the accept loop.
StopAccepting(p) ==
  /\ state[p] \in {"serving", "retiring"}
  /\ state' = [state EXCEPT ![p] = "draining"]
  /\ UNCHANGED <<lock, file, port, build, stamp, overtaken, installed, clientVars>>

DrainDone(p) == state[p] = "draining" /\ Die(p)

Crash(p) == Alive(p) /\ Die(p)

-----------------------------------------------------------------------------
\* A new build replaces the binary on disk, of the same version or of the next.
Install ==
  /\ installed[2] < MaxBuild
  /\ \E v \in Versions \cap {installed[1], installed[1] + 1} :
       installed' = <<v, installed[2] + 1>>
  /\ overtaken' = overtaken \union {p \in Procs : state[p] \in {"spawned", "starting"}}
  /\ UNCHANGED <<file, lock, state, port, build, stamp, clientVars>>

ClientStep(c) ==
  \/ SessionStart(c) \/ SessionEnd(c)
  \/ CallStart(c) \/ CallStartSick(c) \/ SendDone(c) \/ SendFails(c)
  \/ EnsureRead(c) \/ EnsureAttach(c) \/ EnsureFindsStaleBuild(c)
  \/ EnsurePingFails(c) \/ EnsureRetire(c) \/ RetireSick(c)
  \/ EnsureClear(c) \/ Spawn(c) \/ SpawnFails(c)
  \/ PollRead(c) \/ PollAttach(c) \/ PollPingFails(c)
  \/ PollAgain(c) \/ PollDeadline(c)
  \/ RecoverRead(c) \/ RecoverAttach(c) \/ RecoverPingFails(c)
  \/ RecoverRefuses(c) \/ RecoverFindsDead(c) \/ RecoverClear(c)

OwnerStep(p) ==
  \/ TryLock(p) \/ LockContended(p) \/ StartupFails(p) \/ Bind(p)
  \/ Truncate(p) \/ Publish(p) \/ WatchdogReassert(p) \/ WatchdogExit(p)
  \/ StopAccepting(p) \/ DrainDone(p) \/ Crash(p)

Next ==
  \/ Install
  \/ \E c \in Clients : ClientStep(c)
  \/ \E p \in Procs : OwnerStep(p)

Spec == Init /\ [][Next]_vars

-----------------------------------------------------------------------------
(* Properties.                                                             *)

\* At most one process runs the application's startup or serves requests:
\* from try_acquire to process death nobody else gets past the lock, through
\* crashes, lost retirements and any number of clients spawning at once.
SingleOwner ==
  \A p, q \in Procs :
    state[p] \in HoldingStates /\ state[q] \in HoldingStates => p = q

\* The endpoint file names only a process that won the lock and finished its
\* startup: a doomed second owner never publishes, and no client can dial an
\* application that is still starting.
RegistrationAuthentic == file # None => state[file] \in PublishedStates

\* recover_owner clears the registration and elects only once the process it
\* could not reach is dead, however long ago it looked.
NoRivalElection ==
  \A c \in Clients :
    flow[c] = "recover" /\ pc[c] \in EnsurePcs \union {"recClear"}
      => using[c] # None /\ state[using[c]] = "dead"

\* An endpoint that ensure_owner_process or recover_owner hands out is that of
\* a live owner, not of a dead one whose port answered (recover_owner: "Whoever
\* is registered and answering a ping right now is the live owner").
HandedOutOwnersAnswer ==
  [][\A c \in Clients :
       /\ pc[c] \in {"ping", "pollPing", "recPing"}
       /\ pc'[c] \in {"ready", "send"}
       => Answering(seen[c])]_vars

\* A session that attaches to a running owner attaches to one that runs the binary on
\* disk, whether or not the rebuild bumped the version.  Excluded is an owner of the
\* session's own version that a reinstall overtook between its exec and the moment it
\* computed its fingerprint: it has stamped itself with the binary that replaced it.
RebuildTakesEffect ==
  [][\A c \in Clients :
       /\ pc[c] = "ping"
       /\ pc'[c] \in {"ready", "send"}
       => \/ build[seen[c]] = installed
          \/ seen[c] \in overtaken /\ build[seen[c]][1] = version[c]]_vars

\* What current_build_fingerprint says (1537-1538), of every owner: an owner of
\* another build than the one on disk is never attached to, it is retired.
StaleOwnerRetired ==
  [][\A c \in Clients :
       /\ pc[c] = "ping"
       /\ pc'[c] \in {"ready", "send"}
       => build[seen[c]] = installed]_vars

\* What ensure_owner_process says (424-426): a new version takes effect on the next
\* session, also on one that did not find its owner registered at once.
NextSessionRunsRebuild ==
  [][\A c \in Clients :
       /\ flow[c] = "start" /\ pc[c] = "pollPing" /\ pc'[c] = "ready"
       => build[seen[c]][1] >= version[c]]_vars

\* An owner is asked to make way for another build only when the binary it
\* was started from is not the one on disk.
RetiresOnlyOtherBinaries ==
  \A c \in Clients : pc[c] = "retire" => build[seen[c]] # installed

-----------------------------------------------------------------------------
(* The promise to the layers above: the lock holder is the writer, a process *)
(* that has bound its listener has finished its startup.                   *)

Service == INSTANCE OwnerService WITH
             writer <- lock,
             ready <- {p \in Procs : port[p] # None},
             past <- {p \in Procs : state[p] = "dead"},
             registered <- file

\* Every step of the election is a step of the service it promises, or none.
ImplementsService == Service!SSpec

-----------------------------------------------------------------------------
(* Fairness.  The threads of a running process are scheduled: an owner's    *)
(* main thread and watchdog, and a client that has a session.  Installs,   *)
(* crashes, idle timeouts, session ends and lost messages never have to    *)
(* happen; a retiring owner's accept loop and its bounded drain do end.    *)
(* The deadline of a poll is a clock reading: a client that keeps polling   *)
(* meets it, which is strong fairness of PollDeadline.                      *)

OwnerProgress(p) ==
  \/ TryLock(p) \/ LockContended(p) \/ Bind(p) \/ Publish(p)
  \/ state[p] = "retiring" /\ StopAccepting(p)
  \/ DrainDone(p)

\* The client takes its next step; a ping or a request it cannot get through
\* fails.
ClientProgress(c) == pc[c] # "off" /\ ClientStep(c) /\ ~SessionEnd(c)

Fairness ==
  /\ \A p \in Procs : WF_vars(OwnerProgress(p)) /\ WF_vars(WatchdogReassert(p))
  /\ \A c \in Clients : WF_vars(ClientProgress(c)) /\ SF_vars(PollDeadline(c))

FairSpec == Spec /\ Fairness

\* While an owner serves, its registration never stays lost or overwritten,
\* whichever clients keep clearing the file.
RegistrationRestored ==
  \A p \in Procs : state[p] = "serving" ~> (file = p \/ state[p] # "serving")

\* What the environment may do to the protocol: an install, the end of a
\* session, a health verdict, a lost request, ping or spawn, an owner that
\* fails, is killed or reaps itself.
Fault ==
  \/ Install
  \/ \E c \in Clients :
       \/ SessionEnd(c)
       \/ CallStartSick(c)
       \/ SendFails(c) /\ PingOk(using[c])
       \/ SendDone(c) /\ ~PingOk(using[c])
       \/ /\ EnsurePingFails(c) \/ PollPingFails(c) \/ RecoverPingFails(c)
          /\ PingOk(seen[c])
       \/ SpawnFails(c)
  \/ \E p \in Procs :
       \/ StartupFails(p) \/ WatchdogExit(p) \/ Crash(p)
       \/ state[p] = "serving" /\ StopAccepting(p)

\* A dead owner wedges nobody: once the faults stop, a session that keeps
\* calling ends up with a serving, registered owner, unless the model has no
\* process left to spawn.
DeadOwnerReplaced ==
  <>[][~Fault]_vars =>
    \A c \in Clients :
      \/ <>[](pc[c] = "off")
      \/ <>[](\E p \in Procs : state[p] = "serving" /\ file = p)
      \/ <>[](\A p \in Procs : state[p] # "unborn")
=============================================================================
