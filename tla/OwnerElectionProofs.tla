------------------------- MODULE OwnerElectionProofs -------------------------
(***************************************************************************)
(* Theorems of OwnerElection, for any number of clients, owner processes   *)
(* and installs, with or without port reuse.                               *)
(*                                                                         *)
(* SingleOwner, RegistrationAuthentic and NoRivalElection are not          *)
(* inductive.  IInv ties the state of every process to the lock, records   *)
(* that whatever a client or the file names was published once, and what a *)
(* client knows at each of its steps.                                      *)
(***************************************************************************)
EXTENDS OwnerElection, TLAPS

\* The lock is held by the process past try_acquire, and only by it.
LockInv == \A p \in Procs : state[p] \in HoldingStates <=> lock = p

\* A process is published once its listener is bound.
PortInv ==
  \A p \in Procs :
    state[p] \in {"bound", "serving", "retiring", "draining"} => port[p] # None

\* Whatever a client holds an endpoint of has been published.
EndpointInv ==
  \A c \in Clients : \A p \in {cached[c], using[c], seen[c]} :
    p # None => state[p] \in PublishedStates

\* What is known at each step of a client.
ClientInv ==
  \A c \in Clients :
    /\ pc[c] \in {"ping", "pollPing", "recPing", "retire"} => seen[c] # None
    /\ pc[c] = "ready" => cached[c] # None
    /\ pc[c] \in CallPcs => using[c] # None /\ cached[c] # None
    /\ pc[c] = "retireSick" => flow[c] = "sick"
    /\ pc[c] \in RecoverPcs => flow[c] = "recover"
    /\ pc[c] \in EnsurePcs => flow[c] # "none"
    /\ flow[c] \in {"sick", "recover"} => using[c] # None /\ cached[c] # None

\* The part that speaks of processes, lock and file only.
OwnerInv == LockInv /\ PortInv /\ RegistrationAuthentic

\* The part that speaks of the clients' knowledge of the processes.
KnowledgeInv == EndpointInv /\ ClientInv /\ NoRivalElection

IInv == TypeOK /\ OwnerInv /\ KnowledgeInv

-----------------------------------------------------------------------------
(* Type correctness.                                                       *)

LEMMA EndCallTyped ==
  ASSUME TypeOK, NEW c \in Clients, EndCall(c)
  PROVE  /\ pc' \in [Clients -> Pcs]
         /\ flow' \in [Clients -> Flows]
         /\ version' \in [Clients -> Versions]
         /\ cached' \in [Clients -> Procs \union {None}]
         /\ using' \in [Clients -> Procs \union {None}]
         /\ seen' \in [Clients -> Procs \union {None}]
BY DEF TypeOK, EndCall, Goto, Pcs, Flows

LEMMA AttachTyped ==
  ASSUME TypeOK, NEW c \in Clients, Attach(c, seen[c])
  PROVE  /\ pc' \in [Clients -> Pcs]
         /\ flow' \in [Clients -> Flows]
         /\ version' \in [Clients -> Versions]
         /\ cached' \in [Clients -> Procs \union {None}]
         /\ using' \in [Clients -> Procs \union {None}]
         /\ seen' \in [Clients -> Procs \union {None}]
<1>1. CASE EndCall(c)
  BY <1>1, EndCallTyped
<1>2. CASE ~EndCall(c)
  BY <1>2 DEF TypeOK, Attach, Goto, Pcs, Flows, CallPcs
<1>3. QED
  BY <1>1, <1>2

LEMMA FailTyped ==
  ASSUME TypeOK, NEW c \in Clients, Fail(c)
  PROVE  /\ pc' \in [Clients -> Pcs]
         /\ flow' \in [Clients -> Flows]
         /\ version' \in [Clients -> Versions]
         /\ cached' \in [Clients -> Procs \union {None}]
         /\ using' \in [Clients -> Procs \union {None}]
         /\ seen' \in [Clients -> Procs \union {None}]
<1>1. CASE EndCall(c)
  BY <1>1, EndCallTyped
<1>2. CASE ~EndCall(c)
  BY <1>2, BuildAssumption DEF TypeOK, Fail, Goto, Pcs, Flows, Versions
<1>3. QED
  BY <1>1, <1>2

LEMMA ClientStepTyped ==
  ASSUME TypeOK, NEW c \in Clients, ClientStep(c)
  PROVE  TypeOK'
<1> USE DEF TypeOK, ownerVars, Goto, Pcs, EnsurePcs, RecoverPcs, CallPcs, Flows
<1>1. ASSUME SessionStart(c) \/ SessionEnd(c) PROVE TypeOK'
  <2>1. installed[1] \in Versions /\ 1 \in Versions
    BY BuildAssumption DEF Versions, Builds
  <2>2. CASE SessionStart(c)
    BY <2>1, <2>2 DEF SessionStart
  <2>3. CASE SessionEnd(c)
    BY <2>1, <2>3 DEF SessionEnd
  <2>4. QED
    BY <1>1, <2>2, <2>3
<1>2. ASSUME CallStart(c) \/ CallStartSick(c) \/ SendFails(c) PROVE TypeOK'
  BY <1>2 DEF CallStart, CallStartSick, SendFails
<1>3. ASSUME SendDone(c) \/ RecoverRefuses(c) PROVE TypeOK'
  BY <1>3, EndCallTyped DEF SendDone, RecoverRefuses
<1>4. ASSUME EnsureRead(c) \/ PollRead(c) \/ RecoverRead(c) PROVE TypeOK'
  BY <1>4 DEF EnsureRead, PollRead, RecoverRead, Read
<1>5. ASSUME EnsureAttach(c) \/ PollAttach(c) \/ RecoverAttach(c) PROVE TypeOK'
  BY <1>5, AttachTyped DEF EnsureAttach, PollAttach, RecoverAttach
<1>6. ASSUME EnsurePingFails(c) \/ PollPingFails(c) \/ RecoverPingFails(c)
      PROVE  TypeOK'
  BY <1>6 DEF EnsurePingFails, PollPingFails, RecoverPingFails, Drop
<1>7. ASSUME EnsureRetire(c) \/ RetireSick(c) PROVE TypeOK'
  BY <1>7 DEF EnsureRetire, RetireSick, Retire, ProcStates
<1>8. ASSUME EnsureClear(c) \/ RecoverClear(c) \/ RecoverFindsDead(c)
             \/ PollAgain(c) \/ EnsureFindsStaleBuild(c)
      PROVE  TypeOK'
  BY <1>8 DEF EnsureClear, RecoverClear, RecoverFindsDead, PollAgain,
              EnsureFindsStaleBuild
<1>9. ASSUME Spawn(c) PROVE TypeOK'
  BY <1>9 DEF Spawn, ProcStates
<1>10. ASSUME SpawnFails(c) \/ PollDeadline(c) PROVE TypeOK'
  BY <1>10, FailTyped DEF SpawnFails, PollDeadline
<1>11. QED
  BY <1>1, <1>2, <1>3, <1>4, <1>5, <1>6, <1>7, <1>8, <1>9, <1>10 DEF ClientStep

LEMMA OwnerStepTyped ==
  ASSUME TypeOK, NEW p \in Procs, OwnerStep(p)
  PROVE  TypeOK'
<1> USE DEF TypeOK, ProcStates, ownerVars, clientVars
<1>1. ASSUME Die(p) PROVE TypeOK'
  BY <1>1 DEF Die
<1>2. ASSUME TryLock(p) \/ Publish(p) \/ StopAccepting(p) PROVE TypeOK'
  BY <1>2 DEF TryLock, Publish, StopAccepting
<1>3. ASSUME Bind(p) PROVE TypeOK'
  <2>1. port' \in [Procs -> Procs \union {None}]
    BY <1>3 DEF Bind
  <2>2. stamp' \in [Procs -> Builds]
    BY <1>3 DEF Bind, Builds
  <2>3. QED
    BY <1>3, <2>1, <2>2 DEF Bind
<1>4. ASSUME WatchdogReassert(p) \/ Truncate(p) PROVE TypeOK'
  BY <1>4 DEF WatchdogReassert, Truncate
<1>5. QED
  BY <1>1, <1>2, <1>3, <1>4 DEF OwnerStep, LockContended, StartupFails,
     WatchdogExit, DrainDone, Crash

LEMMA NextTyped == TypeOK /\ [Next]_vars => TypeOK'
<1> SUFFICES ASSUME TypeOK, [Next]_vars PROVE TypeOK'
  OBVIOUS
<1>1. CASE Install
  <2>1. installed' \in Builds
    BY <1>1, BuildAssumption DEF Install, TypeOK, Versions, Builds
  <2> QED
    BY <1>1, <2>1 DEF Install, TypeOK, clientVars
<1>2. CASE UNCHANGED vars
  BY <1>2 DEF vars, TypeOK
<1>3. QED
  BY <1>1, <1>2, ClientStepTyped, OwnerStepTyped DEF Next

LEMMA InitTyped == Init => TypeOK
BY BuildAssumption DEF Init, TypeOK, ProcStates, Pcs, Flows, Versions, Builds

\* Every variable keeps its type, whatever the clients and owners do.
THEOREM TypeCorrect == Spec => []TypeOK
BY InitTyped, NextTyped, PTL DEF Spec

-----------------------------------------------------------------------------
(* Lock, listener and registration.                                        *)

LEMMA InitOwnerInv == Init => OwnerInv
BY ProcsAssumption
   DEF Init, OwnerInv, LockInv, PortInv, RegistrationAuthentic, HoldingStates

LEMMA DieKeepsOwnerInv ==
  ASSUME TypeOK, OwnerInv, NEW p \in Procs, Die(p)
  PROVE  OwnerInv'
<1> USE DEF TypeOK, Die, OwnerInv
<1>1. LockInv'
  BY ProcsAssumption DEF LockInv, HoldingStates
<1>2. PortInv'
  BY DEF PortInv
<1>3. RegistrationAuthentic'
  BY DEF RegistrationAuthentic, PublishedStates
<1>4. QED
  BY <1>1, <1>2, <1>3

LEMMA OwnerStepKeepsOwnerInv ==
  ASSUME TypeOK, OwnerInv, NEW p \in Procs, OwnerStep(p)
  PROVE  OwnerInv'
<1> USE DEF TypeOK, OwnerInv, LockInv, PortInv, RegistrationAuthentic,
            HoldingStates, PublishedStates, ownerVars
<1>1. CASE Die(p)
  BY <1>1, DieKeepsOwnerInv
<1>2. CASE TryLock(p)
  BY <1>2, ProcsAssumption DEF TryLock
<1>3. CASE Bind(p)
  <2>1. PortInv'
    <3>1. port'[p] # None
      BY <1>3, ProcsAssumption DEF Bind
    <3>2. \A q \in Procs \ {p} : port'[q] = port[q] /\ state'[q] = state[q]
      BY <1>3 DEF Bind
    <3>3. QED
      BY <3>1, <3>2
  <2>2. LockInv' /\ RegistrationAuthentic'
    BY <1>3 DEF Bind
  <2>3. QED
    BY <2>1, <2>2
<1>4. CASE Publish(p)
  BY <1>4 DEF Publish
<1>5. CASE WatchdogReassert(p) \/ Truncate(p)
  BY <1>5 DEF WatchdogReassert, Truncate, Answering
<1>6. CASE StopAccepting(p)
  BY <1>6 DEF StopAccepting
<1>7. QED
  BY <1>1, <1>2, <1>3, <1>4, <1>5, <1>6 DEF OwnerStep, LockContended,
     StartupFails, WatchdogExit, DrainDone, Crash

\* What a client does to the processes: it may set one off to retire, spawn an
\* unborn one, or clear the file.
LEMMA ClientStepEffect ==
  ASSUME NEW c \in Clients, ClientStep(c)
  PROVE  /\ lock' = lock /\ port' = port
         /\ file' = file \/ file' = None
         /\ \/ state' = state
            \/ \E v : state[v] = "serving" /\ state' = [state EXCEPT ![v] = "retiring"]
            \/ \E q \in Procs : /\ state[q] = "unborn"
                                /\ state' = [state EXCEPT ![q] = "spawned"]
<1> USE DEF ownerVars
<1>1. ASSUME SessionStart(c) \/ SessionEnd(c) \/ CallStart(c) \/ CallStartSick(c)
             \/ SendDone(c) \/ SendFails(c)
      PROVE  UNCHANGED <<lock, port, state, file>>
  BY <1>1 DEF SessionStart, SessionEnd, CallStart, CallStartSick, SendDone, SendFails
<1>2. ASSUME EnsureRead(c) \/ EnsureAttach(c) \/ EnsureFindsStaleBuild(c)
             \/ EnsurePingFails(c) \/ SpawnFails(c) \/ PollRead(c) \/ PollAttach(c)
             \/ PollPingFails(c) \/ PollAgain(c) \/ PollDeadline(c)
      PROVE  UNCHANGED <<lock, port, state, file>>
  BY <1>2 DEF EnsureRead, EnsureAttach, EnsureFindsStaleBuild, EnsurePingFails,
              SpawnFails, PollRead, PollAttach, PollPingFails, PollAgain,
              PollDeadline, Read, Drop
<1>3. ASSUME RecoverRead(c) \/ RecoverAttach(c) \/ RecoverPingFails(c)
             \/ RecoverRefuses(c) \/ RecoverFindsDead(c)
      PROVE  UNCHANGED <<lock, port, state, file>>
  BY <1>3 DEF RecoverRead, RecoverAttach, RecoverPingFails, RecoverRefuses,
              RecoverFindsDead, Read, Drop
<1>4. ASSUME EnsureClear(c) \/ RecoverClear(c)
      PROVE  UNCHANGED <<lock, port, state>> /\ file' = None
  BY <1>4 DEF EnsureClear, RecoverClear
<1>5. ASSUME EnsureRetire(c) \/ RetireSick(c)
      PROVE  /\ UNCHANGED <<lock, port, file>>
             /\ \/ state' = state
                \/ \E v : /\ state[v] = "serving"
                         /\ state' = [state EXCEPT ![v] = "retiring"]
  BY <1>5 DEF EnsureRetire, RetireSick, Retire
<1>6. ASSUME Spawn(c)
      PROVE  /\ UNCHANGED <<lock, port, file>>
             /\ \E q \in Procs : /\ state[q] = "unborn"
                                 /\ state' = [state EXCEPT ![q] = "spawned"]
  BY <1>6 DEF Spawn
<1>7. QED
  BY <1>1, <1>2, <1>3, <1>4, <1>5, <1>6 DEF ClientStep

LEMMA ClientStepKeepsOwnerInv ==
  ASSUME TypeOK, OwnerInv, NEW c \in Clients, ClientStep(c)
  PROVE  OwnerInv'
BY ClientStepEffect
   DEF TypeOK, OwnerInv, LockInv, PortInv, RegistrationAuthentic,
       HoldingStates, PublishedStates

LEMMA NextOwnerInv == TypeOK /\ OwnerInv /\ [Next]_vars => OwnerInv'
<1> SUFFICES ASSUME TypeOK, OwnerInv, [Next]_vars PROVE OwnerInv'
  OBVIOUS
<1>1. CASE Install \/ UNCHANGED vars
  BY <1>1 DEF Install, ownerVars, vars, OwnerInv, LockInv, PortInv,
              RegistrationAuthentic
<1>2. QED
  BY <1>1, ClientStepKeepsOwnerInv, OwnerStepKeepsOwnerInv DEF Next

LEMMA OwnerInvCorrect == Spec => []OwnerInv
BY InitOwnerInv, NextOwnerInv, TypeCorrect, PTL DEF Spec

\* Two processes never run the application's startup or serve at once, however
\* many clients spawn and whatever is lost or killed (run_owner_server).
THEOREM OneOwner == Spec => []SingleOwner
<1>1. OwnerInv => SingleOwner
  BY DEF OwnerInv, LockInv, SingleOwner
<1>2. QED
  BY <1>1, OwnerInvCorrect, PTL

\* The registration names a process that won the lock and finished its startup
\* (run_owner_server, spawn_owner_watchdog).
THEOREM RegistrationIsAuthentic == Spec => []RegistrationAuthentic
BY OwnerInvCorrect, PTL DEF OwnerInv

-----------------------------------------------------------------------------
(* The election implements the service it promises.                        *)

LEMMA InitRefines == Init => Service!SInit
BY DEF Init, Service!SInit

LEMMA DieRefines ==
  ASSUME TypeOK, NEW p \in Procs, state[p] # "dead", Die(p)
  PROVE  Service!End(p)
BY DEF TypeOK, Die, Service!End

LEMMA OwnerStepRefines ==
  ASSUME TypeOK, OwnerInv, NEW p \in Procs, OwnerStep(p)
  PROVE  Service!SNext \/ UNCHANGED Service!svars
<1> USE DEF TypeOK, ownerVars, Service!SNext, Service!svars
<1>1. CASE state[p] # "dead" /\ Die(p)
  BY <1>1, DieRefines
<1>2. CASE TryLock(p)
  BY <1>2 DEF TryLock, Service!Elect
<1>3. CASE Bind(p)
  <2>1. lock = p
    BY <1>3 DEF Bind, OwnerInv, LockInv, HoldingStates
  <2>2. port'[p] # None
    BY <1>3, ProcsAssumption DEF Bind
  <2>3. \A q \in Procs \ {p} : port'[q] = port[q]
    BY <1>3 DEF Bind
  <2>4. {q \in Procs : port'[q] # None} = {q \in Procs : port[q] # None} \union {p}
    BY <2>2, <2>3
  <2>5. {q \in Procs : state'[q] = "dead"} = {q \in Procs : state[q] = "dead"}
    BY <1>3 DEF Bind
  <2>6. Service!BecomeReady(p)
    BY <1>3, <2>1, <2>4, <2>5 DEF Bind, Service!BecomeReady
  <2>7. QED
    BY <2>6
<1>4. CASE Publish(p)
  BY <1>4 DEF Publish, Service!Register, OwnerInv, LockInv, PortInv, HoldingStates
<1>5. CASE WatchdogReassert(p)
  BY <1>5 DEF WatchdogReassert, Answering, Service!Register, OwnerInv, LockInv,
              PortInv, HoldingStates
<1>6. CASE StopAccepting(p)
  BY <1>6 DEF StopAccepting
<1>7. CASE Truncate(p)
  BY <1>7 DEF Truncate, Service!Unregister
<1>8. QED
  BY <1>1, <1>2, <1>3, <1>4, <1>5, <1>6, <1>7 DEF OwnerStep, LockContended,
     StartupFails, WatchdogExit, DrainDone, Crash, Answering, Alive

LEMMA ClientStepRefines ==
  ASSUME TypeOK, NEW c \in Clients, ClientStep(c)
  PROVE  Service!SNext \/ UNCHANGED Service!svars
<1>1. {q \in Procs : state'[q] = "dead"} = {q \in Procs : state[q] = "dead"}
  BY ClientStepEffect DEF TypeOK
<1>2. QED
  BY <1>1, ClientStepEffect DEF Service!SNext, Service!Unregister, Service!svars

LEMMA NextRefines ==
  TypeOK /\ OwnerInv /\ [Next]_vars => [Service!SNext]_(Service!svars)
<1> SUFFICES ASSUME TypeOK, OwnerInv, [Next]_vars
             PROVE  Service!SNext \/ UNCHANGED Service!svars
  OBVIOUS
<1>1. CASE Install \/ UNCHANGED vars
  BY <1>1 DEF Install, ownerVars, vars, Service!svars
<1>2. QED
  BY <1>1, ClientStepRefines, OwnerStepRefines DEF Next

\* Every behaviour of clients and owners is one of the promised service: a
\* writer is elected only when there is none, and only the ready writer registers.
THEOREM ElectionImplementsService == Spec => ImplementsService
BY InitRefines, NextRefines, TypeCorrect, OwnerInvCorrect, PTL
   DEF Spec, ImplementsService, Service!SSpec

-----------------------------------------------------------------------------
(* What clients know.                                                      *)

LEMMA InitKnowledge == Init => KnowledgeInv
BY DEF Init, KnowledgeInv, EndpointInv, ClientInv, NoRivalElection, EnsurePcs,
       RecoverPcs, CallPcs

\* Published and dead processes stay so, whoever takes a step.
LEMMA ProcessesAge ==
  ASSUME TypeOK, Next
  PROVE  \A p \in Procs :
           /\ state[p] \in PublishedStates => state'[p] \in PublishedStates
           /\ state[p] = "dead" => state'[p] = "dead"
<1> USE DEF TypeOK, PublishedStates
<1>1. CASE Install
  BY <1>1 DEF Install, ownerVars
<1>2. ASSUME NEW c \in Clients, ClientStep(c)
      PROVE  \A p \in Procs :
               /\ state[p] \in PublishedStates => state'[p] \in PublishedStates
               /\ state[p] = "dead" => state'[p] = "dead"
  BY <1>2, ClientStepEffect
<1>3. ASSUME NEW q \in Procs, OwnerStep(q)
      PROVE  \A p \in Procs :
               /\ state[p] \in PublishedStates => state'[p] \in PublishedStates
               /\ state[p] = "dead" => state'[p] = "dead"
  BY <1>3 DEF OwnerStep, Die, TryLock, LockContended, StartupFails, Bind, Publish,
     Truncate, WatchdogReassert, WatchdogExit, StopAccepting, DrainDone, Crash, ownerVars
<1>4. QED
  BY <1>1, <1>2, <1>3 DEF Next

LEMMA FrameKnowledge ==
  ASSUME TypeOK, KnowledgeInv, UNCHANGED clientVars,
         \A p \in Procs :
           /\ state[p] \in PublishedStates => state'[p] \in PublishedStates
           /\ state[p] = "dead" => state'[p] = "dead"
  PROVE  KnowledgeInv'
<1> USE DEF TypeOK, KnowledgeInv, clientVars
<1>1. EndpointInv'
  BY DEF EndpointInv
<1>2. ClientInv'
  BY DEF ClientInv
<1>3. NoRivalElection'
  BY DEF NoRivalElection
<1>4. QED
  BY <1>1, <1>2, <1>3

\* A step of client c leaves the other clients' variables alone; what is left to
\* show of it is what c itself knows afterwards.
Knows(c) ==
  /\ \A p \in {cached[c], using[c], seen[c]} : p # None => state[p] \in PublishedStates
  /\ pc[c] \in {"ping", "pollPing", "recPing", "retire"} => seen[c] # None
  /\ pc[c] = "ready" => cached[c] # None
  /\ pc[c] \in CallPcs => using[c] # None /\ cached[c] # None
  /\ pc[c] = "retireSick" => flow[c] = "sick"
  /\ pc[c] \in RecoverPcs => flow[c] = "recover"
  /\ pc[c] \in EnsurePcs => flow[c] # "none"
  /\ flow[c] \in {"sick", "recover"} => using[c] # None /\ cached[c] # None
  /\ flow[c] = "recover" /\ pc[c] \in EnsurePcs \union {"recClear"}
       => using[c] # None /\ state[using[c]] = "dead"

LEMMA KnowledgeOfEach == KnowledgeInv <=> \A c \in Clients : Knows(c)
BY DEF KnowledgeInv, EndpointInv, ClientInv, NoRivalElection, Knows

LEMMA EndCallKnows ==
  ASSUME TypeOK, NEW c \in Clients, EndCall(c), cached[c] # None,
         Knows(c), state' = state
  PROVE  Knows(c)'
BY DEF TypeOK, Knows, EndCall, Goto, EnsurePcs, RecoverPcs, CallPcs

LEMMA AttachKnows ==
  ASSUME TypeOK, NEW c \in Clients, Attach(c, seen[c]), seen[c] # None,
         flow[c] # "none", Knows(c), state' = state
  PROVE  Knows(c)'
<1>1. CASE EndCall(c)
  <2>1. CASE flow[c] \in {"sick", "recover"}
    BY <1>1, <2>1, EndCallKnows DEF Knows
  <2>2. CASE flow[c] = "start"
    BY <2>2 DEF Attach, TypeOK, Knows, Goto, EnsurePcs, RecoverPcs, CallPcs
  <2>3. QED
    BY <2>1, <2>2 DEF TypeOK, Flows
<1>2. CASE ~EndCall(c)
  BY <1>2 DEF TypeOK, Attach, Knows, Goto, EnsurePcs, RecoverPcs, CallPcs
<1>3. QED
  BY <1>1, <1>2

LEMMA FailKnows ==
  ASSUME TypeOK, NEW c \in Clients, Fail(c), flow[c] # "none", Knows(c),
         state' = state
  PROVE  Knows(c)'
<1>1. CASE flow[c] = "start"
  BY <1>1 DEF TypeOK, Fail, Knows, Goto, EnsurePcs, RecoverPcs, CallPcs
<1>2. CASE flow[c] # "start"
  BY <1>2, EndCallKnows DEF Fail, Knows, TypeOK, Flows
<1>3. QED
  BY <1>1, <1>2

LEMMA ClientStepKnows ==
  ASSUME TypeOK, RegistrationAuthentic, NEW c \in Clients, Knows(c),
         ClientStep(c)
  PROVE  Knows(c)'
<1> USE DEF TypeOK, ownerVars, Goto, EnsurePcs, RecoverPcs, CallPcs
<1>1. ASSUME SessionStart(c) \/ SessionEnd(c) PROVE Knows(c)'
  BY <1>1 DEF SessionStart, SessionEnd, Knows
<1>2. ASSUME CallStart(c) \/ CallStartSick(c) \/ SendFails(c) PROVE Knows(c)'
  BY <1>2 DEF CallStart, CallStartSick, SendFails, Knows
<1>3. ASSUME SendDone(c) \/ RecoverRefuses(c) PROVE Knows(c)'
  BY <1>3, EndCallKnows DEF SendDone, RecoverRefuses, Knows
<1>4. ASSUME EnsureRead(c) \/ PollRead(c) \/ RecoverRead(c) PROVE Knows(c)'
  BY <1>4 DEF EnsureRead, PollRead, RecoverRead, Read, Knows, RegistrationAuthentic
<1>5. ASSUME EnsureAttach(c) \/ PollAttach(c) \/ RecoverAttach(c) PROVE Knows(c)'
  BY <1>5, AttachKnows DEF EnsureAttach, PollAttach, RecoverAttach, Knows
<1>6. ASSUME EnsurePingFails(c) \/ PollPingFails(c) \/ RecoverPingFails(c)
      PROVE  Knows(c)'
  BY <1>6 DEF EnsurePingFails, PollPingFails, RecoverPingFails, Drop, Knows
<1>7. ASSUME EnsureRetire(c) \/ RetireSick(c) PROVE Knows(c)'
  BY <1>7 DEF EnsureRetire, RetireSick, Retire, Knows, PublishedStates
<1>8. ASSUME EnsureClear(c) \/ RecoverClear(c) \/ PollAgain(c)
             \/ EnsureFindsStaleBuild(c)
      PROVE  Knows(c)'
  BY <1>8 DEF EnsureClear, RecoverClear, PollAgain, EnsureFindsStaleBuild, Knows
<1>9. ASSUME RecoverFindsDead(c) PROVE Knows(c)'
  BY <1>9 DEF RecoverFindsDead, Alive, Knows, PublishedStates
<1>10. ASSUME Spawn(c) PROVE Knows(c)'
  BY <1>10 DEF Spawn, Knows, PublishedStates
<1>11. ASSUME SpawnFails(c) \/ PollDeadline(c) PROVE Knows(c)'
  BY <1>11, FailKnows DEF SpawnFails, PollDeadline, Knows
<1>12. QED
  BY <1>1, <1>2, <1>3, <1>4, <1>5, <1>6, <1>7, <1>8, <1>9, <1>10, <1>11
     DEF ClientStep

\* The variables of client d keep their values.
Untouched(d) ==
  /\ pc'[d] = pc[d] /\ flow'[d] = flow[d]
  /\ cached'[d] = cached[d] /\ using'[d] = using[d] /\ seen'[d] = seen[d]

LEMMA OthersUntouched ==
  ASSUME TypeOK, NEW c \in Clients, NEW d \in Clients, c # d, ClientStep(c)
  PROVE  Untouched(d)
<1> USE DEF TypeOK, Untouched, Goto
<1>1. ASSUME SessionStart(c) \/ SessionEnd(c) \/ CallStart(c) \/ CallStartSick(c)
             \/ SendFails(c)
      PROVE  Untouched(d)
  BY <1>1 DEF SessionStart, SessionEnd, CallStart, CallStartSick, SendFails
<1>2. ASSUME SendDone(c) \/ RecoverRefuses(c) PROVE Untouched(d)
  BY <1>2 DEF SendDone, RecoverRefuses, EndCall
<1>3. ASSUME EnsureAttach(c) \/ PollAttach(c) \/ RecoverAttach(c) PROVE Untouched(d)
  BY <1>3 DEF EnsureAttach, PollAttach, RecoverAttach, Attach, EndCall
<1>4. ASSUME SpawnFails(c) \/ PollDeadline(c) PROVE Untouched(d)
  BY <1>4 DEF SpawnFails, PollDeadline, Fail, EndCall
<1>5. ASSUME EnsureRead(c) \/ PollRead(c) \/ RecoverRead(c) \/ EnsurePingFails(c)
             \/ PollPingFails(c) \/ RecoverPingFails(c)
      PROVE  Untouched(d)
  BY <1>5 DEF EnsureRead, PollRead, RecoverRead, Read, EnsurePingFails,
              PollPingFails, RecoverPingFails, Drop
<1>6. ASSUME EnsureRetire(c) \/ RetireSick(c) \/ EnsureClear(c) \/ RecoverClear(c)
             \/ PollAgain(c) \/ EnsureFindsStaleBuild(c) \/ RecoverFindsDead(c)
             \/ Spawn(c)
      PROVE  Untouched(d)
  BY <1>6 DEF EnsureRetire, RetireSick, Retire, EnsureClear, RecoverClear,
              PollAgain, EnsureFindsStaleBuild, RecoverFindsDead, Spawn
<1>7. QED
  BY <1>1, <1>2, <1>3, <1>4, <1>5, <1>6 DEF ClientStep

LEMMA UntouchedKnows ==
  ASSUME TypeOK, Next, NEW d \in Clients, Knows(d), Untouched(d)
  PROVE  Knows(d)'
BY ProcessesAge DEF TypeOK, Knows, Untouched

LEMMA NextKnowledge ==
  TypeOK /\ OwnerInv /\ KnowledgeInv /\ [Next]_vars => KnowledgeInv'
<1> SUFFICES ASSUME TypeOK, OwnerInv, KnowledgeInv, [Next]_vars
             PROVE  KnowledgeInv'
  OBVIOUS
<1>1. CASE UNCHANGED vars
  BY <1>1, FrameKnowledge DEF vars, clientVars
<1>2. CASE Install
  BY <1>2, FrameKnowledge DEF Install, ownerVars
<1>3. ASSUME NEW p \in Procs, OwnerStep(p) PROVE KnowledgeInv'
  <2>1. UNCHANGED clientVars
    BY <1>3 DEF OwnerStep, TryLock, LockContended, StartupFails, Bind, Publish,
       Truncate, WatchdogReassert, WatchdogExit, StopAccepting, DrainDone, Crash, Die
  <2>2. QED
    BY <1>3, <2>1, ProcessesAge, FrameKnowledge DEF Next
<1>4. ASSUME NEW c \in Clients, ClientStep(c) PROVE KnowledgeInv'
  <2>1. Next
    BY <1>4 DEF Next
  <2>2. \A d \in Clients : Knows(d)
    BY KnowledgeOfEach
  <2>3. Knows(c)'
    BY <1>4, <2>2, ClientStepKnows DEF OwnerInv
  <2>4. ASSUME NEW d \in Clients, d # c PROVE Knows(d)'
    BY <1>4, <2>1, <2>2, <2>4, OthersUntouched, UntouchedKnows
  <2>5. \A d \in Clients : Knows(d)'
    BY <2>3, <2>4
  <2>6. QED
    BY <2>5 DEF KnowledgeInv, EndpointInv, ClientInv, NoRivalElection, Knows
<1>5. QED
  BY <1>1, <1>2, <1>3, <1>4 DEF Next

LEMMA KnowledgeCorrect == Spec => []KnowledgeInv
BY InitKnowledge, NextKnowledge, TypeCorrect, OwnerInvCorrect, PTL DEF Spec

\* recover_owner elects only over a dead process: the owner it could not reach
\* is never duplicated, however stale the client's view is.
THEOREM NoRivalIsElected == Spec => []NoRivalElection
BY KnowledgeCorrect, PTL DEF KnowledgeInv

-----------------------------------------------------------------------------
(* The rebuild.  An owner has its listener once it has computed its            *)
(* fingerprint; until then, and after, a reinstall may come.                    *)

BuildInv(p) ==
  /\ port[p] # None =>
       /\ stamp[p][1] = build[p][1]
       /\ p \notin overtaken => stamp[p] = build[p]
  /\ state[p] = "unborn" => port[p] = None
  /\ state[p] \in {"spawned", "starting"} =>
       port[p] = None /\ (p \notin overtaken => build[p] = installed)
  /\ build[p][2] <= installed[2]
  /\ build[p][2] = installed[2] => build[p] = installed

BuildsInv == \A p \in Procs : BuildInv(p)

LEMMA InitBuilds == Init => BuildsInv
BY DEF Init, BuildsInv, BuildInv

\* A step that leaves the binary of p alone, and takes it no step back.
LEMMA FrameBuild ==
  ASSUME NEW p \in Procs, BuildInv(p),
         installed' = installed, overtaken' = overtaken,
         build'[p] = build[p], stamp'[p] = stamp[p], port'[p] = port[p],
         state'[p] \in {"unborn", "spawned", "starting"} =>
           \/ state'[p] = state[p]
           \/ state[p] = "spawned" /\ state'[p] = "starting"
  PROVE  BuildInv(p)'
BY DEF BuildInv

LEMMA ClientStepBuilds ==
  ASSUME TypeOK, BuildsInv, NEW c \in Clients, ClientStep(c)
  PROVE  BuildsInv'
<1> SUFFICES ASSUME NEW p \in Procs PROVE BuildInv(p)'
  BY DEF BuildsInv
<1>1. BuildInv(p)
  BY DEF BuildsInv
<1>2. CASE Spawn(c)
  <2>1. PICK q \in Procs : /\ state[q] = "unborn"
                           /\ state' = [state EXCEPT ![q] = "spawned"]
                           /\ build' = [build EXCEPT ![q] = installed]
    BY <1>2 DEF Spawn
  <2>2. CASE p = q
    BY <1>1, <1>2, <2>1, <2>2 DEF Spawn, BuildInv, TypeOK, Builds
  <2>3. CASE p # q
    BY <1>1, <1>2, <2>1, <2>3, FrameBuild DEF Spawn, TypeOK
  <2> QED
    BY <2>2, <2>3
<1>3. CASE ~Spawn(c)
  <2>1. UNCHANGED <<build, stamp, overtaken, installed>>
    BY <1>3 DEF ClientStep, SessionStart, SessionEnd, CallStart, CallStartSick, SendDone,
       SendFails, EnsureRead, EnsureAttach, EnsureFindsStaleBuild, EnsurePingFails,
       EnsureRetire, RetireSick, Retire, EnsureClear, SpawnFails, PollRead, PollAttach,
       PollPingFails, PollAgain, PollDeadline, RecoverRead, RecoverAttach,
       RecoverPingFails, RecoverRefuses, RecoverFindsDead, RecoverClear, Read, Drop,
       ownerVars
  <2>2. \/ state' = state
        \/ \E v : state[v] = "serving" /\ state' = [state EXCEPT ![v] = "retiring"]
    BY <1>3 DEF ClientStep, SessionStart, SessionEnd, CallStart, CallStartSick, SendDone,
       SendFails, EnsureRead, EnsureAttach, EnsureFindsStaleBuild, EnsurePingFails,
       EnsureRetire, RetireSick, Retire, EnsureClear, SpawnFails, PollRead, PollAttach,
       PollPingFails, PollAgain, PollDeadline, RecoverRead, RecoverAttach,
       RecoverPingFails, RecoverRefuses, RecoverFindsDead, RecoverClear, Read, Drop,
       ownerVars
  <2>3. port' = port
    BY ClientStepEffect
  <2> QED
    BY <1>1, <2>1, <2>2, <2>3, FrameBuild DEF TypeOK
<1> QED
  BY <1>2, <1>3

LEMMA OwnerStepBuilds ==
  ASSUME TypeOK, BuildsInv, NEW q \in Procs, OwnerStep(q)
  PROVE  BuildsInv'
<1> SUFFICES ASSUME NEW p \in Procs PROVE BuildInv(p)'
  BY DEF BuildsInv
<1>1. BuildInv(p)
  BY DEF BuildsInv
<1>2. CASE Bind(q)
  <2>1. CASE p = q
    <3>1. installed[1] \in Nat /\ installed[2] \in Nat
      BY BuildAssumption DEF TypeOK, Builds, Versions
    <3>2. state'[p] = "bound" /\ stamp'[p] = <<build[p][1], installed[2]>>
      BY <1>2, <2>1 DEF Bind, TypeOK
    <3>3. p \notin overtaken => build[p] = <<build[p][1], installed[2]>>
      BY <1>1, <1>2, <2>1 DEF Bind, BuildInv, TypeOK, Builds
    <3> QED
      BY <1>1, <1>2, <3>2, <3>3 DEF Bind, BuildInv
  <2>2. CASE p # q
    BY <1>1, <1>2, <2>2, FrameBuild DEF Bind, TypeOK
  <2> QED
    BY <2>1, <2>2
<1>3. CASE ~Bind(q)
  BY <1>1, <1>3, FrameBuild DEF OwnerStep, TryLock, LockContended, StartupFails, Truncate,
     Publish, WatchdogReassert, WatchdogExit, StopAccepting, DrainDone, Crash, Die, TypeOK,
     ownerVars
<1> QED
  BY <1>2, <1>3

LEMMA InstallBuilds ==
  ASSUME TypeOK, BuildsInv, Install
  PROVE  BuildsInv'
<1> SUFFICES ASSUME NEW p \in Procs PROVE BuildInv(p)'
  BY DEF BuildsInv
<1>1. BuildInv(p) /\ build[p] \in Builds /\ installed \in Builds
  BY DEF BuildsInv, TypeOK
<1>2. /\ build' = build /\ stamp' = stamp /\ port' = port /\ state' = state
      /\ installed'[2] = installed[2] + 1
      /\ overtaken' = overtaken \union {q \in Procs : state[q] \in {"spawned", "starting"}}
  BY DEF Install
<1>3. build[p][2] < installed'[2]
  BY <1>1, <1>2, BuildAssumption DEF BuildInv, Builds
<1>4. build[p][2] <= installed'[2] /\ build[p][2] # installed'[2]
  BY <1>1, <1>2, BuildAssumption DEF BuildInv, Builds
<1> QED
  BY <1>1, <1>2, <1>4 DEF BuildInv

LEMMA NextBuilds == TypeOK /\ BuildsInv /\ [Next]_vars => BuildsInv'
<1> SUFFICES ASSUME TypeOK, BuildsInv, [Next]_vars PROVE BuildsInv'
  OBVIOUS
<1>1. CASE UNCHANGED vars
  BY <1>1 DEF vars, BuildsInv, BuildInv
<1> QED
  BY <1>1, ClientStepBuilds, OwnerStepBuilds, InstallBuilds DEF Next

LEMMA BuildsCorrect == Spec => []BuildsInv
BY InitBuilds, NextBuilds, TypeCorrect, PTL DEF Spec

\* Of all steps only the attachment itself leaves "ping" for a call or an idle session.
LEMMA PingLeadsTo ==
  ASSUME TypeOK, NEW c \in Clients, ClientStep(c), pc[c] = "ping",
         pc'[c] \in {"ready", "send"}
  PROVE  EnsureAttach(c)
<1>1. ~(SessionEnd(c) \/ EnsureFindsStaleBuild(c) \/ EnsurePingFails(c))
  BY DEF TypeOK, Goto, SessionEnd, EnsureFindsStaleBuild, EnsurePingFails, Drop
<1>2. QED
  BY <1>1 DEF ClientStep, SessionStart, CallStart, CallStartSick, SendDone, SendFails,
     EnsureRead, EnsureRetire, RetireSick, EnsureClear, Spawn, SpawnFails, PollRead,
     PollAttach, PollPingFails, PollAgain, PollDeadline, RecoverRead, RecoverAttach,
     RecoverPingFails, RecoverRefuses, RecoverFindsDead, RecoverClear

\* Whoever answers a ping has a port, and so has whoever it is taken for.
LEMMA AnsweredHasPort ==
  ASSUME OwnerInv, NEW p \in Procs, PingOk(p)
  PROVE  port[p] # None
BY DEF OwnerInv, PortInv, PingOk, Answering

\* Whatever is rebuilt and reinstalled and whenever, a session that finds an owner
\* registered goes on with one of the build on disk, unless the owner was overtaken in
\* its start by a rebuild of its own version (ensure_owner_process).
THEOREM RebuildIsAttachedTo == Spec => RebuildTakesEffect
<1> DEFINE Rebuilt == \A c \in Clients :
             /\ pc[c] = "ping"
             /\ pc'[c] \in {"ready", "send"}
             => \/ build[seen[c]] = installed
                \/ seen[c] \in overtaken /\ build[seen[c]][1] = version[c]
<1>1. ASSUME TypeOK, OwnerInv, KnowledgeInv, BuildsInv, [Next]_vars PROVE Rebuilt
  <2> SUFFICES ASSUME NEW c \in Clients, pc[c] = "ping", pc'[c] \in {"ready", "send"}
               PROVE  \/ build[seen[c]] = installed
                      \/ seen[c] \in overtaken /\ build[seen[c]][1] = version[c]
    OBVIOUS
  <2>1. pc' # pc
    OBVIOUS
  <2>2. ~(Install \/ UNCHANGED vars \/ \E p \in Procs : OwnerStep(p))
    BY <2>1 DEF Install, vars, OwnerStep, TryLock, LockContended, StartupFails, Bind,
       Truncate, Publish, WatchdogReassert, WatchdogExit, StopAccepting, DrainDone, Crash,
       Die, clientVars
  <2>3. PICK d \in Clients : ClientStep(d)
    BY <1>1, <2>2 DEF Next
  <2>4. EnsureAttach(c)
    BY <1>1, <2>3, OthersUntouched, PingLeadsTo DEF Untouched
  <2>5. seen[c] \in Procs
    BY <1>1 DEF TypeOK, KnowledgeInv, ClientInv
  <2>6. BuildInv(seen[c]) /\ port[seen[c]] # None
    BY <1>1, <2>4, <2>5, AnsweredHasPort DEF EnsureAttach, BuildsInv
  <2>7. stamp[seen[c]] = <<version[c], installed[2]>>
    BY <2>4 DEF EnsureAttach, Fingerprint
  <2> QED
    BY <2>6, <2>7 DEF BuildInv
<1>2. TypeOK /\ OwnerInv /\ KnowledgeInv /\ BuildsInv /\ [Next]_vars => [Rebuilt]_vars
  BY <1>1
<1>3. QED
  BY <1>2, TypeCorrect, OwnerInvCorrect, KnowledgeCorrect, BuildsCorrect, PTL
     DEF Spec, RebuildTakesEffect
=============================================================================
