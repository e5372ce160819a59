--------------------------- MODULE MutationRouting --------------------------
(***************************************************************************)
(* How a session routes a mutating tool call to the resident owner          *)
(* (src/src/server.rs, handle_line_remote_raw; src/src/sidecar.rs,          *)
(* send_line_within and handle_owner_stream): send it, classify the         *)
(* failure, recover the owner, send once more, and report an outcome the    *)
(* agent can act on.                                                        *)
(*                                                                         *)
(* The owners live by OwnerService, which OwnerElection implements.  A call *)
(* is sent in at most two tries.  The delivery of a try is kept per call,   *)
(* so nothing is forgotten when the owner that took it ends.                *)
(***************************************************************************)
EXTENDS OwnerService, Naturals

CONSTANT Calls  \* mutating tools/call requests, each of some session

VARIABLES
  pc,        \* next step of each call
  using,     \* owner the call is directed at
  outcome,   \* what the agent is told
  delivery,  \* what became of each try
  dest,      \* owner each try was sent to
  cut        \* calls whose request lost only its newline to a failed write (history)

serviceVars == <<writer, ready, past, registered>>
callVars    == <<pc, using, outcome, cut>>
vars == <<writer, ready, past, registered, pc, using, outcome, delivery, dest, cut>>

Tries == {1, 2}
Pcs == {"idle", "send", "await", "recover", "elect", "resend", "reawait", "done"}
\* refused: an error with retry_safe true, or an owner_unhealthy refusal.
\* unknown: outcome_unknown, retry_safe false.  stranger: the frame another
\* owner returns for a token that is not its own.
Outcomes == {"none", "ok", "refused", "unknown", "stranger"}
\* wire: every byte the owner needs is on its way; running: the handler runs;
\* landed: the mutation is applied; answered: and the response is written.
Deliveries == {"none", "wire", "running", "landed", "answered", "gone"}

TypeOK ==
  /\ writer \in Procs \union {None}
  /\ ready \subseteq Procs
  /\ past \subseteq Procs
  /\ registered \in Procs \union {None}
  /\ pc \in [Calls -> Pcs]
  /\ using \in [Calls -> Procs \union {None}]
  /\ outcome \in [Calls -> Outcomes]
  /\ delivery \in [Calls -> [Tries -> Deliveries]]
  /\ dest \in [Calls -> [Tries -> Procs \union {None}]]
  /\ cut \subseteq Calls

Init ==
  /\ SInit
  /\ pc = [m \in Calls |-> "idle"]
  /\ using = [m \in Calls |-> None]
  /\ outcome = [m \in Calls |-> "none"]
  /\ delivery = [m \in Calls |-> [k \in Tries |-> "none"]]
  /\ dest = [m \in Calls |-> [k \in Tries |-> None]]
  /\ cut = {}

-----------------------------------------------------------------------------
(* Helpers.                                                                *)

Goto(m, label) == pc' = [pc EXCEPT ![m] = label]

Finish(m, what) ==
  /\ outcome' = [outcome EXCEPT ![m] = what]
  /\ Goto(m, "done")

Serving(p) == p = writer /\ p \in ready

\* Somebody else answers where p used to listen: the port was used again.
StrangerAt(p) == p \in past /\ writer \in ready

\* A ping to the registration comes back.
PingOk(p) == Serving(p) \/ StrangerAt(p)

\* The try on which a call is: the first, or the one after recovery.
Trying(m, k) == \/ pc[m] = "send" /\ k = 1
                \/ pc[m] = "resend" /\ k = 2

Awaiting(m, k) == \/ pc[m] = "await" /\ k = 1
                  \/ pc[m] = "reawait" /\ k = 2

Advance(m, k, how) == delivery' = [delivery EXCEPT ![m][k] = how]

Applied(m, k) == delivery[m][k] \in {"landed", "answered"}

-----------------------------------------------------------------------------
(* The owners: OwnerService, and what the end of a process takes with it.  *)

OwnerStep ==
  /\ Unregister \/ \E p \in Procs : Elect(p) \/ BecomeReady(p) \/ Register(p)
  /\ UNCHANGED <<callVars, delivery, dest>>

\* Requests in the backlog of p and handlers running in it end with it.
OwnerEnds(p) ==
  /\ End(p)
  /\ delivery' = [m \in Calls |-> [k \in Tries |->
       IF dest[m][k] = p /\ delivery[m][k] \in {"wire", "running"}
         THEN "gone" ELSE delivery[m][k]]]
  /\ UNCHANGED <<callVars, dest>>

\* handle_owner_stream: the request is read, the handler applies the mutation,
\* the response is written in one piece.
OwnerTakes(m, k) ==
  /\ delivery[m][k] = "wire" /\ Serving(dest[m][k])
  /\ Advance(m, k, "running")
  /\ UNCHANGED <<serviceVars, callVars, dest>>

OwnerApplies(m, k) ==
  /\ delivery[m][k] = "running" /\ Serving(dest[m][k])
  /\ Advance(m, k, "landed")
  /\ UNCHANGED <<serviceVars, callVars, dest>>

OwnerAnswers(m, k) ==
  /\ delivery[m][k] = "landed" /\ Serving(dest[m][k])
  /\ Advance(m, k, "answered")
  /\ UNCHANGED <<serviceVars, callVars, dest>>

-----------------------------------------------------------------------------
(* The call.                                                               *)

\* The session dials the owner it attached to at startup, whatever became of
\* it since, or the one its health gate put in its place: one that was ready.
CallStart(m, p) ==
  /\ pc[m] = "idle"
  /\ p \in ready
  /\ using' = [using EXCEPT ![m] = p]
  /\ Goto(m, "send")
  /\ UNCHANGED <<serviceVars, outcome, delivery, dest, cut>>

\* The gate refuses: the budget is spent, or no replacement was seated.
GateRefuses(m) ==
  /\ pc[m] = "idle"
  /\ Finish(m, "refused")
  /\ UNCHANGED <<serviceVars, using, delivery, dest, cut>>

\* The whole request is accepted by the kernel for the owner's socket.
SendWhole(m, k) ==
  /\ Trying(m, k)
  /\ Serving(using[m])
  /\ Advance(m, k, "wire")
  /\ dest' = [dest EXCEPT ![m][k] = using[m]]
  /\ Goto(m, IF k = 1 THEN "await" ELSE "reawait")
  /\ UNCHANGED <<serviceVars, using, outcome, cut>>

\* A stranger refuses the token and says so: a response like any other.
SendMeetsStranger(m, k) ==
  /\ Trying(m, k)
  /\ StrangerAt(using[m])
  /\ Finish(m, "stranger")
  /\ UNCHANGED <<serviceVars, using, delivery, dest, cut>>

\* Connect, or Write: the request was not delivered in full.  The owner reads
\* up to the end of the stream, so a frame that lacks only its newline parses.
Fail(m, k) ==
  /\ Trying(m, k)
  /\ \/ UNCHANGED <<delivery, dest, cut>>
     \/ /\ Serving(using[m])
        /\ Advance(m, k, "wire")
        /\ dest' = [dest EXCEPT ![m][k] = using[m]]
        /\ cut' = cut \union {m}

SendFails(m) ==
  /\ Fail(m, 1)
  /\ Goto(m, "recover")
  /\ UNCHANGED <<serviceVars, using, outcome>>

ResendFails(m) ==
  /\ Fail(m, 2)
  /\ Finish(m, "refused")
  /\ UNCHANGED <<serviceVars, using>>

ResponseArrives(m, k) ==
  /\ Awaiting(m, k)
  /\ delivery[m][k] = "answered"
  /\ Finish(m, "ok")
  /\ UNCHANGED <<serviceVars, using, delivery, dest, cut>>

\* Mutant: a lost response is handled like a request that was not delivered.
ResponseLostRetried(m, k) ==
  /\ Awaiting(m, k)
  /\ Goto(m, "recover")
  /\ UNCHANGED <<serviceVars, using, outcome, delivery, dest, cut>>

\* Mutant: a lost response is reported as a refusal.
ResponseLostRefused(m, k) ==
  /\ Awaiting(m, k)
  /\ Finish(m, "refused")
  /\ UNCHANGED <<serviceVars, using, delivery, dest, cut>>

\* Mutant: no read timeout, only the end of the owner breaks the connection.
ResponseLostWithOwner(m, k) ==
  /\ Awaiting(m, k)
  /\ dest[m][k] \in past
  /\ Finish(m, "unknown")
  /\ UNCHANGED <<serviceVars, using, delivery, dest, cut>>

\* ResponseLost or MalformedResponse: the connection broke, or time is up.
ResponseLost(m, k) ==
  /\ Awaiting(m, k)
  /\ Finish(m, "unknown")
  /\ UNCHANGED <<serviceVars, using, delivery, dest, cut>>

-----------------------------------------------------------------------------
(* recover_owner.                                                          *)

RecoverAttaches(m) ==
  /\ pc[m] = "recover"
  /\ registered # None /\ PingOk(registered)
  /\ using' = [using EXCEPT ![m] = registered]
  /\ Goto(m, "resend")
  /\ UNCHANGED <<serviceVars, outcome, delivery, dest, cut>>

\* The process behind the endpoint is alive: LiveButUnreachable.
RecoverRefuses(m) ==
  /\ pc[m] = "recover"
  /\ using[m] \notin past
  /\ Finish(m, "refused")
  /\ UNCHANGED <<serviceVars, using, delivery, dest, cut>>

RecoverClears(m) ==
  /\ pc[m] = "recover"
  /\ using[m] \in past
  /\ Unregister
  /\ Goto(m, "elect")
  /\ UNCHANGED <<using, outcome, delivery, dest, cut>>

\* ensure_owner_process found an owner, or saw one it spawned register.
ElectionSucceeds(m) ==
  /\ pc[m] = "elect"
  /\ registered # None /\ PingOk(registered)
  /\ using' = [using EXCEPT ![m] = registered]
  /\ Goto(m, "resend")
  /\ UNCHANGED <<serviceVars, outcome, delivery, dest, cut>>

ElectionFails(m) ==
  /\ pc[m] = "elect"
  /\ Finish(m, "refused")
  /\ UNCHANGED <<serviceVars, using, delivery, dest, cut>>

-----------------------------------------------------------------------------
\* The session's process ends under the call: nobody is told anything.
SessionEnds(m) ==
  /\ pc[m] \notin {"idle", "done"}
  /\ Goto(m, "done")
  /\ UNCHANGED <<serviceVars, using, outcome, delivery, dest, cut>>

CallStep(m) ==
  \/ \E p \in Procs : CallStart(m, p)
  \/ GateRefuses(m) \/ SendFails(m) \/ ResendFails(m)
  \/ \E k \in Tries :
       \/ SendWhole(m, k) \/ SendMeetsStranger(m, k)
       \/ ResponseArrives(m, k) \/ ResponseLost(m, k)
  \/ RecoverAttaches(m) \/ RecoverRefuses(m) \/ RecoverClears(m)
  \/ ElectionSucceeds(m) \/ ElectionFails(m)

Next ==
  \/ OwnerStep
  \/ \E p \in Procs : OwnerEnds(p)
  \/ \E m \in Calls, k \in Tries :
       OwnerTakes(m, k) \/ OwnerApplies(m, k) \/ OwnerAnswers(m, k)
  \/ \E m \in Calls : CallStep(m) \/ SessionEnds(m)

Spec == Init /\ [][Next]_vars

-----------------------------------------------------------------------------
(* Properties.                                                             *)

\* A mutation whose request was written whole, or not up to its end, never
\* lands twice: not when its answer is lost after it was applied, not when the
\* owner dies and another is elected under the call (handle_line_remote_raw).
AtMostOnce == \A m \in Calls \ cut : ~(Applied(m, 1) /\ Applied(m, 2))

\* A call refused as safe to retry was not applied and never will be: nothing
\* of it is left in a backlog when the refusal goes out.
HonestRefusal ==
  \A m \in Calls \ cut :
    outcome[m] \in {"refused", "stranger"} => \A k \in Tries : ~Applied(m, k)

\* A call answered normally was applied, even if its owner is dead by then.
AnsweredMeansApplied ==
  \A m \in Calls : outcome[m] = "ok" => \E k \in Tries : Applied(m, k)

-----------------------------------------------------------------------------
(* Fairness.  The steps of a call are bounded by timeouts: connect, write,  *)
(* response, the recovery's wait.  Owners and handlers owe nothing.         *)

FairSpec == Spec /\ \A m \in Calls : WF_vars(pc[m] # "idle" /\ CallStep(m))

\* Every call that was started is answered or refused, hung handlers, dead
\* owners and elections that never end notwithstanding.
CallsEnd == \A m \in Calls : pc[m] # "idle" ~> pc[m] = "done"
=============================================================================
