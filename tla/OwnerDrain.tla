----------------------------- MODULE OwnerDrain -----------------------------
(***************************************************************************)
(* The serving owner process (src/src/sidecar.rs, run_owner_server from the *)
(* accept loop on, and handle_owner_stream): one thread per connection, the *)
(* in-flight guard each of them holds, the retiring flag an authenticated   *)
(* owner/shutdown sets, the idle reaper, and the choreography of the exit:  *)
(* stop accepting, wait (bounded) for what is in flight, drain, exit.  An    *)
(* owner/health query asks the application's hook on a thread of its own,    *)
(* for a bounded time, and at most one such thread at once.                  *)
(***************************************************************************)
EXTENDS FiniteSets, Naturals

CONSTANTS
  Conns,      \* connections clients will ever make
  Shutdowns,  \* those that carry an authenticated owner/shutdown
  Probes      \* those that carry an authenticated owner/health

ASSUME ConnAssumption ==
  /\ Shutdowns \subseteq Conns
  /\ Probes \subseteq Conns \ Shutdowns

VARIABLES
  status,    \* how far each connection has come
  guarded,   \* connections that hold an in-flight guard; inflight is their number
  retiring,  \* the flag that ends the accept loop
  loop,      \* where the main thread is
  expired,   \* RETIRE_INFLIGHT_WAIT ran out (history)
  hook,      \* the health hook's thread for each query
  slot       \* the flag that says that the hook is out

hookVars == <<hook, slot>>
drainVars == <<status, guarded, retiring, loop, expired, hook, slot>>

\* new: not made yet.  backlog: connected, not accepted.  reading, handling:
\* the thread reads the request, the handler runs.  landed: the handler has
\* returned.  answered: the response is written.  closed: ended without one.
\* reset: the listener went first.
Statuses == {"new", "backlog", "reading", "handling", "landed",
             "answered", "closed", "reset"}
Loops == {"check", "accept", "blocked", "close", "wait", "drain", "exited"}

DrainTypeOK ==
  /\ status \in [Conns -> Statuses]
  /\ guarded \subseteq Conns
  /\ retiring \in BOOLEAN
  /\ loop \in Loops
  /\ expired \in BOOLEAN
  /\ hook \in [Probes -> {"none", "running", "returned", "sent"}]
  /\ slot \in BOOLEAN

DrainInit ==
  /\ status = [c \in Conns |-> "new"]
  /\ guarded = {}
  /\ retiring = FALSE
  /\ loop = "check"
  /\ expired = FALSE
  /\ hook = [c \in Probes |-> "none"]
  /\ slot = FALSE

Becomes(c, s) == status' = [status EXCEPT ![c] = s]

Running == loop # "exited"

-----------------------------------------------------------------------------
(* Clients and connection threads.                                         *)

Listening == loop \in {"check", "accept", "blocked", "close"}

Connect(c) ==
  /\ Listening /\ status[c] = "new"
  /\ Becomes(c, "backlog")
  /\ UNCHANGED <<guarded, retiring, loop, expired, hookVars>>

\* The request is read; one that cannot be read or parsed ends the thread.
Read(c) ==
  /\ Running /\ status[c] = "reading"
  /\ Becomes(c, "handling")
  /\ UNCHANGED <<guarded, retiring, loop, expired, hookVars>>

\* Mutant: the guard covers the handler but not the response.
HandlerReturnsUnguarded(c) ==
  /\ Running /\ c \notin Probes /\ status[c] = "handling"
  /\ Becomes(c, "landed")
  /\ guarded' = guarded \ {c}
  /\ UNCHANGED <<retiring, loop, expired, hookVars>>

\* The handler returns.  A mutation has been applied by then.
HandlerReturns(c) ==
  /\ Running /\ c \notin Probes /\ status[c] = "handling"
  /\ Becomes(c, "landed")
  /\ UNCHANGED <<guarded, retiring, loop, expired, hookVars>>

\* The response is written; an acknowledged shutdown sets the flag after that.
\* The thread ends and drops its guard.
Answer(c) ==
  /\ Running /\ status[c] = "landed"
  /\ Becomes(c, "answered")
  /\ retiring' = (retiring \/ c \in Shutdowns)
  /\ guarded' = guarded \ {c}
  /\ UNCHANGED <<loop, expired, hookVars>>

\* Reading or writing fails or times out, the frame is malformed, the handler
\* panics: the guard is dropped all the same, and no shutdown takes place.
ThreadFails(c) ==
  /\ Running
  /\ status[c] \in {"reading", "handling", "landed"}
  /\ c \in Probes => status[c] # "handling"
  /\ Becomes(c, "closed")
  /\ guarded' = guarded \ {c}
  /\ UNCHANGED <<retiring, loop, expired, hookVars>>

-----------------------------------------------------------------------------
(* owner/health: run_health, guarded_health_hook.                          *)

HookBecomes(c, h) == hook' = [hook EXCEPT ![c] = h]

\* The flag is swapped: whoever finds it clear spawns the thread.
AskHook(c) ==
  /\ Running /\ status[c] = "handling" /\ hook[c] = "none" /\ ~slot
  /\ HookBecomes(c, "running")
  /\ slot' = TRUE
  /\ UNCHANGED <<status, guarded, retiring, loop, expired>>

\* The hook is out: the answer is Unknown, at once.
HookIsOut(c) ==
  /\ Running /\ status[c] = "handling" /\ hook[c] = "none" /\ slot
  /\ Becomes(c, "landed")
  /\ UNCHANGED <<guarded, retiring, loop, expired, hookVars>>

\* Mutant: only an answer that is still awaited frees the slot.
HookReturnsAwaited(c) ==
  /\ Running /\ hook[c] = "running"
  /\ HookBecomes(c, "returned")
  /\ slot' = (slot /\ status[c] # "handling")
  /\ UNCHANGED <<status, guarded, retiring, loop, expired>>

\* The hook answers or panics.  The slot is free before the answer is sent.
HookReturns(c) ==
  /\ Running /\ hook[c] = "running"
  /\ HookBecomes(c, "returned")
  /\ slot' = FALSE
  /\ UNCHANGED <<status, guarded, retiring, loop, expired>>

\* Sending fails, to no effect, if nobody waits any more.
HookSends(c) ==
  /\ Running /\ hook[c] = "returned"
  /\ HookBecomes(c, "sent")
  /\ UNCHANGED <<status, guarded, retiring, loop, expired, slot>>

HealthKnown(c) ==
  /\ Running /\ status[c] = "handling" /\ hook[c] = "sent"
  /\ Becomes(c, "landed")
  /\ UNCHANGED <<guarded, retiring, loop, expired, hookVars>>

\* HEALTH_HOOK_TIMEOUT: Unknown, and the thread is left alone.
HookTimesOut(c) ==
  /\ Running /\ status[c] = "handling" /\ hook[c] \in {"running", "returned"}
  /\ Becomes(c, "landed")
  /\ UNCHANGED <<guarded, retiring, loop, expired, hookVars>>

ProbeStep(c) == AskHook(c) \/ HookIsOut(c) \/ HealthKnown(c) \/ HookTimesOut(c)

HookStep(c) == HookReturns(c) \/ HookSends(c)

-----------------------------------------------------------------------------
(* The main thread.                                                        *)

LoopChecks ==
  /\ loop = "check"
  /\ loop' = IF retiring THEN "close" ELSE "accept"
  /\ UNCHANGED <<status, guarded, retiring, expired, hookVars>>

\* The guard is entered before the thread starts.
Accept(c) ==
  /\ loop = "accept" /\ status[c] = "backlog"
  /\ Becomes(c, "reading")
  /\ guarded' = guarded \union {c}
  /\ loop' = "check"
  /\ UNCHANGED <<retiring, expired, hookVars>>

\* accept fails: no descriptor is free, or the connection is gone already.  The
\* flag is looked at again, the idle time is not.
AcceptFails ==
  /\ loop = "accept"
  /\ loop' = "check"
  /\ UNCHANGED <<status, guarded, retiring, expired, hookVars>>

\* accept would block: nobody is in the backlog.
AcceptBlocks ==
  /\ loop = "accept" /\ \A c \in Conns : status[c] # "backlog"
  /\ loop' = "blocked"
  /\ UNCHANGED <<status, guarded, retiring, expired, hookVars>>

\* Sleep, and look again.
Sleep ==
  /\ loop = "blocked"
  /\ loop' = "check"
  /\ UNCHANGED <<status, guarded, retiring, expired, hookVars>>

\* Nothing was accepted for the idle timeout.
IdleReap ==
  /\ loop = "blocked"
  /\ loop' = "close"
  /\ UNCHANGED <<status, guarded, retiring, expired, hookVars>>

\* The listener is dropped; what is in its backlog is reset.
DropListener ==
  /\ loop = "close"
  /\ status' = [c \in Conns |-> IF status[c] = "backlog" THEN "reset" ELSE status[c]]
  /\ loop' = "wait"
  /\ UNCHANGED <<guarded, retiring, expired, hookVars>>

InflightZero ==
  /\ loop = "wait" /\ guarded = {}
  /\ loop' = "drain"
  /\ UNCHANGED <<status, guarded, retiring, expired, hookVars>>

\* Mutant: a handler is waited for, however long it runs.
WaitExpiresUnlessHandling ==
  /\ loop = "wait" /\ guarded # {}
  /\ \A c \in Conns : status[c] # "handling"
  /\ loop' = "drain"
  /\ expired' = TRUE
  /\ UNCHANGED <<status, guarded, retiring, hookVars>>

WaitExpires ==
  /\ loop = "wait" /\ guarded # {}
  /\ loop' = "drain"
  /\ expired' = TRUE
  /\ UNCHANGED <<status, guarded, retiring, hookVars>>

\* The drain hook returns or panics; the process exits.
DrainAndExit ==
  /\ loop = "drain"
  /\ loop' = "exited"
  /\ UNCHANGED <<status, guarded, retiring, expired, hookVars>>

MainStep ==
  \/ LoopChecks \/ (\E c \in Conns : Accept(c)) \/ AcceptFails
  \/ AcceptBlocks \/ Sleep \/ IdleReap
  \/ DropListener \/ InflightZero \/ WaitExpires \/ DrainAndExit

ConnStep(c) == Read(c) \/ HandlerReturns(c) \/ Answer(c) \/ ThreadFails(c)

DrainNext ==
  \/ MainStep
  \/ \E c \in Conns : Connect(c) \/ ConnStep(c)
  \/ \E c \in Probes : ProbeStep(c) \/ HookStep(c)

DrainSpec == DrainInit /\ [][DrainNext]_drainVars

-----------------------------------------------------------------------------
(* Properties.                                                             *)

InProgress == {"reading", "handling", "landed"}

\* Unless the wait ran out, nothing that was accepted is in progress when the
\* application is drained and the process exits: a mutation that landed has its
\* answer, whatever came in between shutdown and exit (InflightGuard, MCP-67).
DrainedNotCut ==
  loop \in {"drain", "exited"} /\ ~expired =>
    \A c \in Conns : status[c] \notin InProgress

\* The owner begins to retire only when a shutdown was acknowledged: whoever
\* asked knows, and a shutdown whose answer was lost is not half done.
AckedBeforeRetiring ==
  retiring => \E c \in Shutdowns : status[c] = "answered"

\* However the answers of the health hook race the queries that gave them up,
\* at most one thread is inside it, and a query is turned away exactly while one
\* is: a stuck hook costs one thread, and a late one does not disable the check.
OneHookOut ==
  /\ slot <=> \E c \in Probes : hook[c] = "running"
  /\ \A c, d \in Probes : hook[c] = "running" /\ hook[d] = "running" => c = d

-----------------------------------------------------------------------------
(* Fairness.  The main thread is scheduled, its timers run out, and the     *)
(* drain hook returns: nothing bounds it.  The idle timeout runs out only     *)
(* where the loop looks at it.  Handlers, the health hook, clients and the     *)
(* kernel, whose accept may fail for ever, owe nothing.                        *)

DrainFairSpec == DrainSpec /\ WF_drainVars(MainStep) /\ SF_drainVars(IdleReap)

\* The owner does not outlive its use, whatever handler or health hook hangs and
\* whichever client stalls.  Once it acknowledged its retirement it ends, also if every
\* accept fails, so that nobody is kept from electing a successor; and when clients
\* stop coming it ends, unless accept fails again and again for ever.
LifetimeBounded ==
  /\ retiring ~> loop = "exited"
  /\ <>[][~AcceptFails]_drainVars => <>(loop = "exited")

\* What run_owner_server says of its lifetime (550-555), of every owner: it is reaped
\* when no request has come for the idle timeout.
IdleOwnerEnds == <>(loop = "exited")
=============================================================================
