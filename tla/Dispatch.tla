------------------------------ MODULE Dispatch ------------------------------
(***************************************************************************)
(* The stdio transport of a session (src/src/server.rs, run_event_loop and  *)
(* Dispatch): a reader thread feeds lines into one event channel, the loop  *)
(* routes each request to the serialized worker, to the worker of its lane, *)
(* or to a thread of its own, and writes the responses as they complete,    *)
(* until the input is closed and what is in flight has drained, the drain   *)
(* deadline passes, the parent is gone, or stdout breaks.                   *)
(*                                                                         *)
(* A line stands for a request frame; its route is what its tool's          *)
(* execution policy says.  In serial mode there are no dispatch threads.    *)
(***************************************************************************)
EXTENDS Naturals, Sequences, FiniteSets

CONSTANTS
  Lines,       \* the lines the host sends, in any order
  Workers,     \* the serialized worker and one worker per lane
  Concurrent,  \* route of a line that runs on a thread of its own
  Blank,       \* route of a line that is only white space
  Route,       \* policy of each line
  Silent,      \* notifications: handled, never answered
  Idle         \* no line

ASSUME RouteAssumption ==
  /\ Concurrent \notin Workers /\ Blank \notin Workers
  /\ Route \in [Lines -> Workers \union {Concurrent, Blank}]
  /\ Idle \notin Lines

VARIABLES
  serial,   \* ServerConfig::serial, set at launch
  unread,   \* lines the host has not sent yet
  arrived,  \* lines in the order the reader sent them to the loop (history)
  events,   \* the event channel
  queue,    \* channel of each worker
  running,  \* line each worker is handling
  alive,    \* workers whose thread has not died
  threads,  \* lines handled on threads of their own
  active,   \* active_requests
  closing,  \* input_closed, and the drain deadline is set
  loop,     \* "runs", or why the loop ended
  handled,  \* lines whose handler has returned (history)
  lost,     \* lines a panic of the observer left without a completion (history)
  written   \* responses written to stdout, in order

inputVars == <<serial, unread, arrived>>
workVars  == <<queue, running, alive, threads, handled, lost>>
loopVars  == <<active, closing, loop, written>>
vars == <<serial, unread, arrived, events, queue, running, alive, threads,
          handled, lost, active, closing, loop, written>>

InputClosed == [kind |-> "inputClosed", line |-> Idle]
ParentGone  == [kind |-> "parentGone", line |-> Idle]
Line(l)      == [kind |-> "line", line |-> l]
Completed(l) == [kind |-> "completed", line |-> l]
Events == {InputClosed, ParentGone} \union {Line(l) : l \in Lines}
            \union {Completed(l) : l \in Lines}

Ends == {"drained", "deadline", "parentGone", "brokenPipe"}

TypeOK ==
  /\ serial \in BOOLEAN
  /\ unread \subseteq Lines
  /\ arrived \in Seq(Lines)
  /\ events \in Seq(Events)
  /\ queue \in [Workers -> Seq(Lines)]
  /\ running \in [Workers -> Lines \union {Idle}]
  /\ alive \subseteq Workers
  /\ threads \subseteq Lines
  /\ active \in Nat
  /\ closing \in BOOLEAN
  /\ loop \in Ends \union {"runs"}
  /\ handled \subseteq Lines
  /\ lost \subseteq Lines
  /\ written \in Seq(Lines)

Init ==
  /\ serial \in BOOLEAN
  /\ unread = Lines
  /\ arrived = <<>>
  /\ events = <<>>
  /\ queue = [w \in Workers |-> <<>>]
  /\ running = [w \in Workers |-> Idle]
  /\ alive = Workers
  /\ threads = {}
  /\ active = 0
  /\ closing = FALSE
  /\ loop = "runs"
  /\ handled = {}
  /\ lost = {}
  /\ written = <<>>

-----------------------------------------------------------------------------
(* The reader and the parent watchdog.                                     *)

Sent(e) == \E i \in 1..Len(events) : events[i] = e

ReadLine(l) ==
  /\ loop = "runs" /\ ~closing /\ ~Sent(InputClosed)
  /\ l \in unread
  /\ unread' = unread \ {l}
  /\ arrived' = Append(arrived, l)
  /\ events' = Append(events, Line(l))
  /\ UNCHANGED <<serial, workVars, loopVars>>

\* End of input, or an error reading it.
InputEnds ==
  /\ loop = "runs" /\ ~closing /\ ~Sent(InputClosed)
  /\ events' = Append(events, InputClosed)
  /\ UNCHANGED <<inputVars, workVars, loopVars>>

ParentDies ==
  /\ loop = "runs" /\ ~Sent(ParentGone)
  /\ events' = Append(events, ParentGone)
  /\ UNCHANGED <<inputVars, workVars, loopVars>>

-----------------------------------------------------------------------------
(* Workers and threads: handle_queued, then the completion is sent.  The    *)
(* observer runs after the handler, outside the panic backstop.             *)

\* Mutant: the worker takes the next line while it handles one.
WorkerTakesEagerly(w) ==
  /\ loop = "runs" /\ w \in alive
  /\ queue[w] # <<>>
  /\ running' = [running EXCEPT ![w] = Head(queue[w])]
  /\ queue' = [queue EXCEPT ![w] = Tail(queue[w])]
  /\ UNCHANGED <<inputVars, events, alive, threads, handled, lost, loopVars>>

WorkerTakes(w) ==
  /\ loop = "runs" /\ w \in alive
  /\ running[w] = Idle /\ queue[w] # <<>>
  /\ running' = [running EXCEPT ![w] = Head(queue[w])]
  /\ queue' = [queue EXCEPT ![w] = Tail(queue[w])]
  /\ UNCHANGED <<inputVars, events, alive, threads, handled, lost, loopVars>>

\* The handler returns, or panics behind the backstop.
WorkerFinishes(w) ==
  /\ loop = "runs" /\ running[w] # Idle
  /\ events' = Append(events, Completed(running[w]))
  /\ handled' = handled \union {running[w]}
  /\ running' = [running EXCEPT ![w] = Idle]
  /\ UNCHANGED <<inputVars, queue, alive, threads, lost, loopVars>>

Queued(w) == {queue[w][i] : i \in 1..Len(queue[w])}

\* The observer panics: the worker's thread ends, its channel with it.
WorkerDies(w) ==
  /\ loop = "runs" /\ running[w] # Idle
  /\ handled' = handled \union {running[w]}
  /\ running' = [running EXCEPT ![w] = Idle]
  /\ queue' = [queue EXCEPT ![w] = <<>>]
  /\ alive' = alive \ {w}
  /\ lost' = lost \union {running[w]} \union Queued(w)
  /\ UNCHANGED <<inputVars, events, threads, loopVars>>

ThreadFinishes(l) ==
  /\ loop = "runs" /\ l \in threads
  /\ threads' = threads \ {l}
  /\ handled' = handled \union {l}
  /\ events' = Append(events, Completed(l))
  /\ UNCHANGED <<inputVars, queue, running, alive, lost, loopVars>>

ThreadDies(l) ==
  /\ loop = "runs" /\ l \in threads
  /\ threads' = threads \ {l}
  /\ handled' = handled \union {l}
  /\ lost' = lost \union {l}
  /\ UNCHANGED <<inputVars, events, queue, running, alive, loopVars>>

-----------------------------------------------------------------------------
(* The event loop.                                                         *)

\* The loop takes e from its channel.
Receive(e) == loop = "runs" /\ events # <<>> /\ Head(events) = e /\ events' = Tail(events)

LoopSkipsBlank(l) ==
  /\ Receive(Line(l)) /\ Route[l] = Blank
  /\ UNCHANGED <<inputVars, workVars, loopVars>>

\* A worker that died takes nothing: the send error is dropped.
LoopQueues(l) ==
  /\ Receive(Line(l)) /\ Route[l] \in Workers /\ ~serial
  /\ active' = active + 1
  /\ \/ /\ Route[l] \in alive
        /\ queue' = [queue EXCEPT ![Route[l]] = Append(@, l)]
        /\ UNCHANGED lost
     \/ /\ Route[l] \notin alive
        /\ lost' = lost \union {l}
        /\ UNCHANGED queue
  /\ UNCHANGED <<inputVars, running, alive, threads, handled, closing, loop, written>>

\* Mutant: a concurrent call is put behind the serialized ones.
LoopSpawnsQueued(l) ==
  /\ Receive(Line(l)) /\ Route[l] = Concurrent /\ ~serial
  /\ active' = active + 1
  /\ \E w \in Workers : queue' = [queue EXCEPT ![w] = Append(@, l)]
  /\ UNCHANGED <<inputVars, running, alive, threads, handled, lost,
                 closing, loop, written>>

LoopSpawns(l) ==
  /\ Receive(Line(l)) /\ Route[l] = Concurrent /\ ~serial
  /\ active' = active + 1
  /\ threads' = threads \union {l}
  /\ UNCHANGED <<inputVars, queue, running, alive, handled, lost,
                 closing, loop, written>>

Write(l) == written' = IF l \in Silent THEN written ELSE Append(written, l)

\* Serial mode: the handler runs on the loop's own thread.
LoopHandles(l) ==
  /\ Receive(Line(l)) /\ Route[l] # Blank /\ serial
  /\ handled' = handled \union {l}
  /\ \/ Write(l) /\ UNCHANGED loop
     \/ l \notin Silent /\ loop' = "brokenPipe" /\ UNCHANGED written
  /\ UNCHANGED <<inputVars, queue, running, alive, threads, lost, active, closing>>

\* Mutant: end of input ends the server at once.
LoopInputClosedAtOnce ==
  /\ Receive(InputClosed)
  /\ closing' = TRUE
  /\ loop' = "drained"
  /\ UNCHANGED <<inputVars, workVars, active, written>>

LoopInputClosed ==
  /\ Receive(InputClosed)
  /\ closing' = TRUE
  /\ loop' = IF active = 0 THEN "drained" ELSE loop
  /\ UNCHANGED <<inputVars, workVars, active, written>>

LoopParentGone ==
  /\ Receive(ParentGone)
  /\ loop' = "parentGone"
  /\ UNCHANGED <<inputVars, workVars, active, closing, written>>

\* Mutant: a completion is counted but its response is not written.
LoopCompletesUnwritten(l) ==
  /\ Receive(Completed(l))
  /\ active' = active - 1
  /\ loop' = IF closing /\ active = 1 THEN "drained" ELSE loop
  /\ UNCHANGED <<inputVars, workVars, closing, written>>

LoopCompletes(l) ==
  /\ Receive(Completed(l))
  /\ active' = active - 1
  /\ \/ /\ Write(l)
        /\ loop' = IF closing /\ active = 1 THEN "drained" ELSE loop
     \/ l \notin Silent /\ loop' = "brokenPipe" /\ UNCHANGED written
  /\ UNCHANGED <<inputVars, workVars, closing>>

\* Mutant: the deadline is met only once nothing is in flight.
LoopDeadlineWhenIdle ==
  /\ loop = "runs" /\ closing /\ active = 0
  /\ loop' = "deadline"
  /\ UNCHANGED <<inputVars, events, workVars, active, closing, written>>

\* The drain deadline passes, before the next event is looked at.
LoopDeadline ==
  /\ loop = "runs" /\ closing
  /\ loop' = "deadline"
  /\ UNCHANGED <<inputVars, events, workVars, active, closing, written>>

LoopStep ==
  \/ LoopInputClosed \/ LoopParentGone
  \/ \E l \in Lines : \/ LoopSkipsBlank(l) \/ LoopQueues(l) \/ LoopSpawns(l)
                      \/ LoopHandles(l) \/ LoopCompletes(l)

WorkStep ==
  \/ \E w \in Workers : WorkerTakes(w) \/ WorkerFinishes(w) \/ WorkerDies(w)
  \/ \E l \in Lines : ThreadFinishes(l) \/ ThreadDies(l)

Next ==
  \/ InputEnds \/ ParentDies \/ \E l \in Lines : ReadLine(l)
  \/ WorkStep \/ LoopStep \/ LoopDeadline

Spec == Init /\ [][Next]_vars

-----------------------------------------------------------------------------
(* Properties.                                                             *)

Arrived == {arrived[i] : i \in 1..Len(arrived)}
Written == {written[i] : i \in 1..Len(written)}
Sought  == {l \in Lines : Route[l] # Blank}   \* lines that are frames
Asked   == Sought \ Silent                    \* requests

\* When the loop ends because everything has drained, everything that came in
\* was handled and every request has its response: end of input never cuts off
\* work in flight, on any worker or thread (run_event_loop).
DrainedLosesNothing ==
  loop = "drained" =>
    Arrived \intersect Sought \subseteq handled /\ Arrived \intersect Asked \subseteq Written

SameOrder(l, m) == serial \/ (Route[l] = Route[m] /\ Route[l] \in Workers)

\* Mutations, and the calls of a lane, run one at a time in the order in which
\* they arrived (ExecutionPolicy::Serialized, ExecutionPolicy::Lane).
InOrder ==
  \A i, j \in 1..Len(arrived) :
    /\ i < j
    /\ arrived[i] \in Sought /\ SameOrder(arrived[i], arrived[j])
    /\ arrived[j] \in handled \/ \E w \in Workers : running[w] = arrived[j]
    => arrived[i] \in handled

Pending(l) ==
  \/ l \in threads \/ Sent(Completed(l))
  \/ \E w \in Workers : running[w] = l \/ l \in Queued(w)

\* While the loop runs, active_requests counts each request whose completion is
\* still to come, once, and besides them only what a panic of the observer lost.
ActiveCountsInFlight ==
  loop = "runs" => active = Cardinality({l \in Lines : Pending(l) \/ l \in lost})

\* A panic does not leak the in-flight accounting, nor swallow what is queued
\* (handle_line_contained).
PanicsLeakNothing ==
  loop = "runs" => active = Cardinality({l \in Lines : Pending(l)})

-----------------------------------------------------------------------------
(* Fairness.  The loop, its deadline and the threads are scheduled.  A call *)
(* on a thread of its own returns, and so does one that serial mode runs on *)
(* the loop's thread; a handler on a worker may hang.                       *)

FairSpec ==
  /\ Spec
  /\ WF_vars(LoopStep) /\ WF_vars(LoopDeadline)
  /\ \A w \in Workers : WF_vars(WorkerTakes(w))
  /\ \A l \in Lines : WF_vars(ThreadFinishes(l))

HandlersReturn == \A w \in Workers : []<>(running[w] = Idle)

Settled(l) == l \in Written \/ l \in lost \/ loop # "runs"

\* If handlers return, every request that came in is answered, unless the
\* observer panics on it or the loop has to end first.
EachIsAnswered ==
  HandlersReturn => \A l \in Asked : l \in Arrived ~> Settled(l)

\* A handler that hangs on a worker holds up no call that runs on a thread of
\* its own (ExecutionPolicy::Concurrent).
ConcurrentIsNotBlocked ==
  \A l \in Asked : Route[l] = Concurrent => (l \in Arrived ~> Settled(l))

\* After the end of input the server ends, even if a worker's handler hangs
\* (drain_deadline; in serial mode the loop is its own handler).
EndsAfterInput == closing ~> loop # "runs"
=============================================================================
