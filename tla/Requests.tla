------------------------------- MODULE Requests ------------------------------
(***************************************************************************)
(* What becomes of one frame (src/src/server.rs; the pinned root of a        *)
(* connection in src/src/http.rs): classified where it arrives, forwarded to  *)
(* the resident owner or handled on the spot, by application code that may     *)
(* fail or panic at every point where it is called.                           *)
(*                                                                         *)
(* MutationRouting has the interplay of many calls and owners; here it is one *)
(* frame, of whatever shape, and every path that it can take.                 *)
(***************************************************************************)
EXTENDS Naturals

Ops == {"none", "get", "put"}

Methods == {"missing", "initialize", "server/discover", "tools/list", "tools/call",
            "resources/list", "resources/read", "ping", "activity/list",
            "notifications/any", "other"}
Tools == {"missing", "unknown", "never", "always", "dynamic"}

\* The arguments of a call; only an object has members.
Shapes == {"absent", "null", "scalar", "object"}
Arguments == {a \in [shape : Shapes, op : Ops, root : {"none", "own", "pin"}] :
                a.shape # "object" => a.op = "none" /\ a.root = "none"}
NoArguments == [shape |-> "absent", op |-> "none", root |-> "none"]
Values == {a \in Arguments : a.shape # "absent"}

CONSTANTS
  Reads     \* values that the classifier of a dynamic tool takes for reads: it is a
            \* function of the value it is asked about, whatever that function is

ASSUME RequestAssumption == Reads \subseteq Values

\* id: a null id makes a request all the same.  meta: the metadata of the
\* stateless protocol, complete or not.
Frames == [json : BOOLEAN, id : {"absent", "null", "given"}, method : Methods,
           meta : {"none", "modern", "broken"}, tool : Tools, args : Arguments]

Sent == {f \in Frames :
           /\ ~f.json => f = [json |-> FALSE, id |-> "absent", method |-> "missing",
                              meta |-> "none", tool |-> "missing", args |-> NoArguments]
           /\ f.method # "tools/call" => f.tool = "missing"
           /\ f.tool \in {"missing", "unknown"} => f.args = NoArguments
           /\ f.args.root # "pin"}

IsRequest(f) == f.json /\ f.id # "absent"
CallsTool(f) == f.json /\ f.method = "tools/call"

\* MutationKind::mutates of the tool that is registered under the name, if one is.
Mutates(f, value) ==
  /\ CallsTool(f)
  /\ \/ f.tool = "always"
     \/ f.tool = "dynamic" /\ value \notin Reads

\* It is asked twice.  Where a line is classified, arguments that are absent are null;
\* where the tool is called, they are an empty object.
LineMutates(f) ==
  Mutates(f, IF f.args.shape = "absent" THEN [f.args EXCEPT !.shape = "null"] ELSE f.args)
CallMutates(f) ==
  Mutates(f, IF f.args.shape = "absent" THEN [f.args EXCEPT !.shape = "object"] ELSE f.args)

\* A call that mutates, of a line that was taken for a read.
Mistaken(f) == CallMutates(f) /\ ~LineMutates(f)

VARIABLES
  via,       \* "serial", "threaded": stdio; "hub": HTTP
  attached,  \* the session has a resident owner
  pinned,    \* the connection has a root
  frame,     \* as the client sent it
  line,      \* as it is handled
  stage,
  place,     \* whose process handles it
  sends,     \* times it was sent to an owner
  loose,     \* what the session took a frame for that an owner holds all the same
  ran,       \* processes in which a handler was called
  applied,   \* processes in which a mutating handler returned a value
  answer

vars == <<via, attached, pinned, frame, line, stage, place, sends, loose, ran, applied, answer>>

Answers == {"none", "result", "warned", "error", "internal", "ambiguous", "refused"}
Places == {"session", "owner"}
Stages == {"arrived", "accepted", "routed", "sending", "unsent", "unanswered",
           "handling", "calling", "returned", "unwinding", "answered", "ended", "lost"}

TypeOK ==
  /\ via \in {"serial", "threaded", "hub"}
  /\ attached \in BOOLEAN /\ pinned \in BOOLEAN
  /\ frame \in Frames /\ line \in Frames
  /\ stage \in Stages /\ place \in Places
  /\ sends \in 0..2
  /\ loose \subseteq {"unsent", "unanswered"}
  /\ ran \subseteq Places /\ applied \subseteq Places
  /\ answer \in Answers

Init ==
  /\ via \in {"serial", "threaded", "hub"}
  /\ attached \in BOOLEAN /\ (via = "hub" => ~attached)
  /\ pinned \in BOOLEAN /\ (pinned => via = "hub")
  /\ frame \in Sent /\ line = frame
  /\ stage = "arrived" /\ place = "session"
  /\ sends = 0 /\ loose = {} /\ ran = {} /\ applied = {}
  /\ answer = "none"

rigid == <<via, attached, pinned, frame>>

Goes(from, to) == stage = from /\ stage' = to

\* A step that only moves the frame on.
Moves(from, to) ==
  Goes(from, to) /\ UNCHANGED <<rigid, line, place, sends, loose, ran, applied, answer>>

Answered(a) ==
  /\ stage' = "answered" /\ answer' = a
  /\ UNCHANGED <<rigid, line, place, sends, loose, ran, applied>>

\* Only an absent root takes the default; arguments that are no object are left
\* for the application to reject.
WithPin(a) ==
  IF a.shape = "absent" THEN [a EXCEPT !.shape = "object", !.root = "pin"]
  ELSE IF a.shape = "object" /\ a.root = "none" THEN [a EXCEPT !.root = "pin"] ELSE a

Arrive ==
  /\ Goes("arrived", "accepted")
  /\ line' = IF pinned /\ CallsTool(line) /\ line.tool # "missing"
             THEN [line EXCEPT !.args = WithPin(@)] ELSE line
  /\ UNCHANGED <<rigid, place, sends, loose, ran, applied, answer>>

\* The event loop asks for the execution policy, and with it the classifier of a
\* dynamic tool, on its own thread: a panic there ends the server.
ClassifierPanics ==
  /\ via = "threaded" /\ CallsTool(line) /\ line.tool = "dynamic"
  /\ Moves("accepted", "lost")

Classify == Moves("accepted", "routed")

Forwards(f) == CallsTool(f) /\ IsRequest(f)

Route ==
  IF attached /\ Forwards(line) THEN Moves("routed", "sending") ELSE Moves("routed", "handling")

\* The health gate: the budget is spent, or there is no replacement.
GateRefuses ==
  /\ stage = "sending" /\ sends = 0
  /\ Answered("refused")

Deliver ==
  /\ Goes("sending", "handling")
  /\ sends < 2 /\ sends' = sends + 1
  /\ place' = "owner"
  /\ UNCHANGED <<rigid, line, loose, ran, applied, answer>>

CannotSend ==
  /\ Goes("sending", "unsent")
  /\ sends < 2 /\ sends' = sends + 1
  /\ UNCHANGED <<rigid, line, place, loose, ran, applied, answer>>

\* All but the newline was written: a failed write for the session, but the owner
\* takes the end of the stream for the end of the line.
CutAtNewline ==
  /\ Goes("sending", "unsent")
  /\ sends < 2 /\ sends' = sends + 1
  /\ loose' = loose \union {"unsent"}
  /\ UNCHANGED <<rigid, line, place, ran, applied, answer>>

\* The request is in the owner's hands and the connection breaks, or the wait for the
\* answer ends; what the owner has not done with it yet it may do at any time.
ResponseLost ==
  /\ place = "owner" /\ stage \in {"handling", "calling", "returned", "answered"}
  /\ stage' = "unanswered" /\ place' = "session" /\ answer' = "none"
  /\ loose' = IF stage \in {"handling", "calling"} THEN loose \union {"unanswered"} ELSE loose
  /\ UNCHANGED <<rigid, line, sends, ran, applied>>

\* Mutant: only tools that always mutate count when an owner is out of reach.
MustReachOwnerAlways(f) == CallsTool(f) /\ f.tool = "always"

MustReachOwner(f) == LineMutates(f)

Ambiguous ==
  /\ stage = "unanswered" /\ MustReachOwner(line)
  /\ Answered("ambiguous")

Refuse ==
  /\ stage = "unsent" /\ MustReachOwner(line)
  /\ Answered("refused")

\* Once, to the owner that recovery yields: a mutation that was not delivered, or a
\* read, whichever way the first try failed.
SendAgain ==
  /\ sends = 1
  /\ \/ stage = "unsent"
     \/ stage = "unanswered" /\ ~MustReachOwner(line)
  /\ stage' = "sending"
  /\ UNCHANGED <<rigid, line, place, sends, loose, ran, applied, answer>>

\* A read is answered from the session's own process.
Degrade ==
  /\ stage \in {"unsent", "unanswered"} /\ ~MustReachOwner(line)
  /\ stage' = "handling"
  /\ UNCHANGED <<rigid, line, place, sends, loose, ran, applied, answer>>

\* handle_line_local_raw, up to the call of a tool.
Malformed(f) ==
  \/ f.method = "missing" \/ f.meta = "broken"
  \/ f.method = "server/discover" /\ f.meta # "modern"

\* Mutant: a frame without an id is dropped only if its method is a notification's.
DropsByMethod(f) == f.method = "notifications/any"

Drops(f) == ~IsRequest(f) \/ f.method = "notifications/any"

Unsupported(f) ==
  \/ f.method = "other"
  \/ f.method = "initialize" /\ f.meta = "modern"

HandleLocally ==
  /\ stage = "handling"
  /\ IF ~line.json THEN Answered("error")
     ELSE IF Malformed(line) /\ IsRequest(line) THEN Answered("error")
     ELSE IF Malformed(line) \/ Drops(line) THEN Answered("none")
     ELSE IF CallsTool(line) /\ line.tool \in {"missing", "unknown"} THEN Answered("error")
     ELSE IF CallsTool(line) THEN Moves("handling", "calling")
     ELSE IF Unsupported(line) THEN Answered("error")
     ELSE Answered("result")

\* resources/read of an unknown uri; a server without resources.
ResourceFails ==
  /\ stage = "handling"
  /\ IsRequest(line) /\ ~Malformed(line)
  /\ line.method \in {"resources/list", "resources/read"}
  /\ Answered("error")

\* The lease of the call asks the classifier again, outside of the containment.
LeasePanics == line.tool = "dynamic" /\ Moves("calling", "unwinding")

\* The hook before it refuses, or panics.
BeforeToolRefuses ==
  /\ stage = "calling"
  /\ Answered("error")

\* It returns an error, or panics and is contained.
HandlerFails ==
  /\ Goes("calling", "answered")
  /\ ran' = ran \union {place}
  /\ answer' = "error"
  /\ UNCHANGED <<rigid, line, place, sends, loose, applied>>

HandlerReturns ==
  /\ Goes("calling", "returned")
  /\ ran' = ran \union {place}
  /\ applied' = IF CallMutates(line) THEN applied \union {place} ELSE applied
  /\ UNCHANGED <<rigid, line, place, sends, loose, answer>>

Return ==
  /\ stage = "returned"
  /\ Answered("result")

\* Mutant: the failure of the hook is reported as the failure of the call.
MutationHookFailsTheCall ==
  /\ stage = "returned" /\ CallMutates(line)
  /\ Answered("error")

MutationHookFails ==
  /\ stage = "returned" /\ CallMutates(line)
  /\ Answered("warned")

\* It runs outside of the containment as well.
MutationHookPanics == CallMutates(line) /\ Moves("returned", "unwinding")

\* Mutant: nothing around the handling of a line.
UnwindUncontained ==
  /\ stage = "unwinding"
  /\ stage' = "lost"
  /\ UNCHANGED <<rigid, line, place, sends, loose, ran, applied, answer>>

\* On stdio the backstop answers; a thread of the hub or of an owner dies, and its
\* connection with it.
Unwind ==
  /\ stage = "unwinding"
  /\ IF place = "owner"
       THEN /\ stage' = "unanswered" /\ place' = "session"
            /\ UNCHANGED <<rigid, line, sends, loose, ran, applied, answer>>
     ELSE IF via = "hub" THEN Moves("unwinding", "lost")
     ELSE Answered("internal")

\* The response hook annotates the frame, or panics and leaves it as it was.
Deliberate ==
  /\ stage = "answered"
  /\ stage' = "ended" /\ place' = "session"
  /\ UNCHANGED <<rigid, line, sends, loose, ran, applied, answer>>

\* What an owner does with a frame that nobody waits for any more.  It may as well do
\* nothing that counts: end first, or fail before it calls the tool.
Executes(f) ==
  /\ IsRequest(f) /\ ~Malformed(f)
  /\ CallsTool(f) /\ f.tool \notin {"missing", "unknown"}

LooseHandled ==
  /\ loose # {} /\ Executes(line)
  /\ ran' = ran \union {"owner"}
  /\ \/ applied' = applied
     \/ CallMutates(line) /\ applied' = applied \union {"owner"}
  /\ UNCHANGED <<rigid, line, stage, place, sends, loose, answer>>

Next ==
  \/ Arrive \/ ClassifierPanics \/ Classify \/ Route
  \/ GateRefuses \/ Deliver \/ CannotSend \/ CutAtNewline \/ ResponseLost
  \/ Ambiguous \/ Refuse \/ SendAgain \/ Degrade
  \/ HandleLocally \/ ResourceFails
  \/ LeasePanics \/ BeforeToolRefuses \/ HandlerFails \/ HandlerReturns
  \/ Return \/ MutationHookFails \/ MutationHookPanics \/ Unwind
  \/ Deliberate \/ LooseHandled

\* Every call of application code that somebody waits for returns or panics.
Spec == Init /\ [][Next]_vars /\ WF_vars(Next)

-----------------------------------------------------------------------------
(* Properties.                                                             *)

\* A frame without an id executes no tool and is never answered, in the session, on
\* the way to an owner or in one, however it is shaped otherwise.
NotificationsAreInert ==
  frame.json /\ ~IsRequest(frame) => ran = {} /\ answer = "none" /\ sends = 0

\* Every request of a stdio session ends with an answer, whatever the application
\* and the owner do to it, unless the classifier panics on the event loop.
RequestsAreAnswered ==
  /\ IsRequest(frame) /\ via # "hub" /\ frame.method # "notifications/any"
     /\ ~(via = "threaded" /\ frame.tool = "dynamic")
       ~> stage = "ended" /\ answer # "none"

\* A session that has an owner never runs a mutating handler itself: no failure of
\* gate, sending or recovery turns a mutation into one that degrades to its process.
\* Excluded is a call whose line was taken for a read because its arguments are absent.
MutationsStayWithOwner == attached /\ ~Mistaken(line) => "session" \notin applied

\* What server.rs says of the recovery (776-779), without the exclusion: a mutation
\* never falls back to a write in the session's process beside a live owner.
NeverInProcess == attached => "session" \notin applied

\* Nobody is told that a mutation failed, or may safely be sent again, when its
\* handler completed before or completes after the answer: it is a success, with a
\* warning if need be, or an outcome unknown, or the internal error of a hook that
\* panicked.  Excluded are a frame that was cut at its newline and a call whose line
\* was taken for a read.
AppliedIsNotDenied ==
  stage = "ended" /\ applied # {} /\ "unsent" \notin loose /\ ~Mistaken(line) =>
    answer \in {"result", "warned", "ambiguous", "internal"}

\* What sidecar.rs says of a failed delivery (656-662), of every frame: a mutation that
\* is refused as safe to send again was not applied.
RefusedIsUnapplied == answer = "refused" => applied = {}

\* The root that a tool sees is the caller's if it named one, also in arguments the
\* connection's default was about to complete, and the connection's otherwise.
PinIsOnlyADefault ==
  ran # {} =>
    line.args.root = (IF frame.args.root = "own" THEN "own"
                      ELSE IF pinned /\ frame.args.shape \in {"absent", "object"} THEN "pin"
                      ELSE "none")
=============================================================================
