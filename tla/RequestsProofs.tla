---------------------------- MODULE RequestsProofs ---------------------------
(***************************************************************************)
(* Proofs about Requests, for every classifier that is a function of what it *)
(* is asked about.                                                           *)
(***************************************************************************)
EXTENDS Requests, TLAPS

\* What is handled differs from what was sent in its arguments at most, and only
\* by the root of the connection.
LineIsFrame ==
  line = IF stage # "arrived" /\ pinned /\ CallsTool(frame) /\ frame.tool # "missing"
         THEN [frame EXCEPT !.args = WithPin(frame.args)] ELSE frame

\* A frame without an id stays in the session and calls nothing.
InertSoFar ==
  frame.json /\ ~IsRequest(frame) =>
    /\ stage \in {"arrived", "accepted", "routed", "handling", "answered", "ended", "lost"}
    /\ place = "session" /\ loose = {} /\ ran = {} /\ answer = "none" /\ sends = 0

\* Where a tool is called: for a request that names one, once it was routed.
Calling == {"calling", "returned", "unwinding"}
CallsAreRequests ==
  /\ stage \in Calling \/ ran # {} => CallsTool(line) /\ IsRequest(line) /\ line.tool # "missing"
  /\ stage \in {"arrived", "accepted", "routed"} => loose = {} /\ ran = {} /\ applied = {}

\* With an owner attached, a line that is taken for a mutation is handled in the
\* session by nobody.
MutationsForwarded ==
  attached /\ LineMutates(line) /\ IsRequest(line) /\ place = "session" =>
    stage \notin Calling \union {"handling"}

\* A mutation whose answer did not arrive is left to its owner: its outcome is unknown.
LeftToOwner ==
  "unanswered" \in loose /\ LineMutates(line) =>
    /\ place = "session" /\ stage \in {"unanswered", "answered", "ended"}
    /\ stage \in {"answered", "ended"} => answer = "ambiguous"

\* Once applied, only the outcomes that admit it are left.
AfterApplied ==
  applied # {} =>
    /\ CallMutates(line)
    /\ "unsent" \notin loose /\ ~Mistaken(line) =>
         /\ stage \in {"returned", "unwinding", "unanswered", "answered", "ended", "lost"}
         /\ stage \in {"answered", "ended"} =>
              answer \in {"result", "warned", "ambiguous", "internal"}

IInv ==
  /\ TypeOK /\ frame \in Sent
  /\ LineIsFrame /\ InertSoFar /\ CallsAreRequests
  /\ MutationsForwarded /\ MutationsStayWithOwner
  /\ LeftToOwner /\ AfterApplied

-----------------------------------------------------------------------------

\* Completing arguments by the root keeps them arguments, with the same operation.
LEMMA PinKeepsArguments ==
  ASSUME NEW a \in Arguments
  PROVE  WithPin(a) \in Arguments /\ WithPin(a).op = a.op
  BY DEF WithPin, Arguments, Shapes, Ops

LEMMA PinKeepsFrames ==
  ASSUME NEW f \in Frames
  PROVE  [f EXCEPT !.args = WithPin(f.args)] \in Frames
  BY PinKeepsArguments DEF Frames

LEMMA InitIInv == Init => IInv
<1> SUFFICES ASSUME Init PROVE IInv
  OBVIOUS
<1>1. frame \in Frames
  BY DEF Init, Sent
<1>2. TypeOK
  BY <1>1 DEF Init, TypeOK, Places, Stages, Answers
<1> QED
  BY <1>2 DEF Init, IInv, LineIsFrame, InertSoFar, CallsAreRequests, Calling,
     MutationsForwarded, MutationsStayWithOwner, LeftToOwner, AfterApplied

\* What happens to a frame once it has arrived leaves it and its setting alone.
Later ==
  \/ ClassifierPanics \/ Classify \/ Route
  \/ GateRefuses \/ Deliver \/ CannotSend \/ CutAtNewline \/ ResponseLost
  \/ Ambiguous \/ Refuse \/ SendAgain \/ Degrade
  \/ HandleLocally \/ ResourceFails
  \/ LeasePanics \/ BeforeToolRefuses \/ HandlerFails \/ HandlerReturns
  \/ Return \/ MutationHookFails \/ MutationHookPanics \/ Unwind
  \/ Deliberate \/ LooseHandled

LEMMA LaterKeepsFrame ==
  ASSUME CallsAreRequests, Later
  PROVE  /\ UNCHANGED <<rigid, line>>
         /\ stage # "arrived" /\ stage' # "arrived"
<1> USE DEF rigid, Moves, Goes, Answered, CallsAreRequests
<1>1. CASE ClassifierPanics \/ Classify \/ Route \/ GateRefuses \/ Deliver \/ CannotSend \/ CutAtNewline
  BY <1>1 DEF ClassifierPanics, Classify, Route, GateRefuses, Deliver, CannotSend, CutAtNewline
<1>2. CASE ResponseLost \/ Ambiguous \/ Refuse \/ SendAgain \/ Degrade
  BY <1>2 DEF ResponseLost, Ambiguous, Refuse, SendAgain, Degrade
<1>3. CASE HandleLocally \/ ResourceFails \/ LeasePanics \/ BeforeToolRefuses
  BY <1>3 DEF HandleLocally, ResourceFails, LeasePanics, BeforeToolRefuses
<1>4. CASE HandlerFails \/ HandlerReturns \/ Return \/ MutationHookFails \/ MutationHookPanics
  BY <1>4 DEF HandlerFails, HandlerReturns, Return, MutationHookFails, MutationHookPanics
<1>5. CASE Unwind \/ Deliberate \/ LooseHandled
  BY <1>5 DEF Unwind, Deliberate, LooseHandled
<1> QED
  BY <1>1, <1>2, <1>3, <1>4, <1>5 DEF Later

LEMMA LaterTypeOK ==
  ASSUME TypeOK, Later
  PROVE  TypeOK'
<1> USE DEF TypeOK, Moves, Goes, Answered, rigid, Stages, Places, Answers
<1>1. CASE ClassifierPanics \/ Classify \/ Route \/ GateRefuses
  BY <1>1 DEF ClassifierPanics, Classify, Route, GateRefuses
<1>6. CASE Deliver \/ CannotSend \/ CutAtNewline
  <2>1. sends' \in 0..2
    BY <1>6 DEF Deliver, CannotSend, CutAtNewline
  <2> QED
    BY <1>6, <2>1 DEF Deliver, CannotSend, CutAtNewline
<1>2. CASE ResponseLost \/ Ambiguous \/ Refuse \/ SendAgain \/ Degrade
  BY <1>2 DEF ResponseLost, Ambiguous, Refuse, SendAgain, Degrade
<1>3. CASE HandleLocally \/ ResourceFails \/ LeasePanics \/ BeforeToolRefuses
  BY <1>3 DEF HandleLocally, ResourceFails, LeasePanics, BeforeToolRefuses
<1>4. CASE HandlerFails \/ HandlerReturns \/ Return \/ MutationHookFails \/ MutationHookPanics
  BY <1>4 DEF HandlerFails, HandlerReturns, Return, MutationHookFails, MutationHookPanics
<1>5. CASE Unwind \/ Deliberate
  BY <1>5 DEF Unwind, Deliberate
<1>7. CASE LooseHandled
  BY <1>7 DEF LooseHandled
<1> QED
  BY <1>1, <1>2, <1>3, <1>4, <1>5, <1>6, <1>7 DEF Later

\* Without an id: neither forwarded nor called.
LEMMA LaterInert ==
  ASSUME TypeOK, LineIsFrame, InertSoFar, CallsAreRequests, Later
  PROVE  InertSoFar'
<1> SUFFICES ASSUME frame.json /\ ~IsRequest(frame) PROVE InertSoFar'
  BY LaterKeepsFrame DEF InertSoFar, rigid
<1>1. ~IsRequest(line) /\ line.json
  BY DEF LineIsFrame, TypeOK, IsRequest, Frames
<1> USE DEF InertSoFar, Moves, Goes, Answered, rigid
<1>2. CASE ClassifierPanics \/ Classify \/ Route \/ GateRefuses \/ Deliver \/ CannotSend \/ CutAtNewline
  BY <1>1, <1>2 DEF ClassifierPanics, Classify, Route, GateRefuses, Deliver, CannotSend, CutAtNewline, Forwards
<1>3. CASE ResponseLost \/ Ambiguous \/ Refuse \/ SendAgain \/ Degrade
  BY <1>3 DEF ResponseLost, Ambiguous, Refuse, SendAgain, Degrade
<1>4. CASE HandleLocally \/ ResourceFails
  BY <1>1, <1>4 DEF HandleLocally, ResourceFails, Drops
<1>5. CASE LeasePanics \/ BeforeToolRefuses \/ HandlerFails \/ HandlerReturns \/ Return
           \/ MutationHookFails \/ MutationHookPanics \/ Unwind \/ Deliberate \/ LooseHandled
  BY <1>5 DEF LeasePanics, BeforeToolRefuses, HandlerFails, HandlerReturns, Return,
     MutationHookFails, MutationHookPanics, Unwind, Deliberate, LooseHandled
<1> QED
  BY <1>2, <1>3, <1>4, <1>5 DEF Later

LEMMA LaterCalls ==
  ASSUME CallsAreRequests, Later
  PROVE  CallsAreRequests'
<1> USE LaterKeepsFrame DEF CallsAreRequests, Calling, Moves, Goes, Answered, rigid
<1>1. CASE ClassifierPanics \/ Classify \/ Route \/ GateRefuses \/ Deliver \/ CannotSend \/ CutAtNewline
  BY <1>1 DEF ClassifierPanics, Classify, Route, GateRefuses, Deliver, CannotSend, CutAtNewline
<1>2. CASE ResponseLost \/ Ambiguous \/ Refuse \/ SendAgain \/ Degrade
  BY <1>2 DEF ResponseLost, Ambiguous, Refuse, SendAgain, Degrade
<1>3. CASE HandleLocally \/ ResourceFails \/ LeasePanics \/ BeforeToolRefuses
  BY <1>3 DEF HandleLocally, ResourceFails, LeasePanics, BeforeToolRefuses, Drops
<1>4. CASE HandlerFails \/ HandlerReturns \/ Return \/ MutationHookFails \/ MutationHookPanics
  BY <1>4 DEF HandlerFails, HandlerReturns, Return, MutationHookFails, MutationHookPanics
<1>5. CASE Unwind \/ Deliberate \/ LooseHandled
  BY <1>5 DEF Unwind, Deliberate, LooseHandled, Executes
<1> QED
  BY <1>1, <1>2, <1>3, <1>4, <1>5 DEF Later

\* Neither routing nor any failure of sending brings a mutation to the session.
LEMMA LaterForwarded ==
  ASSUME CallsAreRequests, MutationsForwarded, MutationsStayWithOwner, Later
  PROVE  MutationsForwarded' /\ MutationsStayWithOwner'
<1> SUFFICES ASSUME attached PROVE MutationsForwarded' /\ MutationsStayWithOwner'
  BY LaterKeepsFrame DEF MutationsForwarded, MutationsStayWithOwner, rigid
<1> USE LaterKeepsFrame DEF MutationsForwarded, MutationsStayWithOwner, Calling, Moves, Goes, Answered, rigid, MustReachOwner
<1>1. CASE ClassifierPanics \/ Classify \/ Route \/ GateRefuses \/ Deliver \/ CannotSend \/ CutAtNewline
  BY <1>1 DEF ClassifierPanics, Classify, Route, GateRefuses, Deliver, CannotSend, CutAtNewline, Forwards, LineMutates, Mutates
<1>2. CASE ResponseLost \/ Ambiguous \/ Refuse \/ SendAgain \/ Degrade
  BY <1>2 DEF ResponseLost, Ambiguous, Refuse, SendAgain, Degrade
<1>3. CASE HandleLocally \/ ResourceFails \/ LeasePanics \/ BeforeToolRefuses
  BY <1>3 DEF HandleLocally, ResourceFails, LeasePanics, BeforeToolRefuses
<1>4. CASE HandlerFails \/ HandlerReturns \/ Return \/ MutationHookFails \/ MutationHookPanics
  BY <1>4 DEF CallsAreRequests, HandlerFails, HandlerReturns, Return, MutationHookFails, MutationHookPanics, Mistaken
<1>5. CASE Unwind \/ Deliberate \/ LooseHandled
  BY <1>5 DEF Unwind, Deliberate, LooseHandled
<1> QED
  BY <1>1, <1>2, <1>3, <1>4, <1>5 DEF Later

\* Nothing takes a mutation away from the owner that it was left to.
LEMMA LaterLeft ==
  ASSUME CallsAreRequests, LeftToOwner, Later
  PROVE  LeftToOwner'
<1> USE LaterKeepsFrame DEF CallsAreRequests, LeftToOwner, Moves, Goes, Answered, rigid, MustReachOwner
<1>1. CASE ClassifierPanics \/ Classify \/ Route \/ GateRefuses \/ Deliver \/ CannotSend \/ CutAtNewline
  BY <1>1 DEF ClassifierPanics, Classify, Route, GateRefuses, Deliver, CannotSend, CutAtNewline
<1>2. CASE ResponseLost \/ Ambiguous \/ Refuse \/ SendAgain \/ Degrade
  BY <1>2 DEF ResponseLost, Ambiguous, Refuse, SendAgain, Degrade
<1>3. CASE HandleLocally \/ ResourceFails \/ LeasePanics \/ BeforeToolRefuses
  BY <1>3 DEF HandleLocally, ResourceFails, LeasePanics, BeforeToolRefuses
<1>4. CASE HandlerFails \/ HandlerReturns \/ Return \/ MutationHookFails \/ MutationHookPanics
  BY <1>4 DEF HandlerFails, HandlerReturns, Return, MutationHookFails, MutationHookPanics
<1>5. CASE Unwind \/ Deliberate \/ LooseHandled
  BY <1>5 DEF Unwind, Deliberate, LooseHandled
<1> QED
  BY <1>1, <1>2, <1>3, <1>4, <1>5 DEF Later

LEMMA LaterApplied ==
  ASSUME TypeOK, CallsAreRequests, LeftToOwner, AfterApplied, Later
  PROVE  AfterApplied'
<1> USE LaterKeepsFrame DEF LeftToOwner, AfterApplied, Mistaken, Moves, Goes, Answered, rigid, MustReachOwner
<1>1. CASE ClassifierPanics \/ Classify \/ Route \/ GateRefuses \/ Deliver \/ CannotSend \/ CutAtNewline
  BY <1>1 DEF ClassifierPanics, Classify, Route, GateRefuses, Deliver, CannotSend, CutAtNewline
<1>2. CASE ResponseLost \/ Ambiguous \/ Refuse \/ SendAgain \/ Degrade
  BY <1>2 DEF ResponseLost, Ambiguous, Refuse, SendAgain, Degrade
<1>3. CASE HandleLocally \/ ResourceFails \/ LeasePanics \/ BeforeToolRefuses
  BY <1>3 DEF HandleLocally, ResourceFails, LeasePanics, BeforeToolRefuses
<1>4. CASE HandlerFails \/ HandlerReturns \/ Return \/ MutationHookFails \/ MutationHookPanics
  BY <1>4 DEF HandlerFails, HandlerReturns, Return, MutationHookFails, MutationHookPanics
<1>5. CASE Unwind \/ Deliberate
  BY <1>5 DEF Unwind, Deliberate
<1>6. CASE LooseHandled
  <2>1. "unsent" \in loose \/ "unanswered" \in loose
    BY <1>6 DEF LooseHandled, TypeOK
  <2> QED
    BY <1>6, <2>1 DEF LooseHandled
<1> QED
  BY <1>1, <1>2, <1>3, <1>4, <1>5, <1>6 DEF Later

LEMMA ArriveIInv == IInv /\ Arrive => IInv'
<1> SUFFICES ASSUME IInv, Arrive PROVE IInv'
  OBVIOUS
<1> USE DEF rigid
<1>1. frame' = frame /\ frame \in Frames /\ line = frame /\ line'.id = line.id /\ line'.json = line.json
  BY DEF Arrive, Goes, IInv, TypeOK, LineIsFrame, Frames
<1>2. line' \in Frames
  BY <1>1, PinKeepsFrames DEF Arrive
<1>3. TypeOK' /\ (frame \in Sent)'
  BY <1>2 DEF Arrive, Goes, IInv, TypeOK, Stages
<1>4. LineIsFrame'
  BY <1>1 DEF Arrive, Goes, LineIsFrame
<1>5. /\ loose = {} /\ applied = {} /\ ran = {}
      /\ loose' = {} /\ applied' = {} /\ ran' = {}
  BY DEF Arrive, Goes, IInv, CallsAreRequests
<1>6. InertSoFar'
  BY <1>1 DEF Arrive, Goes, IInv, InertSoFar
<1>7. /\ CallsAreRequests' /\ LeftToOwner' /\ AfterApplied'
      /\ MutationsForwarded' /\ MutationsStayWithOwner'
  BY <1>5 DEF Arrive, Goes, CallsAreRequests, LeftToOwner, AfterApplied, MutationsForwarded,
     MutationsStayWithOwner, Calling
<1> QED
  BY <1>3, <1>4, <1>6, <1>7 DEF IInv

LEMMA NextIInv == IInv /\ [Next]_vars => IInv'
<1> SUFFICES ASSUME IInv, [Next]_vars PROVE IInv'
  OBVIOUS
<1>1. CASE Arrive
  BY <1>1, ArriveIInv
<1>2. CASE Later
  <2>1. TypeOK'
    BY <1>2, LaterTypeOK DEF IInv
  <2>2. (frame \in Sent)' /\ LineIsFrame'
    BY <1>2, LaterKeepsFrame DEF IInv, LineIsFrame, rigid
  <2>3. InertSoFar'
    BY <1>2, LaterInert DEF IInv
  <2>4. CallsAreRequests'
    BY <1>2, LaterCalls DEF IInv
  <2>5. MutationsForwarded' /\ MutationsStayWithOwner'
    BY <1>2, LaterForwarded DEF IInv
  <2>6. AfterApplied'
    BY <1>2, LaterApplied DEF IInv
  <2>7. LeftToOwner'
    BY <1>2, LaterLeft DEF IInv
  <2> QED
    BY <2>1, <2>2, <2>3, <2>4, <2>5, <2>6, <2>7 DEF IInv
<1>3. CASE UNCHANGED vars
  BY <1>3 DEF vars, IInv, TypeOK, LineIsFrame, InertSoFar, CallsAreRequests,
     MutationsForwarded, MutationsStayWithOwner, LeftToOwner, AfterApplied
<1> QED
  BY <1>1, <1>2, <1>3 DEF Next, Later

LEMMA Invariant == Spec => []IInv
  BY InitIInv, NextIInv, PTL DEF Spec

-----------------------------------------------------------------------------

\* Every variable keeps its type.
THEOREM TypeCorrect == Spec => []TypeOK
<1>1. IInv => TypeOK
  BY DEF IInv
<1> QED
  BY <1>1, Invariant, PTL

\* A frame without an id runs nothing and is not answered.
THEOREM NotificationsInert == Spec => []NotificationsAreInert
<1>1. IInv => NotificationsAreInert
  BY DEF IInv, InertSoFar, NotificationsAreInert
<1> QED
  BY <1>1, Invariant, PTL

\* No mutating handler runs in a session that has an owner, unless absent arguments
\* made its line a read.
THEOREM MutationsStay == Spec => []MutationsStayWithOwner
<1>1. IInv => MutationsStayWithOwner
  BY DEF IInv
<1> QED
  BY <1>1, Invariant, PTL

\* What was applied is not denied, before or after the answer, unless the frame was cut
\* at its newline or absent arguments made its line a read.
THEOREM AppliedIsAdmitted == Spec => []AppliedIsNotDenied
<1>1. IInv => AppliedIsNotDenied
  BY DEF IInv, AfterApplied, AppliedIsNotDenied
<1> QED
  BY <1>1, Invariant, PTL

\* The connection's root completes arguments and replaces nothing.
THEOREM PinCompletes == Spec => []PinIsOnlyADefault
<1>1. IInv => PinIsOnlyADefault
  <2> SUFFICES ASSUME IInv, ran # {} PROVE PinIsOnlyADefault
    BY DEF PinIsOnlyADefault
  <2>1. stage # "arrived" /\ CallsTool(line) /\ line.tool # "missing"
    BY DEF IInv, CallsAreRequests
  <2>2. frame \in Frames /\ frame \in Sent /\ frame.args \in Arguments
    BY DEF IInv, TypeOK, Frames
  <2>3. CallsTool(frame) /\ frame.tool # "missing"
    BY <2>1, <2>2 DEF IInv, LineIsFrame, CallsTool, Frames
  <2>4. frame.args.root \in {"none", "own"}
    BY <2>2 DEF Sent, Arguments
  <2>5. line.args = IF pinned THEN WithPin(frame.args) ELSE frame.args
    BY <2>1, <2>2, <2>3 DEF IInv, LineIsFrame, Frames
  <2> QED
    BY <2>2, <2>4, <2>5 DEF WithPin, Arguments, Shapes, PinIsOnlyADefault
<1> QED
  BY <1>1, Invariant, PTL
=============================================================================
