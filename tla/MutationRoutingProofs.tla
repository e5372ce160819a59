------------------------ MODULE MutationRoutingProofs -----------------------
(***************************************************************************)
(* What TLAPS proves of MutationRouting, for any number of calls and owner  *)
(* processes.  That a call lands at most once and that a refusal is honest  *)
(* holds of the calls no write cut at the newline (cut); that an answer     *)
(* means application holds of all.                                         *)
(***************************************************************************)
EXTENDS MutationRouting, TLAPS

-----------------------------------------------------------------------------
(* Types.                                                                  *)

LEMMA AdvanceEffect ==
  ASSUME delivery \in [Calls -> [Tries -> Deliveries]],
         NEW m \in Calls, NEW k \in Tries, NEW how \in Deliveries,
         Advance(m, k, how)
  PROVE  /\ delivery' \in [Calls -> [Tries -> Deliveries]]
         /\ delivery'[m][k] = how
         /\ \A n \in Calls, j \in Tries :
              n # m \/ j # k => delivery'[n][j] = delivery[n][j]
<1>1. delivery' = [delivery EXCEPT ![m] = [delivery[m] EXCEPT ![k] = how]]
  BY DEF Advance
<1>2. [delivery[m] EXCEPT ![k] = how] \in [Tries -> Deliveries]
  OBVIOUS
<1>3. QED
  BY <1>1, <1>2

LEMMA DestTyped ==
  ASSUME TypeOK, NEW m \in Calls, NEW k \in Tries,
         dest' = [dest EXCEPT ![m][k] = using[m]]
  PROVE  dest' \in [Calls -> [Tries -> Procs \union {None}]]
<1> USE DEF TypeOK
<1>1. dest' = [dest EXCEPT ![m] = [dest[m] EXCEPT ![k] = using[m]]]
  OBVIOUS
<1>2. [dest[m] EXCEPT ![k] = using[m]] \in [Tries -> Procs \union {None}]
  OBVIOUS
<1>3. QED
  BY <1>1, <1>2

LEMMA CallStepTyped ==
  ASSUME TypeOK, NEW m \in Calls, CallStep(m) \/ SessionEnds(m)
  PROVE  TypeOK'
<1> USE DEF TypeOK, Pcs, Outcomes, serviceVars, callVars, Goto, Finish
<1>0. "wire" \in Deliveries /\ 1 \in Tries /\ 2 \in Tries
  BY DEF Deliveries, Tries
<1>1. ASSUME NEW p \in Procs, CallStart(m, p) PROVE TypeOK'
  BY <1>1 DEF CallStart
<1>2. ASSUME NEW k \in Tries, SendWhole(m, k) PROVE TypeOK'
  <2>1. delivery' \in [Calls -> [Tries -> Deliveries]]
    BY <1>0, <1>2, AdvanceEffect DEF SendWhole
  <2>2. dest' \in [Calls -> [Tries -> Procs \union {None}]]
    BY <1>2, DestTyped DEF SendWhole
  <2>3. QED
    BY <1>2, <2>1, <2>2 DEF SendWhole
<1>3. ASSUME NEW k \in Tries,
             SendMeetsStranger(m, k) \/ ResponseArrives(m, k) \/ ResponseLost(m, k)
      PROVE  TypeOK'
  BY <1>3 DEF SendMeetsStranger, ResponseArrives, ResponseLost
<1>4. CASE SendFails(m) \/ ResendFails(m)
  <2>1. ASSUME NEW k \in Tries, Fail(m, k)
        PROVE  /\ delivery' \in [Calls -> [Tries -> Deliveries]]
               /\ dest' \in [Calls -> [Tries -> Procs \union {None}]]
    BY <1>0, <2>1, AdvanceEffect, DestTyped DEF Fail
  <2>2. \E k \in Tries : Fail(m, k)
    BY <1>0, <1>4 DEF SendFails, ResendFails
  <2>3. cut' \subseteq Calls
    BY <2>2 DEF Fail
  <2>4. QED
    BY <1>4, <2>1, <2>2, <2>3 DEF SendFails, ResendFails
<1>5. CASE \/ GateRefuses(m) \/ RecoverAttaches(m) \/ RecoverRefuses(m)
           \/ ElectionSucceeds(m) \/ ElectionFails(m) \/ SessionEnds(m)
  BY <1>5 DEF GateRefuses, RecoverAttaches, RecoverRefuses, ElectionSucceeds,
     ElectionFails, SessionEnds
<1>6. CASE RecoverClears(m)
  BY <1>6 DEF RecoverClears, Unregister
<1>7. QED
  BY <1>1, <1>2, <1>3, <1>4, <1>5, <1>6 DEF CallStep

OwnersStep ==
  \/ OwnerStep
  \/ \E p \in Procs : OwnerEnds(p)
  \/ \E m \in Calls, k \in Tries :
       OwnerTakes(m, k) \/ OwnerApplies(m, k) \/ OwnerAnswers(m, k)

LEMMA OwnersTyped == ASSUME TypeOK, OwnersStep PROVE TypeOK'
<1> USE DEF TypeOK, serviceVars, callVars
<1>1. CASE OwnerStep
  BY <1>1 DEF OwnerStep, Unregister, Elect, BecomeReady, Register
<1>2. ASSUME NEW p \in Procs, OwnerEnds(p) PROVE TypeOK'
  BY <1>2 DEF OwnerEnds, End, Deliveries
<1>3. ASSUME NEW m \in Calls, NEW k \in Tries,
             OwnerTakes(m, k) \/ OwnerApplies(m, k) \/ OwnerAnswers(m, k)
      PROVE  TypeOK'
  <2>1. PICK how \in Deliveries : Advance(m, k, how)
    BY <1>3 DEF OwnerTakes, OwnerApplies, OwnerAnswers, Deliveries
  <2>2. QED
    BY <1>3, <2>1, AdvanceEffect DEF OwnerTakes, OwnerApplies, OwnerAnswers
<1>4. QED
  BY <1>1, <1>2, <1>3 DEF OwnersStep

\* Every variable keeps its type.
THEOREM TypeCorrect == Spec => []TypeOK
<1>1. Init => TypeOK
  BY DEF Init, SInit, TypeOK, Pcs, Outcomes, Deliveries
<1>2. TypeOK /\ [Next]_vars => TypeOK'
  <2>1. CASE UNCHANGED vars
    BY <2>1 DEF vars, TypeOK
  <2>2. QED
    BY <2>1, OwnersTyped, CallStepTyped DEF Next, OwnersStep
<1>3. QED
  BY <1>1, <1>2, PTL DEF Spec

-----------------------------------------------------------------------------
(* The owners move deliveries that have begun, and take back none that was  *)
(* applied.  A step of one call leaves the others alone.                    *)

LEMMA OwnersEffect ==
  ASSUME TypeOK, OwnersStep, NEW m \in Calls
  PROVE  /\ pc'[m] = pc[m] /\ outcome'[m] = outcome[m]
         /\ \A k \in Tries : /\ delivery'[m][k] = "none" <=> delivery[m][k] = "none"
                             /\ Applied(m, k) => Applied(m, k)'
<1> USE DEF TypeOK, callVars, Applied
<1>1. CASE OwnerStep
  BY <1>1 DEF OwnerStep
<1>2. ASSUME NEW p \in Procs, OwnerEnds(p)
      PROVE  /\ pc'[m] = pc[m] /\ outcome'[m] = outcome[m]
             /\ \A k \in Tries : /\ delivery'[m][k] = "none" <=> delivery[m][k] = "none"
                                 /\ Applied(m, k) => Applied(m, k)'
  BY <1>2 DEF OwnerEnds
<1>3. ASSUME NEW n \in Calls, NEW j \in Tries,
             OwnerTakes(n, j) \/ OwnerApplies(n, j) \/ OwnerAnswers(n, j)
      PROVE  /\ pc'[m] = pc[m] /\ outcome'[m] = outcome[m]
             /\ \A k \in Tries : /\ delivery'[m][k] = "none" <=> delivery[m][k] = "none"
                                 /\ Applied(m, k) => Applied(m, k)'
  <2>1. ASSUME NEW how \in Deliveries, Advance(n, j, how),
               how # "none", delivery[n][j] # "none", Applied(n, j) => how = "answered"
        PROVE  \A k \in Tries : /\ delivery'[m][k] = "none" <=> delivery[m][k] = "none"
                                /\ Applied(m, k) => Applied(m, k)'
    <3>1. /\ delivery'[n][j] = how
          /\ \A i \in Calls, k \in Tries :
               i # n \/ k # j => delivery'[i][k] = delivery[i][k]
      BY <2>1, AdvanceEffect
    <3>2. QED
      BY <2>1, <3>1
  <2>2. {"running", "landed", "answered"} \subseteq Deliveries
    BY DEF Deliveries
  <2>3. QED
    BY <1>3, <2>1, <2>2 DEF OwnerTakes, OwnerApplies, OwnerAnswers
<1>4. QED
  BY <1>1, <1>2, <1>3 DEF OwnersStep

LEMMA CallAlone ==
  ASSUME TypeOK, NEW m \in Calls, CallStep(m) \/ SessionEnds(m),
         NEW n \in Calls, n # m
  PROVE  /\ pc'[n] = pc[n] /\ outcome'[n] = outcome[n]
         /\ \A k \in Tries : delivery'[n][k] = delivery[n][k]
<1>1. pc'[n] = pc[n] /\ outcome'[n] = outcome[n]
  BY DEF TypeOK, CallStep, SessionEnds, CallStart, GateRefuses, SendFails, ResendFails,
     SendWhole, SendMeetsStranger, ResponseArrives, ResponseLost, RecoverAttaches,
     RecoverRefuses, RecoverClears, ElectionSucceeds, ElectionFails, Goto, Finish
<1>2. \/ UNCHANGED delivery
      \/ \E k \in Tries : Advance(m, k, "wire")
  BY DEF CallStep, SessionEnds, CallStart, GateRefuses, SendFails, ResendFails, Fail,
     SendWhole, SendMeetsStranger, ResponseArrives, ResponseLost, RecoverAttaches,
     RecoverRefuses, RecoverClears, ElectionSucceeds, ElectionFails, Tries
<1>3. "wire" \in Deliveries
  BY DEF Deliveries
<1>4. QED
  BY <1>1, <1>2, <1>3, AdvanceEffect DEF TypeOK

-----------------------------------------------------------------------------
(* The outcome of a call is set once, at its end.                          *)

UndecidedInv == \A m \in Calls : pc[m] # "done" => outcome[m] = "none"

LEMMA UndecidedStep ==
  ASSUME TypeOK, UndecidedInv, NEW m \in Calls, CallStep(m) \/ SessionEnds(m)
  PROVE  pc'[m] # "done" => outcome'[m] = outcome[m]
BY DEF TypeOK, CallStep, SessionEnds, CallStart, GateRefuses, SendFails, ResendFails,
   SendWhole, SendMeetsStranger, ResponseArrives, ResponseLost, RecoverAttaches,
   RecoverRefuses, RecoverClears, ElectionSucceeds, ElectionFails, Goto, Finish

\* A call that ended does not move.
LEMMA DoneStays ==
  ASSUME TypeOK, NEW m \in Calls, CallStep(m) \/ SessionEnds(m)
  PROVE  pc[m] # "done"
BY DEF CallStep, SessionEnds, CallStart, GateRefuses, SendFails, ResendFails, Fail,
   Trying, Awaiting,
   SendWhole, SendMeetsStranger, ResponseArrives, ResponseLost, RecoverAttaches,
   RecoverRefuses, RecoverClears, ElectionSucceeds, ElectionFails

LEMMA UndecidedPreserved ==
  ASSUME TypeOK, UndecidedInv, [Next]_vars PROVE UndecidedInv'
<1>1. CASE UNCHANGED vars
  BY <1>1 DEF vars, UndecidedInv
<1>2. CASE OwnersStep
  BY <1>2, OwnersEffect DEF UndecidedInv
<1>3. ASSUME NEW m \in Calls, CallStep(m) \/ SessionEnds(m) PROVE UndecidedInv'
  <2>1. ASSUME NEW n \in Calls, pc'[n] # "done" PROVE outcome'[n] = "none"
    <3>1. CASE n = m
      BY <1>3, <2>1, <3>1, UndecidedStep, DoneStays DEF UndecidedInv
    <3>2. CASE n # m
      BY <1>3, <2>1, <3>2, CallAlone DEF UndecidedInv
    <3>3. QED
      BY <3>1, <3>2
  <2>2. QED
    BY <2>1 DEF UndecidedInv
<1>4. QED
  BY <1>1, <1>2, <1>3 DEF Next, OwnersStep

LEMMA Undecided == Spec => []UndecidedInv
<1>1. Init => UndecidedInv
  BY DEF Init, UndecidedInv
<1>2. QED
  BY <1>1, UndecidedPreserved, TypeCorrect, PTL DEF Spec

\* A call whose answer reached the agent was applied by the owner that
\* answered, for every number of owners that die, and frames cut anywhere.
THEOREM AnswerMeansApplied == Spec => []AnsweredMeansApplied
<1>1. Init => AnsweredMeansApplied
  BY DEF Init, AnsweredMeansApplied
<1>2. TypeOK /\ UndecidedInv /\ AnsweredMeansApplied /\ [Next]_vars
        => AnsweredMeansApplied'
  <2> SUFFICES ASSUME TypeOK, UndecidedInv, AnsweredMeansApplied, [Next]_vars
               PROVE  AnsweredMeansApplied'
    OBVIOUS
  <2>1. CASE UNCHANGED vars
    BY <2>1 DEF vars, AnsweredMeansApplied, Applied
  <2>2. CASE OwnersStep
    BY <2>2, OwnersEffect DEF AnsweredMeansApplied
  <2>3. ASSUME NEW m \in Calls, CallStep(m) \/ SessionEnds(m),
               NEW n \in Calls, outcome'[n] = "ok"
        PROVE  \E k \in Tries : Applied(n, k)'
    <3>1. CASE n # m
      BY <2>3, <3>1, CallAlone DEF AnsweredMeansApplied, Applied
    <3>2. CASE n = m
      <4>1. outcome[m] = "none"
        BY <2>3, DoneStays DEF UndecidedInv
      <4>2. PICK k \in Tries : ResponseArrives(m, k)
        BY <2>3, <3>2, <4>1 DEF TypeOK, CallStep, SessionEnds, CallStart, GateRefuses,
           SendFails, ResendFails, SendWhole, SendMeetsStranger, ResponseLost,
           RecoverAttaches, RecoverRefuses, RecoverClears, ElectionSucceeds,
           ElectionFails, Goto, Finish
      <4>3. QED
        BY <3>2, <4>2 DEF ResponseArrives, Applied
    <3>3. QED
      BY <3>1, <3>2
  <2>4. QED
    BY <2>1, <2>2, <2>3 DEF Next, OwnersStep, AnsweredMeansApplied
<1>3. QED
  BY <1>1, <1>2, TypeCorrect, Undecided, PTL DEF Spec

-----------------------------------------------------------------------------
(* At most one try of a call is ever delivered, and none before the call    *)
(* has sent it: a request that failed to go out left nothing behind.        *)

Before == {"idle", "send", "recover", "elect", "resend"}

Undelivered(m) == \A k \in Tries : delivery[m][k] = "none"

DeliveryInv ==
  \A m \in Calls \ cut :
    /\ \E k \in Tries : delivery[m][k] = "none"
    /\ pc[m] \in Before => Undelivered(m)
    /\ outcome[m] \in {"refused", "stranger"} => Undelivered(m)

LEMMA CutGrows ==
  ASSUME NEW m \in Calls, CallStep(m) \/ SessionEnds(m) PROVE cut \subseteq cut'
BY DEF CallStep, SessionEnds, CallStart, GateRefuses, SendFails, ResendFails, Fail,
   SendWhole, SendMeetsStranger, ResponseArrives, ResponseLost, RecoverAttaches,
   RecoverRefuses, RecoverClears, ElectionSucceeds, ElectionFails

LEMMA DeliveryPreserved ==
  ASSUME TypeOK, UndecidedInv, DeliveryInv, [Next]_vars
  PROVE  DeliveryInv'
<1>1. CASE UNCHANGED vars
  BY <1>1 DEF vars, DeliveryInv, Undelivered
<1>2. CASE OwnersStep
  <2>1. cut' = cut
    BY <1>2 DEF OwnersStep, OwnerStep, OwnerEnds, OwnerTakes, OwnerApplies,
       OwnerAnswers, callVars
  <2>2. QED
    BY <1>2, <2>1, OwnersEffect DEF DeliveryInv, Undelivered
<1>3. ASSUME NEW m \in Calls, CallStep(m) \/ SessionEnds(m) PROVE DeliveryInv'
  <2> DEFINE Kept(n) == n \notin cut' =>
        /\ \E k \in Tries : delivery'[n][k] = "none"
        /\ pc'[n] \in Before => Undelivered(n)'
        /\ outcome'[n] \in {"refused", "stranger"} => Undelivered(n)'
  <2>0. cut \subseteq cut'
    BY <1>3, CutGrows
  <2> USE <2>0
  <2>1. ASSUME NEW n \in Calls, n # m PROVE Kept(n)
    BY <1>3, <2>1, CallAlone DEF DeliveryInv, Undelivered
  <2>2. Kept(m)
    <3>1. outcome[m] = "none" /\ pc[m] # "done"
      BY <1>3, DoneStays DEF UndecidedInv
    <3>2. ASSUME NEW k \in Tries, SendWhole(m, k) PROVE Kept(m)
      <4>1. CASE m \in cut
        BY <4>1
      <4>2. CASE m \notin cut
        <5>1. Undelivered(m)
          BY <3>2, <4>2 DEF SendWhole, Trying, DeliveryInv, Before
        <5>2. pc'[m] \notin Before
          BY <3>2 DEF SendWhole, Goto, TypeOK, Before
        <5>3. outcome'[m] = "none"
          BY <3>1, <3>2 DEF SendWhole
        <5>4. "wire" \in Deliveries
          BY DEF Deliveries
        <5>5. \A j \in Tries \ {k} : delivery'[m][j] = "none"
          BY <3>2, <5>1, <5>4, AdvanceEffect DEF SendWhole, TypeOK, Undelivered
        <5>6. QED
          BY <5>2, <5>3, <5>5 DEF Tries
      <4>3. QED
        BY <4>1, <4>2
    <3>3. ASSUME NEW k \in Tries, ResponseArrives(m, k) \/ ResponseLost(m, k)
          PROVE  Kept(m)
      BY <3>3 DEF ResponseArrives, ResponseLost, Finish, Goto, TypeOK, DeliveryInv, Before
    <3>4. CASE \/ GateRefuses(m) \/ SendFails(m) \/ ResendFails(m)
               \/ RecoverAttaches(m) \/ RecoverRefuses(m) \/ RecoverClears(m)
               \/ ElectionSucceeds(m) \/ ElectionFails(m)
               \/ \E p \in Procs : CallStart(m, p)
               \/ \E k \in Tries : SendMeetsStranger(m, k)
      <4>1. pc[m] \in Before /\ (m \in cut' \/ UNCHANGED delivery)
        BY <3>4 DEF GateRefuses, SendFails, ResendFails, Fail, Trying, RecoverAttaches,
           RecoverRefuses, RecoverClears, ElectionSucceeds, ElectionFails, CallStart,
           SendMeetsStranger, Before
      <4>2. QED
        BY <4>1 DEF DeliveryInv, Undelivered
    <3>5. CASE SessionEnds(m)
      BY <3>1, <3>5 DEF SessionEnds, Goto, TypeOK, DeliveryInv, Before
    <3>6. QED
      BY <1>3, <3>2, <3>3, <3>4, <3>5 DEF CallStep
  <2>3. QED
    BY <2>1, <2>2 DEF DeliveryInv
<1>4. QED
  BY <1>1, <1>2, <1>3 DEF Next, OwnersStep

LEMMA DeliveryCorrect == Spec => []DeliveryInv
<1>1. Init => DeliveryInv
  BY DEF Init, DeliveryInv, Undelivered, Tries
<1>2. TypeOK /\ UndecidedInv /\ DeliveryInv /\ [Next]_vars => DeliveryInv'
  BY DeliveryPreserved
<1>3. QED
  BY <1>1, <1>2, TypeCorrect, Undecided, PTL DEF Spec

\* A mutation whose request no write cut at its very end lands at most once, for
\* every number of calls, sessions and owners that come and go.
THEOREM AppliedAtMostOnce == Spec => []AtMostOnce
<1>1. DeliveryInv => AtMostOnce
  BY DEF DeliveryInv, AtMostOnce, Applied, Tries
<1>2. QED
  BY <1>1, DeliveryCorrect, PTL

\* Such a mutation, refused as safe to retry, was not applied and never will be.
THEOREM RefusalsAreHonest == Spec => []HonestRefusal
<1>1. DeliveryInv => HonestRefusal
  BY DEF DeliveryInv, HonestRefusal, Undelivered, Applied
<1>2. QED
  BY <1>1, DeliveryCorrect, PTL
=============================================================================
