-------------------------- MODULE OwnerHealthProofs -------------------------
(***************************************************************************)
(* What TLAPS proves of the health gate, on the two sides of the wire.       *)
(*                                                                         *)
(* Of OwnerHealth, for any number of sessions, dispatch threads and          *)
(* generations, any probe interval, window and bound, and sessions killed    *)
(* anywhere: an owner is retired on its own verdict only, and no more often  *)
(* than the budget allows.  The ledger plays no part in the first, nor the   *)
(* gate's memo in the second; each has an invariant of its own.              *)
(*                                                                         *)
(* Of OwnerDrain, for any connections and probes: one health hook is out at  *)
(* most, and whatever is in progress is answered before the owner exits.     *)
(***************************************************************************)
EXTENDS OwnerHealth, OwnerDrain, FiniteSetTheorems, TLAPS

\* The type invariant, as far as the verdict depends on it.
GateTypes ==
  /\ owner \in Gens \union {None}
  /\ sick \subseteq Gens
  /\ reported \subseteq Gens
  /\ cached \in [Sessions -> Gens \union {None}]
  /\ memo \in [Sessions -> [Gens -> Memos]]
  /\ pc \in [Threads -> Pcs]

\* A memo says "sick" only of a generation that said so itself; a thread that
\* is about to retire its session's endpoint has read that there.
VerdictInv ==
  /\ \A s \in Sessions, g \in Gens : memo[s][g].found = "sick" => g \in reported
  /\ OnlySickRetired

IInv == GateTypes /\ VerdictInv

-----------------------------------------------------------------------------
(* What one Remember does to the memos.                                    *)

LEMMA RememberEffect ==
  ASSUME GateTypes, NEW t \in Threads, Endpoint(t) # None,
         NEW found \in {"nothing", "sick"}, Remember(t, found)
  PROVE  /\ memo' \in [Sessions -> [Gens -> Memos]]
         /\ \A s \in Sessions, g \in Gens :
              memo'[s][g].found = "sick" =>
                memo[s][g].found = "sick" \/ (found = "sick" /\ g = Endpoint(t))
<1> USE DEF GateTypes, Threads
<1> DEFINE entry == [age |-> 0, found |-> found]
<1>1. t[1] \in Sessions /\ Endpoint(t) \in Gens
  BY DEF Endpoint
<1>2. memo' = [memo EXCEPT ![t[1]] = [memo[t[1]] EXCEPT ![Endpoint(t)] = entry]]
  BY DEF Remember
<1>3. entry \in Memos
  BY TimeAssumption DEF Memos
<1>4. [memo[t[1]] EXCEPT ![Endpoint(t)] = entry] \in [Gens -> Memos]
  BY <1>1, <1>3
<1>5. memo' \in [Sessions -> [Gens -> Memos]]
  BY <1>1, <1>2, <1>4
<1>6. ASSUME NEW s \in Sessions, NEW g \in Gens, memo'[s][g].found = "sick"
      PROVE  memo[s][g].found = "sick" \/ (found = "sick" /\ g = Endpoint(t))
  BY <1>1, <1>2, <1>6
<1>7. QED
  BY <1>5, <1>6

LEMMA TickEffect ==
  ASSUME GateTypes, Tick
  PROVE  /\ memo' \in [Sessions -> [Gens -> Memos]]
         /\ \A s \in Sessions, g \in Gens : memo'[s][g].found = memo[s][g].found
<1>1. ASSUME NEW s \in Sessions, NEW g \in Gens
      PROVE  /\ [memo[s][g] EXCEPT !.age = Older(@, Interval)] \in Memos
             /\ [memo[s][g] EXCEPT !.age = Older(@, Interval)].found = memo[s][g].found
  <2>1. memo[s][g] \in Memos
    BY DEF GateTypes
  <2>2. Older(memo[s][g].age, Interval) \in 0..Interval
    BY <2>1, TimeAssumption DEF Older, Memos
  <2>3. QED
    BY <2>1, <2>2 DEF Memos
<1>2. QED
  BY <1>1 DEF Tick

-----------------------------------------------------------------------------
LEMMA InitVerdict == Init => IInv
<1>1. Unasked \in Memos /\ Unasked.found # "sick"
  BY TimeAssumption DEF Unasked, Memos
<1>2. QED
  BY <1>1 DEF Init, IInv, GateTypes, VerdictInv, OnlySickRetired, Pcs, Deciding

\* Time, owners and sessions that start and end.
LEMMA WorldKeepsVerdict ==
  ASSUME IInv,
         \/ Tick \/ ElectedElsewhere \/ OwnerEnds \/ Sicken
         \/ \E s \in Sessions : SessionStart(s) \/ SessionEnd(s)
  PROVE  IInv'
<1> USE DEF IInv, VerdictInv, OnlySickRetired, Endpoint, Deciding, Threads
<1>1. CASE Tick
  BY <1>1, TickEffect DEF GateTypes, Tick, ownerVars
<1>2. CASE ElectedElsewhere \/ OwnerEnds \/ Sicken
  BY <1>2 DEF GateTypes, gateVars, ElectedElsewhere, Ensure, ownerVars, OwnerEnds, Sicken
<1>3. ASSUME NEW s \in Sessions, SessionStart(s) PROVE IInv'
  <2>1. PICK g \in Gens : cached' = [cached EXCEPT ![s] = g]
    BY <1>3 DEF SessionStart
  <2>2. \A t \in Threads : t[1] = s => pc[t] \notin {"claim", "truncate", "write", "retire"}
    BY <1>3, NoGenAssumption DEF SessionStart, GateTypes
  <2>3. QED
    BY <1>3, <2>1, <2>2 DEF SessionStart, Ensure, ownerVars, GateTypes
<1>4. ASSUME NEW s \in Sessions, SessionEnd(s) PROVE IInv'
  <2>1. Unasked \in Memos /\ Unasked.found # "sick"
    BY TimeAssumption DEF Unasked, Memos
  <2>2. GateTypes'
    BY <1>4, <2>1 DEF SessionEnd, ownerVars, GateTypes, Pcs
  <2>3. QED
    BY <1>4, <2>1, <2>2 DEF SessionEnd, GateTypes
<1>5. QED
  BY <1>1, <1>2, <1>3, <1>4

\* The gate's own steps.
LEMMA ThreadKeepsVerdict ==
  ASSUME IInv, NEW t \in Threads, ThreadStep(t) PROVE IInv'
<1> USE DEF IInv, GateTypes, VerdictInv, OnlySickRetired, Deciding, Pcs, Goto, Endpoint,
            ownerVars
<1>1. CASE GateProbes(t)
  BY <1>1, RememberEffect DEF GateProbes
<1>2. CASE QuerySaysSick(t)
  <2>1. Endpoint(t) # None /\ Endpoint(t) \in Gens
    BY <1>2, NoGenAssumption DEF QuerySaysSick
  <2>2. QED
    BY <1>2, <2>1, RememberEffect DEF QuerySaysSick
<1>3. CASE GateKnowsSick(t)
  <2>1. Endpoint(t) \in Gens /\ t[1] \in Sessions
    BY <1>3 DEF GateKnowsSick, Threads
  <2>2. QED
    BY <1>3, <2>1 DEF GateKnowsSick, gateVars, Entry
<1>4. CASE \/ GateSkips(t) \/ QueryProceeds(t) \/ ClaimRefused(t) \/ ClaimReads(t)
           \/ ClaimTruncates(t) \/ ClaimWriteFails(t) \/ ClaimWrites(t)
           \/ Retire(t) \/ Replace(t) \/ ReplacementFails(t)
  BY <1>4 DEF gateVars, GateSkips, QueryProceeds, ClaimRefused, ClaimReads,
     ClaimTruncates, ClaimWriteFails, ClaimWrites, Exhaust, Retire, Replace,
     ReplacementFails, Ensure
<1>5. QED
  BY <1>1, <1>2, <1>3, <1>4 DEF ThreadStep

\* An owner is on its way to being retired only if that very generation
\* answered a probe with "unhealthy".
THEOREM RetiredOnItsOwnVerdict == Spec => []OnlySickRetired
<1>1. IInv /\ [Next]_vars => IInv'
  <2>1. IInv /\ UNCHANGED vars => IInv'
    BY DEF IInv, GateTypes, VerdictInv, OnlySickRetired, Endpoint, vars, ownerVars, gateVars
  <2>2. QED
    BY <2>1, WorldKeepsVerdict, ThreadKeepsVerdict DEF Next
<1>2. IInv => OnlySickRetired
  BY DEF IInv, VerdictInv
<1>3. QED
  BY <1>1, <1>2, InitVerdict, PTL DEF Spec

-----------------------------------------------------------------------------
(* The records: what ageing and adding one do to a set of them.               *)

LEMMA AgedRecords ==
  ASSUME NEW S \in SUBSET Records
  PROVE  AllOlder(S) \in SUBSET Records
<1>1. ASSUME NEW r \in S PROVE [r EXCEPT !.age = Older(@, Window + 1)] \in Records
  BY TimeAssumption DEF Records, Ages, Older
<1>2. QED
  BY <1>1 DEF AllOlder

\* What leaves the window by ageing does not come back.
LEMMA AgeingForgets ==
  ASSUME NEW S \in SUBSET Records
  PROVE  InWindow(AllOlder(S)) = InWindow(AllOlder(InWindow(S)))
<1>1. ASSUME NEW r \in S, [r EXCEPT !.age = Older(@, Window + 1)].age <= Window
      PROVE  r.age <= Window
  BY <1>1, TimeAssumption DEF Records, Ages, Older
<1>2. QED
  BY <1>1 DEF InWindow, AllOlder

LEMMA AgeingIsMonotone ==
  ASSUME NEW S, NEW T, S \subseteq T
  PROVE  InWindow(S) \subseteq InWindow(T) /\ AllOlder(S) \subseteq AllOlder(T)
  BY DEF InWindow, AllOlder

LEMMA AgeingShrinks ==
  ASSUME NEW S \in SUBSET Records, IsFiniteSet(S)
  PROVE  /\ IsFiniteSet(InWindow(AllOlder(S)))
         /\ Cardinality(InWindow(AllOlder(S))) <= Cardinality(S)
<1> DEFINE f == [r \in S |-> [r EXCEPT !.age = Older(@, Window + 1)]]
           T == AllOlder(S)
<1>1. f \in Surjection(S, T)
  BY DEF Surjection, AllOlder
<1>2. IsFiniteSet(T) /\ Cardinality(T) <= Cardinality(S)
  BY <1>1, FS_Surjection
<1>3. InWindow(T) \in SUBSET T
  BY DEF InWindow
<1>4. IsFiniteSet(InWindow(T)) /\ Cardinality(InWindow(T)) <= Cardinality(T)
  BY <1>2, <1>3, FS_Subset
<1>5. /\ Cardinality(S) \in Nat /\ Cardinality(T) \in Nat
      /\ Cardinality(InWindow(T)) \in Nat
  BY <1>2, <1>4, FS_CardinalityType
<1>6. QED
  BY <1>2, <1>4, <1>5

LEMMA RecordsAreFinite == ASSUME NEW S \in SUBSET Records PROVE IsFiniteSet(S)
<1> DEFINE A == Ages
           B == 1..Bound
           P == A \X B
           f == [p \in P |-> [age |-> p[1], mark |-> p[2]]]
<1>1. IsFiniteSet(A) /\ IsFiniteSet(B)
  BY FS_Interval, TimeAssumption DEF Ages
<1>2. IsFiniteSet(P)
  BY <1>1, FS_Product
<1>3. f \in Surjection(P, Records)
  <2>1. \A p \in P : f[p] \in Records
    BY DEF Records
  <2>2. ASSUME NEW r \in Records PROVE \E p \in P : f[p] = r
    <3>1. <<r.age, r.mark>> \in P /\ f[<<r.age, r.mark>>] = r
      BY DEF Records
    <3>2. QED
      BY <3>1
  <2>3. QED
    BY <2>1, <2>2 DEF Surjection
<1>4. IsFiniteSet(Records)
  BY <1>2, <1>3, FS_Surjection
<1>5. QED
  BY <1>4, FS_Subset

\* While the budget is not spent some mark is free, so that the new record is one
\* more: what is counted of the set is what the file lists.
LEMMA NewRecordIsNew ==
  ASSUME NEW S \in SUBSET Records, Cardinality(S) < Bound
  PROVE  NewRecord(S) \in Records /\ NewRecord(S) \notin S
<1> DEFINE used1 == {r.mark : r \in S}
           f == [r \in S |-> r.mark]
<1>1. IsFiniteSet(S)
  BY RecordsAreFinite
<1>2. f \in Surjection(S, used1)
  BY DEF Surjection
<1>3. IsFiniteSet(used1) /\ Cardinality(used1) <= Cardinality(S)
  BY <1>1, <1>2, FS_Surjection
<1>4. \E m \in 1..Bound : m \notin used1
  <2> SUFFICES ASSUME 1..Bound \subseteq used1 PROVE FALSE
    OBVIOUS
  <2>1. Cardinality(1..Bound) = Bound
    BY FS_Interval, TimeAssumption
  <2>2. Cardinality(1..Bound) <= Cardinality(used1)
    BY <1>3, FS_Subset
  <2>3. Cardinality(S) \in Nat /\ Cardinality(used1) \in Nat
    BY <1>1, <1>3, FS_CardinalityType
  <2>4. QED
    BY <1>3, <2>1, <2>2, <2>3, TimeAssumption
<1>5. \E m \in 1..Bound : \A r \in S : r.mark # m
  BY <1>4
<1>6. /\ NewRecord(S).mark \in 1..Bound /\ \A r \in S : r.mark # NewRecord(S).mark
  BY <1>5 DEF NewRecord
<1>7. NewRecord(S) \in Records
  BY <1>6, TimeAssumption DEF NewRecord, Records, Ages
<1>8. QED
  BY <1>6, <1>7

-----------------------------------------------------------------------------
(* Types of the ledger, and so of everything.                               *)

LedgerTypes ==
  /\ used \subseteq Gens
  /\ ledger \subseteq Records
  /\ copy \in [Threads -> SUBSET Records]
  /\ claims \subseteq Records
  /\ torn \in BOOLEAN

LEMMA LedgerTyped == ASSUME GateTypes, LedgerTypes, [Next]_vars PROVE LedgerTypes'
<1> USE DEF LedgerTypes
<1>1. CASE Tick
  <2>1. \A S \in SUBSET Records : AllOlder(S) \in SUBSET Records
    BY AgedRecords
  <2>2. InWindow(AllOlder(claims)) \subseteq Records
    BY <2>1 DEF InWindow
  <2>3. QED
    BY <1>1, <2>1, <2>2 DEF Tick, ownerVars
<1>2. CASE ElectedElsewhere \/ OwnerEnds \/ Sicken
  BY <1>2 DEF ElectedElsewhere, OwnerEnds, Sicken, Ensure, ownerVars
<1>3. CASE \E s \in Sessions : SessionStart(s) \/ SessionEnd(s)
  BY <1>3 DEF SessionStart, SessionEnd, Ensure, ownerVars
<1>4. ASSUME NEW t \in Threads, ThreadStep(t) PROVE LedgerTypes'
  <2>1. CASE \/ GateProbes(t) \/ GateSkips(t) \/ GateKnowsSick(t) \/ QuerySaysSick(t)
             \/ QueryProceeds(t) \/ Retire(t) \/ Replace(t) \/ ReplacementFails(t)
    BY <2>1 DEF GateProbes, GateSkips, GateKnowsSick, QuerySaysSick, QueryProceeds, Retire,
       Replace, ReplacementFails, Ensure, ownerVars
  <2>2. CASE ClaimRefused(t) \/ ClaimWriteFails(t) \/ ClaimTruncates(t)
    BY <2>2 DEF ClaimRefused, ClaimWriteFails, ClaimTruncates, Exhaust, ownerVars
  <2>3. CASE ClaimReads(t)
    <3>1. Recent \in SUBSET Records
      BY DEF Recent, InWindow
    <3>2. Recent \union {NewRecord(Recent)} \in SUBSET Records
      BY <2>3, <3>1, NewRecordIsNew DEF ClaimReads
    <3>3. QED
      BY <2>3, <3>2 DEF ClaimReads, ownerVars
  <2>4. CASE ClaimWrites(t)
    BY <2>4 DEF ClaimWrites, ownerVars, InWindow
  <2>5. QED
    BY <1>4, <2>1, <2>2, <2>3, <2>4 DEF ThreadStep
<1>5. CASE UNCHANGED vars
  BY <1>5 DEF vars
<1>6. QED
  BY <1>1, <1>2, <1>3, <1>4, <1>5 DEF Next

LEMMA TypesKept == IInv /\ LedgerTypes /\ [Next]_vars => IInv' /\ LedgerTypes'
<1>1. IInv /\ UNCHANGED vars => IInv'
  BY DEF IInv, GateTypes, VerdictInv, OnlySickRetired, Endpoint, vars, ownerVars, gateVars
<1>2. QED
  BY <1>1, LedgerTyped, WorldKeepsVerdict, ThreadKeepsVerdict DEF Next, IInv

LEMMA InitTypes == Init => IInv /\ LedgerTypes
  BY InitVerdict DEF Init, LedgerTypes

\* Every variable keeps its type; of the ledger this needs that a claim finds a mark.
THEOREM TypeCorrect == Spec => []TypeOK
<1>1. IInv /\ LedgerTypes => TypeOK
  BY DEF IInv, GateTypes, LedgerTypes, TypeOK
<1>2. QED
  BY <1>1, InitTypes, TypesKept, PTL DEF Spec

-----------------------------------------------------------------------------
(* The budget.  The file holds what was claimed in the window, whenever nobody *)
(* has truncated it; who is about to write brings all of that and one more.    *)

Writing(t) == pc[t] \in {"truncate", "write"}

BudgetInv ==
  /\ Cardinality(claims) <= Bound
  /\ \A t, u \in Threads : Writing(t) /\ Writing(u) => t = u
  /\ (\A t \in Threads : pc[t] # "write") => InWindow(ledger) = claims
  /\ \A t \in Threads : Writing(t) =>
       /\ Cardinality(claims) < Bound
       /\ claims \subseteq InWindow(copy[t])
       /\ \E r \in Records : InWindow(copy[t]) \subseteq claims \union {r}

LEMMA TickKeepsBudget ==
  ASSUME GateTypes, LedgerTypes, BudgetInv, Tick PROVE BudgetInv'
<1> USE DEF GateTypes, LedgerTypes, BudgetInv, Writing
<1>1. UNCHANGED pc /\ claims' = InWindow(AllOlder(claims)) /\ ledger' = AllOlder(ledger)
      /\ \A t \in Threads : copy'[t] = AllOlder(copy[t])
  BY DEF Tick
<1>2. /\ Cardinality(claims') <= Cardinality(claims)
      /\ Cardinality(claims) \in Nat /\ Cardinality(claims') \in Nat
  <2>1. IsFiniteSet(claims) /\ IsFiniteSet(claims')
    BY <1>1, RecordsAreFinite, AgeingShrinks
  <2>2. QED
    BY <1>1, <2>1, RecordsAreFinite, AgeingShrinks, FS_CardinalityType
<1>3. (\A t \in Threads : pc[t] # "write") => InWindow(ledger') = claims'
  BY <1>1, AgeingForgets
<1>4. ASSUME NEW t \in Threads, Writing(t)
      PROVE  /\ claims' \subseteq InWindow(copy'[t])
             /\ \E r \in Records : InWindow(copy'[t]) \subseteq claims' \union {r}
  <2>1. InWindow(copy'[t]) = InWindow(AllOlder(InWindow(copy[t])))
    BY <1>1, AgeingForgets
  <2>2. claims' \subseteq InWindow(copy'[t])
    <3>1. AllOlder(claims) \subseteq AllOlder(InWindow(copy[t]))
      BY <1>4, AgeingIsMonotone
    <3>2. QED
      BY <1>1, <2>1, <3>1, AgeingIsMonotone
  <2>3. PICK r \in Records : InWindow(copy[t]) \subseteq claims \union {r}
    BY <1>4
  <2>4. [r EXCEPT !.age = Older(@, Window + 1)] \in Records
    BY TimeAssumption DEF Records, Ages, Older
  <2>5. InWindow(AllOlder(InWindow(copy[t])))
          \subseteq claims' \union {[r EXCEPT !.age = Older(@, Window + 1)]}
    BY <1>1, <2>3 DEF InWindow, AllOlder
  <2>6. QED
    BY <2>1, <2>2, <2>4, <2>5
<1>5. QED
  BY <1>1, <1>2, <1>3, <1>4, TimeAssumption

\* Whoever leaves the file and the claims alone and begins or ends no writing.
LEMMA BystanderKeepsBudget ==
  ASSUME BudgetInv, UNCHANGED <<ledger, claims, copy>>,
         \A t \in Threads : Writing(t)' => Writing(t) /\ pc'[t] = pc[t],
         \A t \in Threads : pc[t] = "write" => pc'[t] = "write"
  PROVE  BudgetInv'
  BY DEF BudgetInv, Writing

LEMMA ReadKeepsBudget ==
  ASSUME GateTypes, LedgerTypes, BudgetInv, NEW t \in Threads, ClaimReads(t), ~torn'
  PROVE  BudgetInv'
<1> USE DEF GateTypes, LedgerTypes, BudgetInv, Writing, Goto
<1>1. \A u \in Threads : ~Writing(u)
  BY DEF ClaimReads
<1>2. Recent = claims /\ InWindow(claims) = claims
  BY <1>1 DEF Recent, InWindow
<1>3. copy'[t] = claims \union {NewRecord(claims)} /\ Cardinality(claims) < Bound
  BY <1>2 DEF ClaimReads
<1>4. NewRecord(claims) \in Records /\ InWindow({NewRecord(claims)}) = {NewRecord(claims)}
  BY <1>3, NewRecordIsNew, TimeAssumption DEF NewRecord, InWindow
<1>5. InWindow(copy'[t]) = claims \union {NewRecord(claims)}
  BY <1>2, <1>3, <1>4 DEF InWindow
<1>6. \A u \in Threads : Writing(u)' => u = t
  BY <1>1 DEF ClaimReads
<1>7. UNCHANGED <<ledger, claims>>
  BY DEF ClaimReads
<1>8. \A u \in Threads : pc[u] # "write"
  BY <1>1
<1>9. QED
  BY <1>3, <1>4, <1>5, <1>6, <1>7, <1>8

LEMMA WriteKeepsBudget ==
  ASSUME GateTypes, LedgerTypes, BudgetInv, NEW t \in Threads, ClaimWrites(t)
  PROVE  BudgetInv'
<1> USE DEF GateTypes, LedgerTypes, BudgetInv, Writing, Goto
<1>1. /\ ledger' = copy[t] /\ claims' = InWindow(claims \union copy[t])
      /\ claims \subseteq InWindow(copy[t]) /\ Cardinality(claims) < Bound
  BY DEF ClaimWrites
<1>2. claims' = InWindow(ledger')
  BY <1>1 DEF InWindow
<1>3. PICK r \in Records : InWindow(copy[t]) \subseteq claims \union {r}
  BY DEF ClaimWrites
<1>4. Cardinality(claims') <= Bound
  <2>1. IsFiniteSet(claims)
    BY RecordsAreFinite
  <2>2. /\ IsFiniteSet(claims \union {r})
        /\ Cardinality(claims \union {r}) <= Cardinality(claims) + 1
        /\ Cardinality(claims \union {r}) \in Nat /\ Cardinality(claims) \in Nat
    <3>1. Cardinality(claims) \in Nat
      BY <2>1, FS_CardinalityType
    <3>2. /\ IsFiniteSet(claims \union {r})
          /\ Cardinality(claims \union {r}) =
               IF r \in claims THEN Cardinality(claims) ELSE Cardinality(claims) + 1
      BY <2>1, FS_AddElement
    <3>3. QED
      BY <3>1, <3>2, FS_CardinalityType
  <2>3. claims' \in SUBSET (claims \union {r})
    BY <1>1, <1>2, <1>3
  <2>4. Cardinality(claims') <= Cardinality(claims \union {r}) /\ IsFiniteSet(claims')
    BY <2>2, <2>3, FS_Subset
  <2>5. Cardinality(claims') \in Nat
    BY <2>4, FS_CardinalityType
  <2>6. QED
    BY <1>1, <2>2, <2>4, <2>5, TimeAssumption
<1>5. \A u \in Threads : ~Writing(u)'
  BY DEF ClaimWrites
<1>6. QED
  BY <1>2, <1>4, <1>5

LEMMA NextKeepsBudget ==
  ASSUME GateTypes, LedgerTypes, torn \/ BudgetInv, [Next]_vars, ~torn'
  PROVE  BudgetInv'
<1> USE DEF GateTypes, LedgerTypes, Writing, Goto
<1>0. BudgetInv
  BY DEF Next, vars, Tick, ElectedElsewhere, OwnerEnds, Sicken, SessionStart, SessionEnd,
     ThreadStep, GateProbes, GateSkips, GateKnowsSick, QuerySaysSick, QueryProceeds,
     ClaimRefused, ClaimReads, ClaimTruncates, ClaimWriteFails, ClaimWrites, Retire, Replace,
     ReplacementFails
<1>1. CASE Tick
  BY <1>0, <1>1, TickKeepsBudget
<1>2. CASE ElectedElsewhere \/ OwnerEnds \/ Sicken \/ \E s \in Sessions : SessionStart(s)
  BY <1>0, <1>2, BystanderKeepsBudget DEF ElectedElsewhere, OwnerEnds, Sicken, SessionStart
<1>3. ASSUME NEW s \in Sessions, SessionEnd(s) PROVE BudgetInv'
  <2>1. \A t \in Threads : t[1] = s => pc[t] # "write"
    BY <1>3 DEF SessionEnd
  <2>2. \A t \in Threads : Writing(t)' => t[1] # s /\ pc'[t] = pc[t] /\ copy'[t] = copy[t]
    BY <1>3 DEF SessionEnd
  <2>3. UNCHANGED <<ledger, claims>>
    BY <1>3 DEF SessionEnd
  <2>4. \A t \in Threads : pc'[t] # "write" => pc[t] # "write"
    BY <1>3, <2>1 DEF SessionEnd
  <2>5. QED
    BY <1>0, <2>2, <2>3, <2>4 DEF BudgetInv
<1>4. ASSUME NEW t \in Threads, ThreadStep(t) PROVE BudgetInv'
  <2>1. CASE \/ GateProbes(t) \/ GateSkips(t) \/ GateKnowsSick(t) \/ QuerySaysSick(t)
             \/ QueryProceeds(t) \/ Retire(t) \/ Replace(t) \/ ReplacementFails(t)
    BY <1>0, <2>1, BystanderKeepsBudget DEF GateProbes, GateSkips, GateKnowsSick,
       QuerySaysSick, QueryProceeds, Retire, Replace, ReplacementFails, gateVars
  <2>2. CASE ClaimRefused(t) \/ ClaimWriteFails(t)
    <3>1. /\ UNCHANGED <<ledger, claims>> /\ pc'[t] = "idle" /\ pc[t] # "write"
          /\ \A u \in Threads \ {t} : pc'[u] = pc[u] /\ copy'[u] = copy[u]
      BY <2>2 DEF ClaimRefused, ClaimWriteFails, Exhaust
    <3>2. QED
      BY <1>0, <3>1 DEF BudgetInv
  <2>3. CASE ClaimReads(t)
    BY <1>0, <2>3, ReadKeepsBudget
  <2>4. CASE ClaimTruncates(t)
    BY <1>0, <2>4 DEF BudgetInv, ClaimTruncates
  <2>5. CASE ClaimWrites(t)
    BY <1>0, <2>5, WriteKeepsBudget
  <2>6. QED
    BY <1>4, <2>1, <2>2, <2>3, <2>4, <2>5 DEF ThreadStep
<1>5. CASE UNCHANGED vars
  BY <1>0, <1>5, BystanderKeepsBudget DEF vars
<1>6. QED
  BY <1>1, <1>2, <1>3, <1>4, <1>5 DEF Next

\* At most RETIREMENT_BOUND retirements are claimed in a window, by however many
\* sessions and threads, killed and started at will, as long as no two claims
\* overlap and no write is cut short (claim_retirement).
THEOREM RetirementsAreBounded == Spec => []BoundedRetirements
<1>1. Init => torn \/ BudgetInv
  BY FS_EmptySet, TimeAssumption DEF Init, BudgetInv, Writing, InWindow
<1>2. /\ IInv /\ LedgerTypes /\ (torn \/ BudgetInv) /\ [Next]_vars
      => (torn \/ BudgetInv)'
  BY NextKeepsBudget DEF IInv
<1>3. torn \/ BudgetInv => BoundedRetirements
  BY DEF BudgetInv, BoundedRetirements
<1>4. QED
  BY <1>1, <1>2, <1>3, InitTypes, TypesKept, PTL DEF Spec

-----------------------------------------------------------------------------
(* The owner's side (OwnerDrain), for any set of connections.              *)

\* Every variable keeps its type.
THEOREM DrainTypeCorrect == DrainSpec => []DrainTypeOK
<1>1. DrainInit => DrainTypeOK
  BY DEF DrainInit, DrainTypeOK, Statuses, Loops
<1>2. DrainTypeOK /\ [DrainNext]_drainVars => DrainTypeOK'
  <2> SUFFICES ASSUME DrainTypeOK, [DrainNext]_drainVars PROVE DrainTypeOK'
    OBVIOUS
  <2> USE DEF DrainTypeOK, Statuses, Loops
  <2>1. ASSUME NEW c \in Conns, Connect(c) \/ ConnStep(c) PROVE DrainTypeOK'
    BY <2>1 DEF Connect, ConnStep, Read, HandlerReturns, Answer, ThreadFails, Becomes,
       hookVars
  <2>2. ASSUME NEW c \in Conns, Accept(c) PROVE DrainTypeOK'
    BY <2>2 DEF Accept, Becomes, hookVars
  <2>3. CASE MainStep
    BY <2>2, <2>3 DEF MainStep, LoopChecks, AcceptFails, AcceptBlocks, Sleep, IdleReap,
       DropListener, InflightZero, WaitExpires, DrainAndExit, hookVars
  <2>4. ASSUME NEW c \in Probes, ProbeStep(c) \/ HookStep(c) PROVE DrainTypeOK'
    <3>1. c \in Conns
      BY ConnAssumption
    <3>2. QED
      BY <2>4, <3>1 DEF ProbeStep, HookStep, AskHook, HookIsOut, HealthKnown,
         HookTimesOut, HookReturns, HookSends, Becomes, HookBecomes, hookVars
  <2>5. CASE UNCHANGED drainVars
    BY <2>5 DEF drainVars
  <2>6. QED
    BY <2>1, <2>3, <2>4, <2>5 DEF DrainNext
<1>3. QED
  BY <1>1, <1>2, PTL DEF DrainSpec

-----------------------------------------------------------------------------
(* The guard covers a connection from accept to the end of its thread.  So  *)
(* a count of zero means that nobody is in progress, and after the listener *)
(* is gone nobody can start.                                                *)

GuardInv ==
  /\ \A c \in Conns : status[c] \in InProgress => c \in guarded
  /\ loop \in {"drain", "exited"} /\ ~expired => guarded = {}

LEMMA GuardCorrect == DrainSpec => []GuardInv
<1>1. DrainInit => GuardInv
  BY DEF DrainInit, GuardInv, InProgress
<1>2. DrainTypeOK /\ GuardInv /\ [DrainNext]_drainVars => GuardInv'
  <2> SUFFICES ASSUME DrainTypeOK, GuardInv, [DrainNext]_drainVars PROVE GuardInv'
    OBVIOUS
  <2> USE DEF DrainTypeOK, GuardInv, InProgress
  <2>1. ASSUME NEW c \in Conns, Connect(c) PROVE GuardInv'
    BY <2>1 DEF Connect, Becomes
  <2>2. ASSUME NEW c \in Conns, Read(c) \/ HandlerReturns(c) PROVE GuardInv'
    BY <2>2 DEF Read, HandlerReturns, Becomes
  <2>3. ASSUME NEW c \in Conns, Answer(c) \/ ThreadFails(c) PROVE GuardInv'
    <3>1. status'[c] \notin InProgress
      BY <2>3 DEF Answer, ThreadFails, Becomes
    <3>2. \A d \in Conns \ {c} : status'[d] = status[d]
      BY <2>3 DEF Answer, ThreadFails, Becomes
    <3>3. guarded' = guarded \ {c} /\ loop' = loop /\ expired' = expired
      BY <2>3 DEF Answer, ThreadFails
    <3>4. QED
      BY <3>1, <3>2, <3>3
  <2>4. ASSUME NEW c \in Conns, Accept(c) PROVE GuardInv'
    BY <2>4 DEF Accept, Becomes
  <2>5. CASE LoopChecks \/ AcceptFails \/ AcceptBlocks \/ Sleep \/ IdleReap
    BY <2>5 DEF LoopChecks, AcceptFails, AcceptBlocks, Sleep, IdleReap
  <2>6. CASE DropListener
    BY <2>6 DEF DropListener
  <2>7. CASE InflightZero \/ WaitExpires \/ DrainAndExit
    BY <2>7 DEF InflightZero, WaitExpires, DrainAndExit
  <2>8. ASSUME NEW c \in Probes, ProbeStep(c) \/ HookStep(c) PROVE GuardInv'
    <3>1. guarded' = guarded /\ loop' = loop /\ expired' = expired
      BY <2>8 DEF ProbeStep, HookStep, AskHook, HookIsOut, HealthKnown,
         HookTimesOut, HookReturns, HookSends
    <3>2. \A d \in Conns : status'[d] \in InProgress => status[d] \in InProgress
      BY <2>8 DEF ProbeStep, HookStep, AskHook, HookIsOut, HealthKnown,
         HookTimesOut, HookReturns, HookSends, Becomes
    <3>3. QED
      BY <3>1, <3>2
  <2>9. CASE UNCHANGED drainVars
    BY <2>9 DEF drainVars
  <2>10. QED
    BY <2>1, <2>2, <2>3, <2>4, <2>5, <2>6, <2>7, <2>8, <2>9
       DEF DrainNext, MainStep, ConnStep
<1>3. QED
  BY <1>1, <1>2, DrainTypeCorrect, PTL DEF DrainSpec

\* Unless the bounded wait ran out, every connection the owner accepted is
\* finished before the application is drained and the process exits.
THEOREM NothingCutInTime == DrainSpec => []DrainedNotCut
<1>1. GuardInv => DrainedNotCut
  BY DEF GuardInv, DrainedNotCut
<1>2. QED
  BY <1>1, GuardCorrect, PTL

\* The owner retires only when some shutdown request was acknowledged.
THEOREM RetirementIsAcked == DrainSpec => []AckedBeforeRetiring
<1>1. DrainInit => AckedBeforeRetiring
  BY DEF DrainInit, AckedBeforeRetiring
<1>2. DrainTypeOK /\ AckedBeforeRetiring /\ [DrainNext]_drainVars => AckedBeforeRetiring'
  <2> SUFFICES ASSUME DrainTypeOK, AckedBeforeRetiring, [DrainNext]_drainVars, retiring'
               PROVE  \E d \in Shutdowns : status'[d] = "answered"
    BY DEF AckedBeforeRetiring
  <2> USE DEF DrainTypeOK
  <2>1. ASSUME NEW d \in Shutdowns, status[d] = "answered"
        PROVE  status'[d] = "answered"
    <3>1. d \in Conns
      BY ConnAssumption
    <3>2. QED
      BY <2>1, <3>1 DEF DrainNext, MainStep, ConnStep, Connect, Read, HandlerReturns,
         Answer, ThreadFails, Accept, LoopChecks, AcceptFails, AcceptBlocks, Sleep, IdleReap,
         DropListener, InflightZero, WaitExpires, DrainAndExit, Becomes, drainVars,
         ProbeStep, HookStep, AskHook, HookIsOut, HealthKnown, HookTimesOut,
         HookReturns, HookSends
  <2>2. CASE retiring
    BY <2>1, <2>2 DEF AckedBeforeRetiring
  <2>3. CASE ~retiring
    <3>1. PICK c \in Conns : Answer(c) /\ c \in Shutdowns
      BY <2>3 DEF DrainNext, MainStep, ConnStep, Connect, Read, HandlerReturns,
         Answer, ThreadFails, Accept, LoopChecks, AcceptFails, AcceptBlocks, Sleep, IdleReap,
         DropListener, InflightZero, WaitExpires, DrainAndExit, drainVars,
         ProbeStep, HookStep, AskHook, HookIsOut, HealthKnown, HookTimesOut,
         HookReturns, HookSends
    <3>2. QED
      BY <3>1 DEF Answer, Becomes
  <2>4. QED
    BY <2>2, <2>3
<1>3. QED
  BY <1>1, <1>2, DrainTypeCorrect, PTL DEF DrainSpec

\* At most one thread is inside the application's health hook, and the slot is
\* taken exactly while one is.
THEOREM SingleFlight == DrainSpec => []OneHookOut
<1>1. DrainInit => OneHookOut
  BY DEF DrainInit, OneHookOut
<1>2. DrainTypeOK /\ OneHookOut /\ [DrainNext]_drainVars => OneHookOut'
  <2> SUFFICES ASSUME DrainTypeOK, OneHookOut, [DrainNext]_drainVars PROVE OneHookOut'
    OBVIOUS
  <2> USE DEF DrainTypeOK, OneHookOut
  <2>1. CASE UNCHANGED hookVars
    BY <2>1 DEF hookVars
  <2>2. ASSUME NEW c \in Probes, AskHook(c) PROVE OneHookOut'
    BY <2>2 DEF AskHook, HookBecomes
  <2>3. ASSUME NEW c \in Probes, HookReturns(c) PROVE OneHookOut'
    BY <2>3 DEF HookReturns, HookBecomes
  <2>4. ASSUME NEW c \in Probes, HookSends(c) PROVE OneHookOut'
    BY <2>4 DEF HookSends, HookBecomes
  <2>5. QED
    BY <2>1, <2>2, <2>3, <2>4 DEF DrainNext, MainStep, ConnStep, Connect, Read,
       HandlerReturns, Answer, ThreadFails, Accept, LoopChecks, AcceptFails, AcceptBlocks, Sleep,
       IdleReap, DropListener, InflightZero, WaitExpires, DrainAndExit, drainVars,
       ProbeStep, HookStep, HookIsOut, HealthKnown, HookTimesOut, hookVars
<1>3. QED
  BY <1>1, <1>2, DrainTypeCorrect, PTL DEF DrainSpec
=============================================================================
