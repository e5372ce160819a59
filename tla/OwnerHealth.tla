----------------------------- MODULE OwnerHealth ----------------------------
(***************************************************************************)
(* The health gate a session passes before every call it sends to the      *)
(* resident owner (src/src/sidecar.rs, enforce_owner_health): the probe     *)
(* throttled by a memo the session's dispatch threads share, the            *)
(* retirement budget that all sessions of a workspace keep in one ledger    *)
(* file, and the retirement and replacement of a sick owner.                *)
(*                                                                         *)
(* Retiring and electing are taken at the level of OwnerService: one owner  *)
(* at a time, a fresh generation for each.  Time is kept as ages that Tick  *)
(* advances; probe interval and window are numbers of ticks.  The clock     *)
(* does not jump backwards.                                                 *)
(***************************************************************************)
EXTENDS Naturals, FiniteSets

CONSTANTS
  Sessions,      \* client processes
  Slots,         \* dispatch threads of a session
  Gens,          \* generations of owner that may ever run
  None,          \* no owner
  Interval,      \* HEALTH_PROBE_INTERVAL
  Window,        \* RETIREMENT_WINDOW
  Bound          \* RETIREMENT_BOUND

ASSUME NoGenAssumption == None \notin Gens
ASSUME TimeAssumption == Interval \in Nat \ {0} /\ Window \in Nat /\ Bound \in Nat

Threads == Sessions \X Slots

VARIABLES
  owner,     \* the live, registered owner
  used,      \* generations that have been elected
  sick,      \* generations whose application now reports itself unhealthy
  reported,  \* generations that answered a probe with "unhealthy" (history)
  cached,    \* endpoint each session attached to when it started
  memo,      \* HEALTH_MEMO of each session: age and verdict per generation
  ledger,    \* records of retirements in the ledger file
  pc,        \* next step of each thread
  copy,      \* ledger each thread is about to write
  claims,    \* records of all retirements claimed in the window (history)
  torn       \* TRUE once two claims overlapped, or the write of the ledger was cut
             \* short (history)

ownerVars == <<owner, used, sick>>
gateVars  == <<reported, cached, memo>>
vars == <<owner, used, sick, reported, cached, memo,
          ledger, pc, copy, claims, torn>>

Pcs   == {"idle", "query", "claim", "truncate", "write", "retire", "ensure"}
Ages  == 0..(Window + 1)
Unasked == [age |-> Interval, found |-> "nothing"]
Memos == [age : 0..Interval, found : {"nothing", "sick"}]
\* The mark keeps two records of one age apart.
Records == [age : Ages, mark : 1..Bound]

TypeOK ==
  /\ owner \in Gens \union {None}
  /\ used \subseteq Gens
  /\ sick \subseteq Gens
  /\ reported \subseteq Gens
  /\ cached \in [Sessions -> Gens \union {None}]
  /\ memo \in [Sessions -> [Gens -> Memos]]
  /\ ledger \subseteq Records
  /\ pc \in [Threads -> Pcs]
  /\ copy \in [Threads -> SUBSET Records]
  /\ claims \subseteq Records
  /\ torn \in BOOLEAN

Init ==
  /\ owner = None
  /\ used = {}
  /\ sick = {}
  /\ reported = {}
  /\ cached = [s \in Sessions |-> None]
  /\ memo = [s \in Sessions |-> [g \in Gens |-> Unasked]]
  /\ ledger = {}
  /\ pc = [t \in Threads |-> "idle"]
  /\ copy = [t \in Threads |-> {}]
  /\ claims = {}
  /\ torn = FALSE

-----------------------------------------------------------------------------
(* Owners and time.                                                        *)

\* ensure_owner_process: attach to the owner that answers, or elect a fresh one.
Ensure(g) ==
  \/ /\ owner = g
     /\ UNCHANGED ownerVars
  \/ /\ owner = None
     /\ g \notin used
     /\ owner' = g
     /\ used' = used \union {g}
     /\ sick' \in {sick, sick \union {g}}

\* Another session, or a call's recovery, elects an owner.
ElectedElsewhere ==
  /\ owner = None
  /\ \E g \in Gens : Ensure(g)
  /\ UNCHANGED <<gateVars, ledger, pc, copy, claims, torn>>

\* The owner crashes, is killed or reaps itself.
OwnerEnds ==
  /\ owner # None
  /\ owner' = None
  /\ UNCHANGED <<used, sick, gateVars, ledger, pc, copy, claims, torn>>

\* The application's condition changes.
Sicken ==
  /\ owner # None
  /\ sick' \in {sick \union {owner}, sick \ {owner}}
  /\ UNCHANGED <<owner, used, gateVars, ledger, pc, copy, claims, torn>>

Older(a, cap) == IF a < cap THEN a + 1 ELSE cap

AllOlder(records) == {[r EXCEPT !.age = Older(@, Window + 1)] : r \in records}

InWindow(records) == {r \in records : r.age <= Window}

Tick ==
  /\ memo' = [s \in Sessions |-> [g \in Gens |->
                [memo[s][g] EXCEPT !.age = Older(@, Interval)]]]
  /\ ledger' = AllOlder(ledger)
  /\ copy' = [t \in Threads |-> AllOlder(copy[t])]
  /\ claims' = InWindow(AllOlder(claims))
  /\ UNCHANGED <<ownerVars, reported, cached, pc, torn>>

-----------------------------------------------------------------------------
(* Sessions: run_stdio attaches once; the endpoint it got is the one every  *)
(* later call of the session passes to the gate.                            *)

SessionStart(s) ==
  /\ cached[s] = None
  /\ \E g \in Gens : Ensure(g) /\ cached' = [cached EXCEPT ![s] = g]
  /\ UNCHANGED <<reported, memo, ledger, pc, copy, claims, torn>>

\* The process ends or is killed: its memo goes, the ledger stays.
SessionEnd(s) ==
  /\ cached[s] # None
  /\ torn' = (torn \/ \E t \in Threads : t[1] = s /\ pc[t] = "write")
  /\ cached' = [cached EXCEPT ![s] = None]
  /\ memo' = [memo EXCEPT ![s] = [g \in Gens |-> Unasked]]
  /\ pc' = [t \in Threads |-> IF t[1] = s THEN "idle" ELSE pc[t]]
  /\ copy' = [t \in Threads |-> IF t[1] = s THEN {} ELSE copy[t]]
  /\ UNCHANGED <<ownerVars, reported, ledger, claims>>

-----------------------------------------------------------------------------
(* The gate.                                                               *)

Goto(t, label) == pc' = [pc EXCEPT ![t] = label]

\* The memo entry for the endpoint of t's session.
Endpoint(t)  == cached[t[1]]
Entry(t)     == memo[t[1]][Endpoint(t)]
Remember(t, found) ==
  memo' = [memo EXCEPT ![t[1]][Endpoint(t)] = [age |-> 0, found |-> found]]

\* ProbeGate::Probe: the slot is claimed, optimistically.
GateProbes(t) ==
  /\ pc[t] = "idle" /\ Endpoint(t) # None
  /\ Entry(t).age >= Interval
  /\ Remember(t, "nothing")
  /\ Goto(t, "query")
  /\ UNCHANGED <<ownerVars, reported, cached, ledger, copy, claims, torn>>

\* Mutant: a throttled call starts the interval anew.
GateSkipsAnew(t) ==
  /\ pc[t] = "idle" /\ Endpoint(t) # None
  /\ Entry(t).age < Interval
  /\ Entry(t).found = "nothing"
  /\ Remember(t, "nothing")
  /\ UNCHANGED <<ownerVars, reported, cached, ledger, pc, copy, claims, torn>>

\* ProbeGate::Skip: the call proceeds.
GateSkips(t) ==
  /\ pc[t] = "idle" /\ Endpoint(t) # None
  /\ Entry(t).age < Interval
  /\ Entry(t).found = "nothing"
  /\ UNCHANGED <<ownerVars, gateVars, ledger, pc, copy, claims, torn>>

\* ProbeGate::KnownUnhealthy: decide again without asking.
GateKnowsSick(t) ==
  /\ pc[t] = "idle" /\ Endpoint(t) # None
  /\ Entry(t).age < Interval
  /\ Entry(t).found = "sick"
  /\ Goto(t, "claim")
  /\ UNCHANGED <<ownerVars, gateVars, ledger, copy, claims, torn>>

\* Mutant: the report of any owner will do.
QueryAnySaysSick(t) ==
  /\ pc[t] = "query"
  /\ owner \in sick
  /\ reported' = reported \union {owner}
  /\ Remember(t, "sick")
  /\ Goto(t, "claim")
  /\ UNCHANGED <<ownerVars, cached, ledger, copy, claims, torn>>

\* The endpoint's own application says it is unhealthy.
QuerySaysSick(t) ==
  /\ pc[t] = "query"
  /\ owner = Endpoint(t) /\ owner \in sick
  /\ reported' = reported \union {owner}
  /\ Remember(t, "sick")
  /\ Goto(t, "claim")
  /\ UNCHANGED <<ownerVars, cached, ledger, copy, claims, torn>>

\* Any other verdict, or none: the owner is gone, the query was lost or timed
\* out, the report has no generation.
QueryProceeds(t) ==
  /\ pc[t] = "query"
  /\ Goto(t, "idle")
  /\ UNCHANGED <<ownerVars, gateVars, ledger, copy, claims, torn>>

-----------------------------------------------------------------------------
(* claim_retirement: the ledger is read, then truncated and written.       *)

\* Mutant: a record that has just reached the age of the window is dropped.
RecentInside == {r \in ledger : r.age < Window}

Recent == InWindow(ledger)

\* What is pushed for a retirement now; any mark that is free will do.
NewRecord(records) ==
  [age |-> 0, mark |-> CHOOSE m \in 1..Bound : \A r \in records : r.mark # m]

Exhaust(t) ==
  /\ copy' = [copy EXCEPT ![t] = {}]
  /\ Goto(t, "idle")

ClaimRefused(t) ==
  /\ pc[t] = "claim"
  /\ Cardinality(Recent) >= Bound
  /\ Exhaust(t)
  /\ UNCHANGED <<ownerVars, gateVars, ledger, claims, torn>>

ClaimReads(t) ==
  /\ pc[t] = "claim"
  /\ Cardinality(Recent) < Bound
  /\ torn' = (torn \/ \E u \in Threads : pc[u] \in {"truncate", "write"})
  /\ copy' = [copy EXCEPT ![t] = Recent \union {NewRecord(Recent)}]
  /\ Goto(t, "truncate")
  /\ UNCHANGED <<ownerVars, gateVars, ledger, claims>>

ClaimTruncates(t) ==
  /\ pc[t] = "truncate"
  /\ ledger' = {}
  /\ Goto(t, "write")
  /\ UNCHANGED <<ownerVars, gateVars, copy, claims, torn>>

\* The ledger cannot be opened, or not be written: what cannot be counted is refused.
ClaimWriteFails(t) ==
  /\ pc[t] \in {"truncate", "write"}
  /\ torn' = (torn \/ pc[t] = "write")
  /\ Exhaust(t)
  /\ UNCHANGED <<ownerVars, gateVars, ledger, claims>>

ClaimWrites(t) ==
  /\ pc[t] = "write"
  /\ ledger' = copy[t]
  /\ claims' = InWindow(claims \union copy[t])
  /\ copy' = [copy EXCEPT ![t] = {}]
  /\ Goto(t, "retire")
  /\ UNCHANGED <<ownerVars, gateVars, torn>>

-----------------------------------------------------------------------------
(* Retirement and replacement.                                             *)

\* retire_stale_owner: the owner drains and ends, or outlives the wait.
Retire(t) ==
  /\ pc[t] = "retire"
  /\ \/ owner = Endpoint(t) /\ owner' = None
     \/ UNCHANGED owner
  /\ Goto(t, "ensure")
  /\ UNCHANGED <<used, sick, gateVars, ledger, copy, claims, torn>>

\* Retired when the generation changed, ReplacementFailed when it did not.
Replace(t) ==
  /\ pc[t] = "ensure"
  /\ \E g \in Gens : Ensure(g)
  /\ Goto(t, "idle")
  /\ UNCHANGED <<gateVars, ledger, copy, claims, torn>>

ReplacementFails(t) ==
  /\ pc[t] = "ensure"
  /\ Goto(t, "idle")
  /\ UNCHANGED <<ownerVars, gateVars, ledger, copy, claims, torn>>

-----------------------------------------------------------------------------
ThreadStep(t) ==
  \/ GateProbes(t) \/ GateSkips(t) \/ GateKnowsSick(t)
  \/ QuerySaysSick(t) \/ QueryProceeds(t)
  \/ ClaimRefused(t) \/ ClaimReads(t) \/ ClaimTruncates(t)
  \/ ClaimWriteFails(t) \/ ClaimWrites(t)
  \/ Retire(t) \/ Replace(t) \/ ReplacementFails(t)

Next ==
  \/ Tick \/ ElectedElsewhere \/ OwnerEnds \/ Sicken
  \/ \E s \in Sessions : SessionStart(s) \/ SessionEnd(s)
  \/ \E t \in Threads : ThreadStep(t)

Spec == Init /\ [][Next]_vars

-----------------------------------------------------------------------------
(* Properties.                                                             *)

Deciding == {"claim", "truncate", "write", "retire"}

\* Only the application's own verdict retires an owner: a thread on its way to
\* retire an endpoint does so because that very runtime answered "unhealthy",
\* not because it was unreachable, slow, or replaced by a sick one (DEC-03).
OnlySickRetired == \A t \in Threads : pc[t] \in Deciding => Endpoint(t) \in reported

\* "At most RETIREMENT_BOUND retirements per workspace per RETIREMENT_WINDOW"
\* (enforce_owner_health), however often the session is killed and started again
\* and however many owners it meets, as long as no two claims overlap and none
\* is cut short: the ledger is read and rewritten without a lock.
BoundedRetirements == torn \/ Cardinality(claims) <= Bound

\* Violated: the same without the exception.
BudgetHolds == Cardinality(claims) <= Bound

\* A call is refused as owner_unhealthy, with nothing left to try, only over
\* the owner that is registered, not over one that was already replaced
\* (ProbeGate::KnownUnhealthy: "it is still the one registered").
RefusedOwnerIsRegistered ==
  [][\A t \in Threads :
       (pc[t] = "claim" /\ pc'[t] = "idle" /\ cached' = cached)
         => owner \in {None, Endpoint(t)}]_vars

-----------------------------------------------------------------------------
(* Fairness.  Time passes, a thread in the gate goes on, a session that      *)
(* runs keeps making calls, and a query that could be answered again and    *)
(* again is answered once.                                                  *)

FairSpec ==
  /\ Spec
  /\ WF_vars(Tick)
  /\ \A t \in Threads : WF_vars(ThreadStep(t)) /\ SF_vars(QuerySaysSick(t))

\* The throttle delays the question but never suppresses it: an owner that
\* stays sick comes up for retirement in the sessions attached to it.
SickOwnerNoticed ==
  \A s \in Sessions :
    (cached[s] # None /\ cached[s] = owner /\ owner \in sick)
      ~> \/ cached[s] # owner \/ owner \notin sick
         \/ \E t \in Threads : t[1] = s /\ pc[t] \in Deciding
=============================================================================
