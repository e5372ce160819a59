---------------------------- MODULE HttpSessions ----------------------------
(***************************************************************************)
(* The HTTP hub with sessions (src/src/http.rs): Hub::run_sessions_with    *)
(* gives each request a thread that reads it, passes                       *)
(* SessionServer::respond_with and dispatch_with_policy, and writes the    *)
(* response.  The threads share the session map behind its mutex and the   *)
(* serial lane, a mutex held while a handler runs.  What a request does    *)
(* with the map is one step each: it holds the map's lock throughout.      *)
(***************************************************************************)
EXTENDS FiniteSets, Naturals

CONSTANTS
  Requests,     \* requests clients will ever make, each on a connection of its own
  Asked,        \* what each of them may ask for
  NoId,         \* no session
  Policies,     \* policies the hub may be started with
  MaxSessions,  \* MAX_SESSIONS
  IdleTimeout   \* SESSION_IDLE_TIMEOUT, in ticks

ASSUME NoIdAssumption == NoId \notin Requests

\* ping: a discovery probe of the control plane.  modern: an application call
\* that carries modern protocol metadata.  call: any other application call.
\* malformed: a body that is not JSON.  refused: wrong path, token or verb.
Methods == {"initialize", "ping", "modern", "call", "delete", "malformed", "refused"}

ASSUME AskedAssumption == Asked \in [Requests -> SUBSET Methods]
ASSUME PolicyAssumption == Policies \subseteq {"threaded", "serial", "control"}
ASSUME BoundAssumption == MaxSessions \in Nat \ {0} /\ IdleTimeout \in Nat \ {0}

VARIABLES
  policy,    \* Concurrency
  pc,        \* where the thread of a request is
  method,    \* what the request asks for
  session,   \* the session it names
  status,    \* the response it was given
  holder,    \* who holds the serial lane
  poisoned,  \* a handler panicked while it held it
  retained,  \* keys of the session map
  age        \* ticks since last_used of each of them

rvars == <<policy, method, session>>
lane == <<holder, poisoned>>
map == <<retained, age>>
sessionVars == <<policy, pc, method, session, status, holder, poisoned, retained, age>>

Places == {"new", "read", "lane", "running", "admission", "writing",
           "answered", "lost", "dropped"}
Statuses == {"none", "rejected", "missing", "parse", "unknown", "closed",
             "busy", "replied", "opened", "full", "failed"}

SessionsTypeOK ==
  /\ policy \in Policies
  /\ pc \in [Requests -> Places]
  /\ method \in [Requests -> Methods]
  /\ session \in [Requests -> Requests \union {NoId}]
  /\ status \in [Requests -> Statuses]
  /\ holder \in Requests \union {NoId}
  /\ poisoned \in BOOLEAN
  /\ retained \subseteq Requests
  /\ age \in [Requests -> 0..IdleTimeout]

SessionsInit ==
  /\ policy \in Policies
  /\ pc = [r \in Requests |-> "new"]
  /\ method = [r \in Requests |-> "ping"]
  /\ session = [r \in Requests |-> NoId]
  /\ status = [r \in Requests |-> "none"]
  /\ holder = NoId
  /\ poisoned = FALSE
  /\ retained = {}
  /\ age = [i \in Requests |-> 0]

Goes(r, place) == pc' = [pc EXCEPT ![r] = place]

Answer(r, s) ==
  /\ Goes(r, "writing")
  /\ status' = [status EXCEPT ![r] = s]

-----------------------------------------------------------------------------
(* Clients.  They can name sessions they were told of, or make one up.     *)

Issued == {i \in Requests : pc[i] = "answered" /\ status[i] = "opened"}

\* The request is read; a stalled or broken one never gets here.
Arrive(r) ==
  /\ pc[r] = "new"
  /\ Goes(r, "read")
  /\ \E m \in Asked[r] : method' = [method EXCEPT ![r] = m]
  /\ \E i \in Issued \union {NoId, r} : session' = [session EXCEPT ![r] = i]
  /\ UNCHANGED <<policy, status, lane, map>>

\* The response is written.  If it never arrives, that matters only when it
\* was to tell the client of its session, which nobody can then use or delete.
Deliver(r) ==
  /\ pc[r] = "writing"
  /\ \/ Goes(r, "answered")
     \/ status[r] = "opened" /\ Goes(r, "lost")
  /\ UNCHANGED <<rvars, status, lane, map>>

-----------------------------------------------------------------------------
(* The session map.  Sessions that were idle too long are removed by        *)
(* whoever looks next.                                                      *)

Fresh == {i \in retained : age[i] < IdleTimeout}

\* The map now holds the sessions of keys; those in used were used just now.
Keeps(keys, used) ==
  /\ retained' = keys
  /\ age' = [i \in Requests |-> IF i \in keys \ used THEN age[i] ELSE 0]

Tick ==
  /\ Fresh # {}
  /\ age' = [i \in Requests |-> IF i \in Fresh THEN age[i] + 1 ELSE age[i]]
  /\ UNCHANGED <<rvars, pc, status, lane, retained>>

Looks(r) ==
  /\ pc[r] = "read" /\ method[r] # "refused"
  /\ UNCHANGED <<rvars, lane>>

\* Routing and authentication come before the map.
Reject(r) ==
  /\ pc[r] = "read" /\ method[r] = "refused"
  /\ Answer(r, "rejected")
  /\ UNCHANGED <<rvars, lane, map>>

LookupMisses(r) ==
  /\ Looks(r)
  /\ session[r] # NoId /\ session[r] \notin Fresh
  /\ Keeps(Fresh, {})
  /\ Answer(r, "unknown")

LookupDeletes(r) ==
  /\ Looks(r) /\ method[r] = "delete"
  /\ session[r] \in Fresh
  /\ Keeps(Fresh \ {session[r]}, {})
  /\ Answer(r, "closed")

\* Mutant: a lookup does not reclaim, and finds what is idle.
LookupRevives(r) ==
  /\ Looks(r) /\ method[r] # "delete"
  /\ session[r] \in retained
  /\ Keeps(retained, {session[r]})
  /\ \/ method[r] = "malformed" /\ Answer(r, "parse")
     \/ method[r] # "malformed" /\ Goes(r, "lane") /\ UNCHANGED status

\* The dispatcher is shared with the map, so it may outlive the session there.
LookupFinds(r) ==
  /\ Looks(r) /\ method[r] # "delete"
  /\ session[r] \in Fresh
  /\ Keeps(Fresh, {session[r]})
  /\ \/ method[r] = "malformed" /\ Answer(r, "parse")
     \/ method[r] # "malformed" /\ Goes(r, "lane") /\ UNCHANGED status

\* Without a session only an initialization, a probe or a modern call is served,
\* each by a dispatcher made for it.
NoSession(r) ==
  /\ Looks(r) /\ session[r] = NoId
  /\ \/ method[r] \in {"call", "delete"} /\ Answer(r, "missing")
     \/ method[r] = "malformed" /\ Answer(r, "parse")
     \/ method[r] \in {"initialize", "ping", "modern"} /\ Goes(r, "lane") /\ UNCHANGED status
  /\ UNCHANGED map

-----------------------------------------------------------------------------
(* dispatch_with_policy and the handler.                                    *)

NeedsLane(r) ==
  \/ policy = "serial"
  \/ policy = "control" /\ method[r] \in {"modern", "call"}

Bypass(r) ==
  /\ pc[r] = "lane" /\ ~NeedsLane(r)
  /\ Goes(r, "running")
  /\ UNCHANGED <<rvars, status, lane, map>>

\* Mutant: the guard is dropped in the statement that takes it.
TakeLaneUnheld(r) ==
  /\ pc[r] = "lane" /\ NeedsLane(r)
  /\ holder = NoId
  /\ Goes(r, "running")
  /\ UNCHANGED <<rvars, status, lane, map>>

\* Mutant: a poisoned lane is unwrapped.
TakeLaneUnwrapping(r) ==
  /\ pc[r] = "lane" /\ NeedsLane(r)
  /\ holder = NoId
  /\ Goes(r, IF poisoned THEN "dropped" ELSE "running")
  /\ holder' = IF poisoned THEN NoId ELSE r
  /\ UNCHANGED <<rvars, status, poisoned, map>>

\* A poisoned lane is taken like any other.
TakeLane(r) ==
  /\ pc[r] = "lane" /\ NeedsLane(r)
  /\ holder = NoId
  /\ Goes(r, "running")
  /\ holder' = r
  /\ UNCHANGED <<rvars, status, poisoned, map>>

\* Mutant: an application request waits for the lane.
RefuseBusyNever(r) == FALSE

\* try_lock fails: nobody waits under SerialWithControlPlane.  (A notification
\* has no id to answer; it is dropped with a 202.)
RefuseBusy(r) ==
  /\ pc[r] = "lane" /\ NeedsLane(r) /\ policy = "control"
  /\ holder # NoId
  /\ Answer(r, "busy")
  /\ UNCHANGED <<rvars, lane, map>>

LeavesLane(r) == holder' = IF holder = r THEN NoId ELSE holder

\* An initialization that succeeded goes on to be admitted.
HandlerReturns(r) ==
  /\ pc[r] = "running"
  /\ LeavesLane(r)
  /\ \/ Answer(r, "replied")
     \/ /\ method[r] = "initialize" /\ session[r] = NoId
        /\ Goes(r, "admission") /\ UNCHANGED status
  /\ UNCHANGED <<rvars, poisoned, map>>

\* The thread unwinds: its connection closes, its guard poisons the lane.
HandlerPanics(r) ==
  /\ pc[r] = "running"
  /\ Goes(r, "dropped")
  /\ LeavesLane(r)
  /\ poisoned' = (poisoned \/ holder = r)
  /\ UNCHANGED <<rvars, status, map>>

-----------------------------------------------------------------------------
(* Admission of an initialized session, after its handler ran.             *)

HasRoom == Cardinality(Fresh) < MaxSessions

Admits(r) ==
  /\ pc[r] = "admission"
  /\ UNCHANGED <<rvars, lane>>

AdmissionRefused(r) ==
  /\ Admits(r) /\ ~HasRoom
  /\ Keeps(Fresh, {})
  /\ Answer(r, "full")

\* No random identity could be had.
AdmissionFails(r) ==
  /\ Admits(r) /\ HasRoom
  /\ Keeps(Fresh, {})
  /\ Answer(r, "failed")

Admit(r) ==
  /\ Admits(r) /\ HasRoom
  /\ Keeps(Fresh \union {r}, {r})
  /\ Answer(r, "opened")

-----------------------------------------------------------------------------
LookupStep(r) ==
  Reject(r) \/ LookupMisses(r) \/ LookupDeletes(r) \/ LookupFinds(r) \/ NoSession(r)
LaneStep(r) == Bypass(r) \/ TakeLane(r) \/ RefuseBusy(r)
AdmissionStep(r) == Admit(r) \/ AdmissionRefused(r) \/ AdmissionFails(r)

\* What the hub does for a request, apart from the handler.
HubStep(r) == LookupStep(r) \/ LaneStep(r) \/ AdmissionStep(r) \/ Deliver(r)

SessionsNext ==
  \/ Tick
  \/ \E r \in Requests :
       Arrive(r) \/ HubStep(r) \/ HandlerReturns(r) \/ HandlerPanics(r)

SessionsSpec == SessionsInit /\ [][SessionsNext]_sessionVars

\* Threads are scheduled.  Clients need not send anything, handlers need not end.
SessionsFairSpec == SessionsSpec /\ \A r \in Requests : WF_sessionVars(HubStep(r))

-----------------------------------------------------------------------------
(* Properties.                                                             *)

\* The map never holds more than MAX_SESSIONS, idle ones included, although the
\* room is looked for after the handler ran and several may find it.
SessionsBounded == IsFiniteSet(retained) /\ Cardinality(retained) <= MaxSessions

\* Under the serial policies at most one handler that needs the lane runs
\* (Concurrency::Serial: "Exactly one dispatch runs at a time"), also after
\* one of them panicked.
OneAtATime ==
  \A r, s \in Requests :
    /\ pc[r] = "running" /\ NeedsLane(r)
    /\ pc[s] = "running" /\ NeedsLane(s)
    => r = s

\* "Server busy: another application request is running" is true when it is
\* answered: some other handler holds the lane at that moment.
BusyIsTrue ==
  [][\A r \in Requests :
       status'[r] = "busy" /\ status[r] # "busy"
         => \E s \in Requests \ {r} : pc[s] = "running" /\ NeedsLane(s)]_sessionVars

\* The refinement mapping: idle time of what is alive, the session an
\* authorised request names, what a request was told of sessions.
IdleTime == [i \in Requests |-> IF i \in Fresh THEN age[i] ELSE 0]
Named == [r \in Requests |-> IF method[r] = "refused" THEN NoId ELSE session[r]]
Told == [r \in Requests |->
  IF status[r] \in {"opened", "closed", "unknown", "full"} THEN status[r] ELSE "none"]

Store == INSTANCE SessionStore
  WITH live <- Fresh, idle <- IdleTime, asks <- Named, answer <- Told

\* The map with its lazy reclaiming implements sessions that end on the tick:
\* no request revives an idle session, none loses one it uses, none without the
\* token keeps one alive, and none is refused for sessions that are gone.
ImplementsStore == Store!SSpec

\* Answered, whether or not the answer arrives, or given to its handler.
Served(r) == pc[r] \in {"answered", "lost", "running"}

\* A handler that hangs holds up nobody but itself, unless the product asked for
\* Concurrency::Serial: every other request is answered or handled.
HungHandlerBlocksNobody ==
  \A r \in Requests : pc[r] = "read" /\ policy # "serial" ~> Served(r)

\* While handlers end, by returning or in a panic, every request is answered or
\* handled under every policy: a panic costs no request but its own.
EachIsServed ==
  (\A h \in Requests : []<>(pc[h] # "running"))
    => \A r \in Requests : (pc[r] = "read" ~> Served(r))
=============================================================================
