---------------------------- MODULE SessionStore ----------------------------
(***************************************************************************)
(* What the HTTP sessions promise their clients, without the map, its lock *)
(* or the reclaiming: a session lives from the answer that opened it until *)
(* it is closed or nobody has used it for IdleTimeout, to the tick; a      *)
(* request is told "unknown" only of a session that is not alive, and      *)
(* "full" only while MaxSessions are.  HttpSessions implements this.       *)
(***************************************************************************)
EXTENDS FiniteSets, Naturals

CONSTANTS
  Requests,     \* requests; a session is named by the request that opened it
  NoId,         \* the session of a request that names none
  MaxSessions,  \* how many sessions may be alive
  IdleTimeout   \* ticks without use after which a session is gone

VARIABLES
  live,    \* sessions that are alive
  idle,    \* ticks since each of them was used
  asks,    \* the session a request names
  answer   \* what it was told of it

svars == <<live, idle, asks, answer>>

SInit ==
  /\ live = {}
  /\ idle = [i \in Requests |-> 0]
  /\ asks = [r \in Requests |-> NoId]
  /\ answer = [r \in Requests |-> "none"]

Tell(r, a) ==
  /\ answer[r] = "none"
  /\ answer' = [answer EXCEPT ![r] = a]

Ask(r) ==
  /\ asks[r] = NoId
  /\ \E i \in Requests : asks' = [asks EXCEPT ![r] = i]
  /\ UNCHANGED <<live, idle, answer>>

Use(r) ==
  /\ asks[r] \in live
  /\ idle' = [idle EXCEPT ![asks[r]] = 0]
  /\ UNCHANGED <<live, asks, answer>>

Close(r) ==
  /\ asks[r] \in live
  /\ Tell(r, "closed")
  /\ live' = live \ {asks[r]}
  /\ idle' = [idle EXCEPT ![asks[r]] = 0]
  /\ UNCHANGED asks

Miss(r) ==
  /\ asks[r] # NoId /\ asks[r] \notin live
  /\ Tell(r, "unknown")
  /\ UNCHANGED <<live, idle, asks>>

HasRoom == Cardinality(live) < MaxSessions

Open(r) ==
  /\ asks[r] = NoId /\ HasRoom
  /\ Tell(r, "opened")
  /\ live' = live \union {r}
  /\ UNCHANGED <<idle, asks>>

Refuse(r) ==
  /\ asks[r] = NoId /\ ~HasRoom
  /\ Tell(r, "full")
  /\ UNCHANGED <<live, idle, asks>>

Pass ==
  /\ live' = {i \in live : idle[i] + 1 < IdleTimeout}
  /\ idle' = [i \in Requests |-> IF i \in live' THEN idle[i] + 1 ELSE 0]
  /\ UNCHANGED <<asks, answer>>

SNext ==
  \/ Pass
  \/ \E r \in Requests : Ask(r) \/ Use(r) \/ Close(r) \/ Miss(r) \/ Open(r) \/ Refuse(r)

SSpec == SInit /\ [][SNext]_svars
=============================================================================
