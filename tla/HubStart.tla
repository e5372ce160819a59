------------------------------ MODULE HubStart -------------------------------
(***************************************************************************)
(* The start of the HTTP hub (Hub::prepare and ensure_token in             *)
(* src/src/http.rs).  The bearer token is shared state: the configurations   *)
(* of the hosts are pinned to it, and every hub of the product reads it from  *)
(* one file.  A hub binds its port, which is whatever its command line names,   *)
(* before it touches the file.                                               *)
(***************************************************************************)
EXTENDS Integers, Functions

CONSTANTS
  Hubs,     \* processes that run `serve`
  Ports,    \* the ports they are given
  MaxTokens \* bound: tokens that are in use at a time

Nothing == 0
Tokens == 1..MaxTokens   \* the random values

VARIABLES
  at,       \* how far each hub has come
  port,     \* what it was told to listen on
  mine,     \* the token it holds in memory
  saved,    \* the token file
  agreed,   \* history: the token that was served first
  apart,    \* history: two hubs came up at once, on different ports
  unread    \* history: a token that was there could not be read

history == <<agreed, apart, unread>>
hubVars == <<at, port, mine, saved, history>>

Stages == {"none", "started", "bound", "drew", "truncated", "serving"}

HubTypeOK ==
  /\ at \in [Hubs -> Stages]
  /\ port \in [Hubs -> Ports \union {Nothing}]
  /\ mine \in [Hubs -> Tokens \union {Nothing}]
  /\ saved \in Tokens \union {Nothing} /\ agreed \in Tokens \union {Nothing}
  /\ apart \in BOOLEAN /\ unread \in BOOLEAN

HubInit ==
  /\ at = [h \in Hubs |-> "none"]
  /\ port = [h \in Hubs |-> Nothing]
  /\ mine = [h \in Hubs |-> Nothing]
  /\ saved = Nothing /\ agreed = Nothing
  /\ apart = FALSE /\ unread = FALSE

Moves(h, s) == at' = [at EXCEPT ![h] = s]

Start(h) ==
  /\ at[h] = "none" /\ Moves(h, "started")
  /\ \E p \in Ports : port' = [port EXCEPT ![h] = p]
  /\ UNCHANGED <<mine, saved, history>>

Ends(h) ==
  /\ Moves(h, "none")
  /\ port' = [port EXCEPT ![h] = Nothing]
  /\ mine' = [mine EXCEPT ![h] = Nothing]

ComesUp(h) == at[h] \in {"bound", "drew", "truncated"}
HasPort(h) == ComesUp(h) \/ at[h] = "serving"

\* Mutant: a listener that shares its port.
PortFreeShared(h) == TRUE

PortFree(h) == \A g \in Hubs : port[g] = port[h] => ~HasPort(g)

Bind(h) ==
  /\ at[h] = "started" /\ PortFree(h)
  /\ Moves(h, "bound")
  /\ apart' = (apart \/ \E g \in Hubs : ComesUp(g) /\ port[g] # port[h])
  /\ UNCHANGED <<port, mine, saved, agreed, unread>>

\* The port is taken: the process ends without having touched the token.
PortTaken(h) ==
  /\ at[h] = "started" /\ ~PortFree(h)
  /\ Ends(h)
  /\ UNCHANGED <<saved, history>>

Serves(h, t) ==
  /\ Moves(h, "serving")
  /\ mine' = [mine EXCEPT ![h] = t]
  /\ agreed' = IF agreed = Nothing THEN t ELSE agreed
  /\ UNCHANGED <<port, apart, unread>>

FindToken(h) ==
  /\ at[h] = "bound" /\ saved # Nothing
  /\ Serves(h, saved)
  /\ UNCHANGED saved

Unused == Tokens \ ({saved, agreed} \union Range(mine))

\* No file, an empty one, or one that cannot be read, for whatever reason.
DrawToken(h) ==
  /\ at[h] = "bound"
  /\ unread' = (unread \/ saved # Nothing)
  /\ Unused # {} /\ mine' = [mine EXCEPT ![h] = CHOOSE t \in Unused : TRUE]
  /\ Moves(h, "drew")
  /\ UNCHANGED <<port, saved, agreed, apart>>

\* fs::write empties the file first.
TruncateToken(h) ==
  /\ at[h] = "drew" /\ Moves(h, "truncated")
  /\ saved' = Nothing
  /\ UNCHANGED <<port, mine, history>>

WriteToken(h) ==
  /\ at[h] = "truncated"
  /\ saved' = mine[h]
  /\ Serves(h, mine[h])

\* A crash, or a start that fails: the port is free again, the file stays.
Stop(h) ==
  /\ at[h] # "none" /\ Ends(h)
  /\ UNCHANGED <<saved, history>>

StopAll ==
  /\ at' = [h \in Hubs |-> "none"]
  /\ port' = [h \in Hubs |-> Nothing]
  /\ mine' = [h \in Hubs |-> Nothing]
  /\ UNCHANGED <<saved, history>>

HubStep(h) ==
  \/ Bind(h) \/ PortTaken(h) \/ FindToken(h)
  \/ DrawToken(h) \/ TruncateToken(h) \/ WriteToken(h)

ServesAgreed == \A h \in Hubs : at[h] = "serving" => mine[h] = agreed

\* However often hubs crash in the middle of their start, and whoever starts one
\* beside the supervisor, on whatever port, all that ever serve present one and the
\* same token, the one the configurations of the hosts are pinned to; unless two came
\* up at once on different ports, or one could not read the token that was there.
TokenIsOne == ~apart /\ ~unread => ServesAgreed

\* Violated, for prepare rightly says that "the token is shared state a running server
\* and its pinned host configs already agree on", but the port it binds first keeps
\* out the hubs of that port only: two first starts on two ports serve two tokens.
RunningServersAgree == ~unread => ServesAgreed

\* Violated, though ensure_token is to "load the persisted bearer token, creating one
\* on first run": it creates one, and writes it over the one the hosts are pinned to,
\* on each run in which the file cannot be read.
RestartsServeTheToken == ~apart => ServesAgreed
=============================================================================
