---------------------------- MODULE StdoutCapture ----------------------------
(***************************************************************************)
(* capture_stdout (src/src/capture.rs): a command that prints runs with the *)
(* process's stdout redirected into a pipe and its working directory moved;  *)
(* both are process-global, so a lock serializes the captures.  A process    *)
(* that another thread spawns while the pipe's own write handle is open       *)
(* inherits it, and keeps the pipe open until it ends.                        *)
(***************************************************************************)
EXTENDS FiniteSets

CONSTANTS
  Captures, \* calls that capture
  Procs,    \* processes that other calls spawn
  Nobody,   \* no call: stdout and directory are the server's, the lock is free
  Server    \* the author of a response

VARIABLES
  at,         \* where each call is in capture_stdout
  holder,     \* the call that holds the capture lock
  stdout,     \* the call whose pipe the process's stdout is
  cwd,        \* the call whose root is the working directory
  open,       \* calls whose pipe's write handle is open besides stdout
  inherited,  \* process -> calls whose write handle it inherited
  text        \* call -> the authors of what its pipe has swallowed

captureVars == <<at, holder, stdout, cwd, open, inherited, text>>

Stages == {"out", "locked", "entered", "piped", "redirected", "running",
           "returned", "joining", "leaving"}

CaptureTypeOK ==
  /\ at \in [Captures -> Stages]
  /\ holder \in Captures \union {Nobody}
  /\ stdout \in Captures \union {Nobody}
  /\ cwd \in Captures \union {Nobody}
  /\ open \subseteq Captures
  /\ inherited \in [Procs -> SUBSET Captures]
  /\ text \in [Captures -> SUBSET (Captures \union {Server})]

CaptureInit ==
  /\ at = [c \in Captures |-> "out"]
  /\ holder = Nobody /\ stdout = Nobody /\ cwd = Nobody
  /\ open = {}
  /\ inherited = [p \in Procs |-> {}]
  /\ text = [c \in Captures |-> {}]

Go(c, from, to) == at[c] = from /\ at' = [at EXCEPT ![c] = to]

\* Author prints: the bytes go where stdout points.
Printed(author) ==
  text' = IF stdout = Nobody THEN text
          ELSE [text EXCEPT ![stdout] = @ \union {author}]

-----------------------------------------------------------------------------
(* capture_stdout.                                                         *)

\* The lock has no deadline; a poisoned one is taken all the same.
Lock(c) ==
  /\ holder = Nobody /\ Go(c, "out", "locked")
  /\ holder' = c
  /\ UNCHANGED <<stdout, cwd, open, inherited, text>>

EnterRoot(c) ==
  /\ Go(c, "locked", "entered")
  /\ cwd' = c
  /\ UNCHANGED <<holder, stdout, open, inherited, text>>

\* The directory cannot be read or entered: nothing has been changed yet.
EnterFails(c) ==
  /\ Go(c, "locked", "out")
  /\ holder' = Nobody
  /\ UNCHANGED <<stdout, cwd, open, inherited, text>>

\* The saved directory is restored and the lock released, whatever
\* capture_inner returned.
Leave(c) ==
  /\ Go(c, "leaving", "out")
  /\ cwd' = Nobody
  /\ holder' = Nobody
  /\ UNCHANGED <<stdout, open, inherited, text>>

(* capture_inner.                                                          *)

MakePipe(c) ==
  /\ Go(c, "entered", "piped")
  /\ open' = open \union {c}
  /\ UNCHANGED <<holder, stdout, cwd, inherited, text>>

PipeFails(c) ==
  /\ Go(c, "entered", "leaving")
  /\ UNCHANGED <<holder, stdout, cwd, open, inherited, text>>

\* stdout is saved, and becomes the write end of the pipe.
Redirect(c) ==
  /\ Go(c, "piped", "redirected")
  /\ stdout' = c
  /\ UNCHANGED <<holder, cwd, open, inherited, text>>

\* dup or dup2 fails: what was opened is closed.
RedirectFails(c) ==
  /\ Go(c, "piped", "leaving")
  /\ open' = open \ {c}
  /\ UNCHANGED <<holder, stdout, cwd, inherited, text>>

\* The write handle is closed, so that stdout is the pipe's only writer, and a
\* thread begins to drain it.
StartReader(c) ==
  /\ Go(c, "redirected", "running")
  /\ open' = open \ {c}
  /\ UNCHANGED <<holder, stdout, cwd, inherited, text>>

CommandPrints(c) ==
  /\ at[c] = "running" /\ c \notin text[c]
  /\ Printed(c)
  /\ UNCHANGED <<at, holder, stdout, cwd, open, inherited>>

\* Mutant: the command's panic is not caught, and unwinds past the restoration.
CommandUnwinds(c) ==
  /\ Go(c, "running", "out")
  /\ holder' = Nobody
  /\ UNCHANGED <<stdout, cwd, open, inherited, text>>

\* The command returns, fails or panics: run_caught makes these one case.
CommandEnds(c) ==
  /\ Go(c, "running", "returned")
  /\ UNCHANGED <<holder, stdout, cwd, open, inherited, text>>

Restore(c) ==
  /\ Go(c, "returned", "joining")
  /\ stdout' = Nobody
  /\ UNCHANGED <<holder, cwd, open, inherited, text>>

HasWriter(c) ==
  stdout = c \/ c \in open \/ \E p \in Procs : c \in inherited[p]

\* reader.join: the reader returns at the end of the pipe, when its last
\* writer is gone.
Join(c) ==
  /\ Go(c, "joining", "leaving") /\ ~HasWriter(c)
  /\ UNCHANGED <<holder, stdout, cwd, open, inherited, text>>

-----------------------------------------------------------------------------
(* The rest of the process.                                                *)

\* Another thread spawns process p, its own output piped: the handles the pipe
\* calls left inheritable go with it.
Inherit(p) ==
  /\ inherited' = [inherited EXCEPT ![p] = open]
  /\ UNCHANGED <<at, holder, stdout, cwd, open, text>>

\* Process p forks q.
PassOn(p, q) ==
  /\ inherited' = [inherited EXCEPT ![q] = inherited[p]]
  /\ UNCHANGED <<at, holder, stdout, cwd, open, text>>

ProcEnds(p) ==
  /\ inherited' = [inherited EXCEPT ![p] = {}]
  /\ UNCHANGED <<at, holder, stdout, cwd, open, text>>

\* The stdio server writes a response.
Respond ==
  /\ Printed(Server)
  /\ UNCHANGED <<at, holder, stdout, cwd, open, inherited>>

CallStep(c) ==
  \/ Lock(c) \/ EnterRoot(c) \/ EnterFails(c) \/ MakePipe(c) \/ PipeFails(c)
  \/ Redirect(c) \/ RedirectFails(c) \/ StartReader(c)
  \/ Restore(c) \/ Join(c) \/ Leave(c)

CommandStep(c) == CommandPrints(c) \/ CommandEnds(c)

\* Anyone may print while no call captures, and only then: ServerConfig::serial
\* runs the handlers on the thread that writes the responses.
CaptureNext ==
  \/ \E c \in Captures : CallStep(c) \/ CommandStep(c)
  \/ \E p \in Procs : Inherit(p) \/ ProcEnds(p) \/ \E q \in Procs : PassOn(q, p)
  \/ (\A c \in Captures : at[c] = "out") /\ Respond

CaptureSpec == CaptureInit /\ [][CaptureNext]_captureVars

-----------------------------------------------------------------------------
\* What a capture returns was printed by its own command: neither the command
\* of another call nor a response of the server lands in its pipe, whichever
\* step of whichever capture failed before.
CapturedIsOwn == \A c \in Captures : text[c] \subseteq {c}

\* Violated: restoring stdout "drops the last write reference to the pipe, so the reader
\* thread observes EOF and returns" (capture_inner).
RestoredIsAtEnd == \A c \in Captures : at[c] = "joining" => ~HasWriter(c)
=============================================================================
