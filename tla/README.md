# A TLA+ verification of mcp-product-infra

`mcp-product-infra` lets an application offer itself to agents over MCP. A host
starts the application's *stdio server* (a *session*); the sessions of one
workspace share one *resident owner process* that holds the application's state.
The owner is elected, health-checked, retired and replaced by the sessions
themselves, with a lock file, an endpoint file, a ledger file and pings. That
protocol, the handling of a request in a session, the helpers its tools run on,
the HTTP hub that serves many clients from one process instead, and the
installation that keeps the hub resident and registers it with the hosts, are what
this project specifies, model-checks with TLC, and proves about with TLAPS.

Source paths below are relative to the repository; line numbers are in
`PROJECT.json` (`map`), which ties each definition to the code it stands for.

## 1. Inventory

| Part | State | Operations | What is hard | What makes it correct |
|---|---|---|---|---|
| Election and recovery (`src/sidecar.rs`) | lock file, endpoint file, owner processes, binary on disk, each session's cached endpoint | `ensure_owner_process`, `recover_owner`, `retire_stale_owner`, startup of `run_owner_server`, `spawn_owner_watchdog` | sessions race through unlocked file operations; owners crash anywhere; pings are lost; ports are used again; the product is reinstalled, with its version or a new one | one owner; only a ready owner is registered; a live owner gets no rival; a dead one is replaced |
| Health gate (`src/sidecar.rs`) | `HEALTH_MEMO` per session, retirement ledger per workspace | `enforce_owner_health`, `probe_gate`, `claim_retirement`, `guarded_health_hook` | throttled, shared between threads, ledger shared between processes without a lock | only a verdict of the application retires; retirements are bounded; sickness is noticed |
| Routing of calls (`src/server.rs`, `handle_line_remote_raw`) | where a call stands, what became of its request | send, classify the failure, recover, send once more, report | requests and responses are lost, owners die in the middle | a mutation lands at most once; a refusal is the truth |
| Event loop and dispatch (`src/server.rs`) | event channel, worker queues, `active_requests`, drain deadline | `run_event_loop`, `Dispatch`, `handle_queued`, reader, parent watchdog | ordering across threads, end of input with work in flight, panics | order per lane, every request answered once, the server ends |
| Serving owner (`src/sidecar.rs`) | backlog, connection threads, `inflight`, `retiring` | accept loop, `handle_owner_stream`, idle reaping, exit | exit races with calls in flight | nothing is cut off while the wait lasts; an owner does not outlive its use |
| Request handling (`src/server.rs`, pinned roots in `src/http.rs`) | none of its own | classification, `handle_line_local_raw`, `tools_call`, `handle_line_contained` | frames of any shape; application code fails or panics in the classifier, the hooks, the handler; the same question is asked in two processes | one answer per request, none to a notification; a mutation runs where the state is, and is not denied |
| Registry, manifest, types (`src/registry.rs`, `src/manifest.rs`, `src/types.rs`) | immutable tables | lookup, validation, execution policies, `mutates` | – | – |
| Responses, resources (`src/response.rs`, `src/resources.rs`) | none | build frames, read files | – | – |
| Activity leases (`src/activity.rs`) | registry of leases | `begin`, `try_acquire_exclusive`, drop, `snapshot` | racing acquirers, poisoned lock | one exclusive holder per lane; the wait is bounded; no leak |
| HTTP hub (`src/http.rs`) | session map, serial lock, token file | `SessionServer::respond_with`, `dispatch_with_policy`, `ensure_token` | deletion and expiry under a running handler, capacity, a hung handler under the serial lock; hubs that start together | a session's state is its own; refused means not executed; all hubs serve one token |
| Process runner (`src/process.rs`) | child, pipes, two readers | `run_with_timeout` | deadline against exit, forked processes, inherited pipes | returns in bounded time; a timeout leaves nothing running |
| Stdout capture (`src/capture.rs`) | process-global stdout and working directory | `capture_stdout` | a step of the redirection fails, the command panics, other threads spawn processes | what is captured is the command's; both are restored |
| Services (`src/service.rs`, `src/service_host.rs`, `src/bin`) | unit or task, what the supervisor has loaded, the windowless host, its job | install, uninstall, `run` | one of several commands fails while the supervisor acts by itself; the host is killed at any point | healthy means permanent; removed means gone; no orphan; the hub comes back |
| Host adapters (`src/adapters`) | configuration files of hosts | install, remove, readiness | merging into files others own, in any condition; two scopes, two spellings of a root | what is not owned stays; a second run changes nothing; configured means effective |
| Guards (`src/shell_guard.rs`, `src/agent_guard.rs`) | shims, rc blocks | install, remove, evaluate | – | idempotence |

`origin/ishoo` is a snapshot of the program the crate was extracted from; it is
not part of the crate and is left aside.

How the parts meet: `run_stdio` calls `ensure_owner_process` once and hands the
endpoint to `Dispatch`. Every `tools/call` passes from the event loop to a worker
or thread, through `enforce_owner_health`, to `send_line`; a failure calls
`recover_owner`, which may call `ensure_owner_process` again. The owner answers on
one thread per connection. `owner/shutdown`, from a health retirement or from an
election that found another build, meets the accept loop of the owner as its
retiring flag. A tool's handler runs in the owner, the session or the hub, and calls
the leases, the capture and the process runner, which meet in the process they
share. The HTTP hub has its own listener, threads and sessions, and calls the
application's dispatcher directly; the supervisor that `install` registers starts
it, and the hosts' configuration files carry its token. `PROJECT.json` lists under
`hazards` where each of these is hard to test, with the properties that watch the
place.

## 2. Modules

    OwnerService        what the owner layer promises (abstract)
      ^ implemented by     ^ used by
    OwnerElection       MutationRouting        OwnerHealth
    OwnerDrain          Dispatch               Requests

    SessionStore        what HTTP sessions promise (abstract)
      ^ implemented by
    HttpSessions

    ActivityLeases   StdoutCapture   ProcessRunner      HubStart
             ^ composed by ToolCalls                      ^ composed by HubService

    HostInstall

`OwnerElection` is the detailed protocol. `OwnerService` is the promise it keeps:
at most one writer, a registration that names only a process that was ready, an
end that is final. `MutationRouting` extends `OwnerService`, so what is shown of a
call holds over the election as it is. `OwnerHealth` takes retiring and electing
at the same level; `OwnerDrain` looks inside one owner process between
`Publish` and its end; `Dispatch` stands for one session above all of these, and
`Requests` for one frame on its way through one. `ToolCalls` is what goes on in a
process that runs handlers; `HubService` is what keeps a hub process there.
Each has an `MC…` module for TLC and a `…Proofs` module; `OwnerDrain` shares that
of `OwnerHealth`, the other side of the gate, and `HubService` and `HttpSessions`
share `HubProofs`, for which their initial predicate, next-state relation and
specification carry the component's name (`DrainSpec`, `SessionsSpec`).

**OwnerElection.** One action per file operation, ping, spawn, lock attempt and process
transition. `pc` walks a session through `ensure_owner_process` (`read`, `ping`,
`retire`, `clear`, `spawn`, `poll…`) and `recover_owner` (`rec…`); `flow` says who
called: startup, the health gate, or a failed call. `cached` is the endpoint of
`run_stdio`, `using` the one the current call is directed at. `state` is the life of an
owner process; `build` what it executes, a pair of a version and a binary, and `stamp`
its fingerprint, the version compiled in with the binary that was on disk when it
computed it, which a reinstall may have replaced by then (`overtaken`). A reinstall
brings another binary of the next version or of the same. An endpoint is the process
that wrote it, but its port is kept apart, because a kernel gives a dead owner's port
away. A read of the endpoint file between truncation and write finds nothing. Timers are
choices: a poll may end at any look, a shutdown may be lost.

**OwnerHealth.** `memo` is `HEALTH_MEMO`, one per session, with ages instead of
instants; `ledger` is the file, a set of records with their ages (a mark tells
records of one age apart), read, truncated and written in three steps without a
lock, as the code does, any of which may be the last. A thread is one gate at a
time. `claims`, `reported` and `torn` are history.

**MutationRouting.** `delivery` says for each of the two tries how far the request
came, and survives the owner, so that "applied" can be asked after its death.
`Fail` includes the write that fails at the last byte. A dead owner's port may be
answered by its successor (`StrangerAt`), which refuses the token.

**Dispatch.** The channel, the workers' queues, the threads and the loop; `serial`
is chosen once. The dispatch hook runs after the handler and outside the panic
backstop, so it may end a worker or a thread (`WorkerDies`, `ThreadDies`).
Nothing is taken by workers after the loop ends: the process exits.

**SessionStore, HttpSessions.** `HttpSessions` walks each request from the end of
its parsing (`read`) through `respond_with` and `dispatch_with_policy` (`lane`,
`running`) to the admission of the session it initialized, and out. What it does
with the session map is one step, because it holds the map's mutex throughout;
what a handler does is none, and it may return, fail, panic or hang. A session is
named by the request that initialized it; a client names one it was told of, or
makes one up. `age` is `last_used` the other way round, in ticks, and stops at
`IdleTimeout`. `holder` and `poisoned` are the serial mutex. `SessionStore` knows
neither map nor lane: sessions end on the tick, and `Use`, `Close`, `Miss`, `Open`
and `Refuse` are what a request can be told. The mapping takes for alive the
sessions in the map that are not idle too long (`Fresh`), and for named the
session of a request that passed authentication, so that a request without the
token may not even refresh one.

**OwnerDrain.** A connection goes from the backlog through its thread; `guarded`
is the set of connections with an `InflightGuard`. The main thread checks,
accepts, sleeps, and at its end closes, waits, drains, exits. `accept` may fail at any
time, after which the loop looks at `retiring` but not at the idle time. A connection of
`Probes` asks for the owner's health: `AskHook` starts the hook on a thread of its
own if none is out, `HookReturns` frees the slot before `HookSends` sends, and the
prober waits for `HEALTH_HOOK_TIMEOUT` at most.

**Requests.** One frame, chosen from every combination of method, id, protocol metadata,
tool and arguments that the code tells apart, over every transport. `line` is the frame
with the connection's root filled in; `place` is the process that handles it; `ran` and
`applied` are where a handler was called and where a mutating one completed. A dynamic
tool is a function of the value it is asked about (`Reads`), and it is asked twice,
about `null` for a line without arguments and about `{}` for the call; `loose` says that
an owner holds a frame nobody waits for, because its write failed at the newline or its
answer was lost. Application code (the classifier of a dynamic tool, `before_tool`, the
handler, `mutation_hook`, the response hook) may fail or panic wherever it is called;
where that is outside `catch_unwind`, the frame goes to `unwinding`. The owner is an
environment here: it may be refused by the gate, out of reach, or lost at any point with
the request in its hands.

**ActivityLeases, StdoutCapture, ProcessRunner, ToolCalls.** Three modules with
their own `Init` and `Next`, composed by conjoining their actions: `ToolCalls`
walks a call from its lease through the capture or the command to the drop of the
lease. `records` are the registered leases, and `trying`, `late` the bounded wait of
`try_acquire_exclusive` (one look at a time, one more past the deadline). `at` walks
a call through `capture_stdout` line by line; `stdout` and `cwd` are the process's,
`open` the capture's own write handle, which `pipe()` leaves inheritable, and
`inherited` which processes got it: `Launch` is a spawn and an inheritance in one
step. `phase` is the run of a command; `alive`, `killed` its processes, of which
the helper is what the child forks into its group. On stdio with
`ServerConfig::serial` (`serial`) one call at a time runs and the same thread writes
responses; in a hub calls overlap.

**HubStart, HubService.** `HubStart` is `Hub::prepare` and `ensure_token`, for hubs on
whatever ports, with reads of the token that fail and with the file truncated before it
is written; `apart` and `unread` are history. `HubService` is install and removal,
one command after the other (`todo`), on three platforms. `unit` is the definition
on disk, `known` what the supervisor has loaded of it, each the number of the
install that wrote it. The supervisors act by themselves (`Restart`, `GiveUp`,
`LogoutAndLogin`); how is external knowledge, taken from what the code and its
comments rely on: `Restart=always` with a start limit, `KeepAlive`, a trigger that
repeats every minute, `IgnoreNew`, and `enable --now` leaving a running unit alone.
On Windows `host` creates the hub suspended, puts it into its job, and resumes it.

**HostInstall.** The files an operation handles, in order (`Plan`); of each,
whether it can be used, whose entries it holds under our names, the state of the
managed block, rule or hook in it, and for `~/.claude.json` the entries under two
spellings of the project's root. Of `.codex/config.toml`, which is changed as text, it
also has the form of an entry, as far as the search for its header and the tables that
are appended tell forms apart. A read, its change and its write are one step, but a
write may leave the file cut short (`Torn`) and an error ends the operation.
Between operations the user and the hosts change things (`Edit…`).

Mutants are definitions marked "Mutant" next to the one they replace: each is a
plausible bug that breaks one property (`mutants` in `PROJECT.json`).

## 3. Runs

| Run | Instance | Checks |
|---|---|---|
| `election_safety` | 2 sessions, 2 owners, 1 reinstall, of a new version or not | `SingleOwner`, `RebuildTakesEffect`, `ImplementsService` |
| `election_live` | 1 session, 3 owners | `RegistrationRestored`, `DeadOwnerReplaced` |
| `health` | 1 session, 2 threads, 2 owners, interval 2, window 1, bound 1 | `OnlySickRetired`, `BoundedRetirements`, `SickOwnerNoticed` |
| `routing` | 1 call, 3 owners | `AtMostOnce`, `HonestRefusal`, `CallsEnd` |
| `requests` | every frame, transport and setting; a classifier that takes one operation, and `null`, for a read | `NotificationsAreInert`, `MutationsStayWithOwner`, `AppliedIsNotDenied`, `RequestsAreAnswered` |
| `dispatch` | a mutation, a silent one behind it, a read, a blank line | `DrainedLosesNothing`, `InOrder`, `EachIsAnswered`, `ConcurrentIsNotBlocked`, `EndsAfterInput` |
| `tools` | 2 exclusive captures and a command in one lane, 2 processes | `WorkExcluded`, `CapturedIsOwn`, `TreeKilled`, `BoundedWaits` |
| `drain` | a call, a shutdown, 2 health queries | `DrainedNotCut`, `OneHookOut`, `LifetimeBounded` |
| `sessions` | 3 requests, room for 1 session, 2 ticks, each policy | `OneAtATime`, `ImplementsStore`, `HungHandlerBlocksNobody`, `EachIsServed` |
| `service` | 3 platforms, 2 installs, 3 faults, start limit 2, 2 hubs, 2 ports | `HealthyIsPermanent`, `RemovedIsGone`, `NoHubOutlivesItsHost`, `TokenIsOne`, `HubComesBack` |
| `install` | 2 servers of which one is withheld from a host, 1 change from outside | `SecondRunChangesNothing`, `ScopesClean`, `ConfiguredIsEffective`, `UserContentKept` |

`unreadable` is violated: see section 5, which also names the definitions that are
violated in configurations beside the runs, to be called by hand. The modules also
define a `TypeOK` and a few invariants that no run lists because they are proved:
`RegistrationAuthentic`, `NoRivalElection`, `AnsweredMeansApplied`,
`AckedBeforeRetiring`, `ActiveCountsInFlight`, `SessionsBounded`, `BusyIsTrue`,
`PinIsOnlyADefault`.

What the runs show of the newer parts. *A request*: nothing that carries no id is
executed, sent or answered, although it passes classification and routing; a mutation
that cannot be delivered is refused or admitted as unknown, and never done by the
session itself, unless the classifier contradicts itself; and a failing hook behind a
completed mutation is a warning. *A tool*: leases exclude also when a shared one is
announced in between; no response and no other command lands in a capture, on whichever
error path the one before it left; a timeout kills the group, and not only the child. *A
hub*: "healthy" from an install, first or repeated, after whatever aborted attempts,
holds at the next login, and is the definition just written. *The files*: an operation
that is repeated changes nothing, and an operation touches only what is ours, but for the
cases that section 5 excludes by name.

**Why the bounds are enough.** Two sessions and two owners are the least with which one
can race another's clearing, spawning and retiring and with which a port is used again;
the proofs of section 4 lift every property of this run to any number. Liveness needs a
third owner, for one that dies while a session waits for it. In `health` the interval is
longer than the window, so a record ages out inside one memo entry, and a bound of 1 is
reached by one retirement; the two threads overlap in every step. In `routing` the calls
do not touch each other except through the owners, and two tries need the owner that
took the first, the one the retry goes to, and one more to use the ports again. In
`dispatch` two mutations give the order, and every other route occurs once; its safety
properties are proved for any lines, workers and routes. In `drain` each kind of
connection occurs, and two health queries, so that the second meets a hook that is out,
or its late answer. In `sessions` two requests initialize (or one of them calls) and the
third is anything else: enough for two admissions over the last place, and for a session
deleted or expired under a running handler; a session used after one tick of two shows
that the use counts. All its safety properties are proved for any bounds. In `requests`
the frames are all there are; one operation the classifier takes for a read and one it
does not are the two cases it has. In `tools` two captures are the least that contend
for lane, lock and stdout; the command spawns into any moment of either, and its helper
outlives it. In `service` two installs are the least with an older definition; a start
limit of 2 is reached by two crashes; three faults abort an install, crash a hub, log
out or start one by hand, in any combination; two ports are the least on which hubs do
and do not keep each other out; tokens are enough for every start that loses one. In
`install` a server for all hosts and one withheld are the two kinds; one change from
outside meets every state that operations lead to, and the initial files are those an
older version left. Any file may become unreadable, misshapen or malformed, or be cut
short. All four properties are proved for any servers, hosts of each and number of
changes.

`CHECK_DEADLOCK FALSE` stands where the program ends (`Dispatch`, `OwnerDrain`),
where the finitely many requests, calls, installs or edits are done
(`HttpSessions`, `Requests`, `ToolCalls`, `HubService`, `HostInstall`). The other
models never stop.

**Fairness.** *OwnerElection*: the threads of a running owner and of a session are
scheduled; a session that polls again and again finds its deadline passed (strong
fairness of `PollDeadline`: a clock reading). Nothing obliges installs, crashes,
idle timeouts or message loss to happen or to stop; `DeadOwnerReplaced` is
conditional on the faults stopping. *OwnerHealth*: time passes, threads proceed,
and a query that could be answered again and again is answered once. That the
session keeps calling is assumed: without calls there is no gate.
*MutationRouting*: only the call itself is scheduled; connect, write, response and
the election's wait have timeouts in `send_line_within` and
`ensure_owner_process`. *Dispatch*: the loop, its deadline and the threads are
scheduled; handlers on workers may hang; those on threads of their own, and
those of serial mode, are assumed to return. *OwnerDrain*: the main thread is
scheduled, its timers run out (`IdleReap` needs strong fairness, because a
connection waiting in the backlog disables it), and the drain hook returns,
which nothing in the code bounds; `accept` may fail as often as it likes, also for
ever. *HttpSessions*: the threads are scheduled
outside the handlers, which owe nothing; `EachIsServed` is conditional on handlers
ending. Requests are finitely many, so nobody can be overtaken for ever at the
serial mutex, of which the standard library promises no fairness. *Requests*: the
thread that handles the frame runs, and application code returns or panics.
*ToolCalls*: the threads are scheduled and their clocks run; commands and
processes owe nothing, so they may hang for ever. *HubService*: a supervisor
restarts what it keeps or gives it up, and processes that were started run; no
command, fault or login has to happen. *OwnerDrain*: the health hook owes nothing.

## 4. Proofs

All theorems hold for every value of the constants, under the named assumptions of the
modules: `None` is no process (`NoneIsNoProcess`, `ProcsAssumption`, `NoGenAssumption`),
the bounds are numbers (`BuildAssumption`, `TimeAssumption`, `BoundAssumption`), the
routes and kinds of connections are sorts (`RouteAssumption`, `ConnAssumption`,
`AskedAssumption`, `PolicyAssumption`, `CallAssumption`, `ServiceAssumption`,
`RequestAssumption`, `InstallAssumption`), every command has processes of its own
(`ProcAssumption`), and `NoId` is no request (`NoIdAssumption`). No theorem has an
assumption of its own.

* **OwnerElectionProofs.** `TypeCorrect`; `OneOwner`, `RegistrationIsAuthentic`,
  `NoRivalIsElected`; `RebuildIsAttachedTo`; `ElectionImplementsService`, the
  refinement. `SingleOwner` is not inductive: `LockInv` adds that the holding states are
  those of the lock's holder. `RegistrationAuthentic` needs that a published process has
  a port (`PortInv`). `NoRivalElection` speaks of a check made several steps ago, so it
  needs that death is final and that what a session holds in `seen`, `using` and
  `cached` is a process that was published once (`EndpointInv`, `ClientInv`).
  `RebuildTakesEffect` is about steps: `PingLeadsTo` says where a ping can lead, and
  only `EnsureAttach`, which compares fingerprints, leads to an attachment; that equal
  fingerprints mean one build takes an invariant (`BuildsInv`): a binary has one
  version, and a stamp is the build of its owner unless a reinstall came between. The
  refinement maps each step to one of `OwnerService` or to a stutter; most sessions'
  steps are stutters, clearing is `Unregister`.
* **OwnerHealthProofs.** `RetiredOnItsOwnVerdict`: a memo says "sick" only of what
  answered so; the ledger does not enter that invariant. `RetirementsAreBounded`
  has one of its own (`BudgetInv`): unless it was torn, what was claimed within the
  window is in the file, or in the copy of the one writer that truncated it, who
  adds one record to fewer than the bound. Of `OwnerDrain`: `DrainTypeCorrect`,
  `NothingCutInTime`, `RetirementIsAcked`, `SingleFlight`. `GuardInv`: who is in
  progress holds a guard, and a wait that ended in time ended with none held; after
  the listener is gone nobody enters.
* **MutationRoutingProofs.** `TypeCorrect`, `AnswerMeansApplied`,
  `AppliedAtMostOnce`, `RefusalsAreHonest`. `DeliveryInv` says which tries can be
  anything but "none" at each `pc`: the second is untouched until the resend, the
  first is untouched whenever a recovery is under way, unless the write was cut
  at the newline.
* **RequestsProofs.** `TypeCorrect`, `NotificationsInert`, `MutationsStay`,
  `AppliedIsAdmitted`, `PinCompletes`, for every classifier. `IInv` says what a
  stage implies of the frame: only requests that name a tool are calling one
  (`CallsAreRequests`); with an owner attached a mutation is in nobody's hands in
  the session (`MutationsForwarded`), for `MutationsStayWithOwner` alone does not
  exclude that one is about to be called; a mutation whose answer was lost is left to its
  owner, which may apply it when the call is long over (`LeftToOwner`); and what is left
  of a frame once it was applied are the stages that admit it (`AfterApplied`).
* **ToolCallsProofs.** `LanesExclude`, `CapturesKeepApart`, `TimeoutKillsTheTree`,
  for any number of calls, lanes and processes. Each has an invariant of its own:
  who is at work exclusively has the record that says so, and a claim looks for any
  record (`LaneInv`); who is in `capture_stdout` holds its lock and is between
  its lease and its end, and stdout is redirected only by one who is
  (`CaptureInv`, which needs `LaneInv` for the calls that wait or are refused); from
  the kill on the group has no member that can fork (`RunnerInv`).
* **DispatchProofs.** `DrainIsComplete`, `OrderIsKept`, `ActiveIsCounted`, for any
  lines (infinitely many, if need be), workers and routes, on the loop and in serial
  mode. None of the three is inductive, and they lean on each other. A line is in
  one place (`PlaceInv`), and the channel holds no event twice and no line behind
  the end of the input (`ChannelInv`); `active` is the cardinality of the lines in
  flight and of those a panic lost (`CountInv`); what came in is to be heard, in
  flight or done (`DoneInv`); the channel and the queues keep the order of arrival
  (`OrderInv`), so that a worker has nothing ahead of the head of its queue that it
  could have passed (`OrderedInv`). The lemmas about `Append`, `Head` and `Tail` are
  stated for any sequence, by what they do to its elements and to who precedes whom.
* **HubProofs.** Of `HubService`: `OneToken`: whatever supervisors and installs do
  is to a hub a start, a step or an end (`NextIsHubAction`); as
  long as no two come up at once on different ports and no read fails, a hub that draws
  a token does so alone: whoever else would have to have the same port.
  `HubStaysInItsJob`. `HealthyMeansPermanent`, `RemovedMeansGone`: `PlanInv` (one
  for each platform) relates the commands an install or removal has yet to run to
  what is on disk, enabled and loaded: what they will not do has been done, and
  nothing that the supervisor does by itself in between undoes it. Of
  `HttpSessions`: `SessionsTypeCorrect`; `LaneIsExclusive` and `BusyMeansBusy` from
  `LaneInv`: who holds the lane is exactly who runs under it, which neither a panic
  nor a refusal disturbs; `CapacityHolds`, from the library's facts on the
  cardinality of finite sets; `SessionsImplementStore`, the refinement, with
  `RequestInv` (a request is told one thing of sessions, and only an initialization
  without a session reaches admission) and the lemma `KeepsFresh` (what an access
  leaves in the map is alive).
* **HostInstallProofs.** `SecondRunIsIdle`, `ScopesAreClean`, `ConfiguredIsServed`,
  `UserContentIsKept`. First the adapters, one by one: on
  any sound document (`Sound`: what is said of it agrees with what it holds) each
  makes a sound document, keeps what is not ours (`Adapts`; a write that is cut short or
  fails in between keeps it too, `WriteFailsKeeps`) and would change nothing
  on its own result (`MaterializeFacts` collects them). Idempotence of each is not
  enough for an operation that is repeated: `PlanInv` carries that a file which was
  handled stays as the operation would have it until it is repeated. A removal that
  would change nothing has nothing to remove, which is `ScopesClean`.

Only model-checked: liveness (`~>` under fairness is beyond this prover), that is
`RegistrationRestored`, `DeadOwnerReplaced`, `SickOwnerNoticed`, `CallsEnd`,
`RequestsAreAnswered`, `EachIsAnswered`, `ConcurrentIsNotBlocked`, `EndsAfterInput`,
`BoundedWaits`, `LifetimeBounded`, `HungHandlerBlocksNobody`, `EachIsServed` and
`HubComesBack`. Every other property of a passing run is a theorem.

## 5. Where the code and its documentation part

The run `unreadable` ends in a counterexample, which `findings` in `PROJECT.json`
explains: most adapters take a configuration file that is not valid UTF-8 for an
absent one and replace it, though the module's policy is never to overwrite one.

Each of the following definitions says what the documentation says, and TLC finds it
violated when it is put in the place of the properties of the configuration named;
those that are the instance of no run are files of their own. The properties of the runs
exclude these cases, and no more, by the names given.

* `StaleOwnerRetired` (`OwnerElection_same_version.cfg`; excluded by `overtaken`): an
  owner stamps itself with the binary that is on disk when it computes its fingerprint
  (`src/sidecar.rs:1540`). A rebuild of the same version (the default is "0", line 290)
  that lands in between makes it pass for the new build; "Two different builds yield
  different signatures, so a stale owner is always retired" (lines 1537-1538).
* `NextSessionRunsRebuild` (`OwnerElection_old_owner.cfg`): the poll for the owner a
  session has spawned takes whoever is registered, without comparing fingerprints
  (line 466), so a session of the new version may be given an owner of the old one that
  another session spawned; "so a rebuild/reinstall takes effect on the next session"
  (lines 424-426).
* `RetiresOnlyOtherBinaries` (`OwnerElection_outdated_session.cfg`): a session that
  outlived a reinstall never agrees with an owner of the new build about the
  fingerprint, and retires it; the two are meant to "agree on the fingerprint —
  otherwise the two would disagree forever and retire in a loop" (lines 1536-1537).
* `HandedOutOwnersAnswer` (`OwnerElection_port_reuse.cfg`): `recover_owner` takes
  any reply for a ping (line 489), also the refusal of its token by a
  new owner on a dead owner's port, and hands out the dead one; "Whoever is
  registered and answering a ping right now is the live owner" (line 486).
* `RefusedOwnerIsRegistered` (`OwnerHealth_replaced.cfg`): the gate goes on judging
  the startup endpoint (`src/server.rs:708`) after its owner was replaced, spends the
  budget on it and refuses calls while a healthy owner runs; the comment has
  it "still the one registered" (`src/sidecar.rs:990-991`).
* `BudgetHolds` (`OwnerHealth_torn.cfg`; excluded by `torn`): two claims that overlap, a
  session killed between the truncation and the write of the ledger, or a write that
  fails there, allow one retirement too many; "At most [`RETIREMENT_BOUND`] retirements
  per workspace per [`RETIREMENT_WINDOW`]" (`src/sidecar.rs:916`).
* `IdleOwnerEnds` (`OwnerDrain_accept.cfg`; excluded by `AcceptFails`): an error of
  `accept` other than `WouldBlock` (line 616) skips the comparison of the idle time, so
  with no descriptor free an owner stays; "idle-reap when no client request has arrived
  for the idle timeout" (lines 553-554). A request to retire it does notice.
* `NeverInProcess` (`Requests.cfg`; excluded by `Mistaken`): a call without arguments is
  classified by `null` (`src/server.rs:1110`) and handled with `{}` (line 1039). A
  classifier whose answers differ lets a mutation pass for a read, which degrades to the
  session; "A mutation must NEVER fall back to an in-process write while a *live* owner
  exists" (lines 776-777).
* `RefusedIsUnapplied` (`Requests.cfg`; excluded by `"unsent" \notin loose` there and
  by `cut` in `MutationRouting`): a request whose write failed at its newline is applied
  by the owner, which reads up to the end of the stream, while the session takes it for
  not delivered and refuses it with `retry_safe: true`; "unreachable before delivery"
  (`src/server.rs:776`). Without the exclusions `AppliedIsNotDenied`, `AtMostOnce` and
  `HonestRefusal` are violated.
* `PanicsLeakNothing` (`Dispatch_observer.cfg`): a panic in the dispatch hook
  (`src/server.rs:1396`) escapes the backstop that is there so that a panic does not
  "leak the in-flight accounting" or "kill the FIFO loop" (lines 1431-1434).
* `RestoredIsAtEnd` (`ToolCalls_inherited.cfg`; excluded in `BoundedWaits`): the ends of
  the capture's pipe are not closed on exec (`src/capture.rs:94`, and the saved
  descriptor at line 100), so a process another thread spawns in the window keeps the
  pipe open, and `reader.join` waits for its end, with the capture lock held; "This drops
  the last write reference to the pipe" (line 136).
* `RunningServersAgree` (`HubService_ports.cfg`; excluded by `apart`): the port that
  `prepare` binds first keeps out the hubs of that port only. Two first starts on two
  ports serve two tokens; "the token is shared state a running server and its pinned host
  configs already agree on" (`src/http.rs:770-771`).
* `RestartsServeTheToken` (`HubService_unread.cfg`; excluded by `unread`): any failure to
  read the token file (line 711) counts as its absence, and another token is written over
  the one that is pinned; "creating one on first run" (line 706).
* `MisshapenIsNotOverwritten` (`HostInstall_unreadable.cfg`; excluded by `Fragile`): where
  `mcp_servers` or an entry of it is no table in `.codex/config.toml`,
  `append_codex_server` appends one (`src/adapters/mod.rs:1204`), and the file parses no
  longer; "an unusable file is reported as `Skipped` and never overwritten" (lines
  1308-1309).
* `StrangersAreLeftAlone` (the same; excluded by `Approved`): the same function gives our
  tool policy to an entry of somebody else under our name (line 1211); "a stranger's entry
  must be left alone" (the test at line 3374).
* `ProjectInstallPreserves` (the same; excluded by `edits' = edits`): files are written in
  place (lines 2185 and 2197), so a write that is cut short leaves a part of
  `~/.claude.json`, of which "every other key" was to be preserved (lines 440-442).
* `StrayCostsItsFilesOnly` (the same): the settings of Claude, and the hooks of Codex
  where a dangling link has the place of `.codex`, fail on their directory and end the
  whole install (line 1022); "Detecting it here keeps the failure at file level" (line
  1307).

More cases are excluded by name:

* `expired` (OwnerDrain): when `RETIRE_INFLIGHT_WAIT` runs out the process exits
  under its connection threads. Without `~expired`, `DrainedNotCut` is violated.
* the classifier (Requests): the event loop asks a dynamic tool for its policy on
  its own thread (`src/server.rs:1132`), outside every `catch_unwind`; a panic there
  ends the server. `RequestsAreAnswered` leaves those tools out on that transport.
  A panic outside the handler's containment in a hub or owner thread loses the
  reply with the connection.
* `blind` (HubService): `launchctl bootout` and `schtasks /End` that do nothing go
  unnoticed, so a removal that reports `Uninstalled` leaves the hub running; and the
  minute trigger of Windows may start it again between `/End` and `/Delete`, after
  which it outlives its task (`src/service.rs:590-594`). `RemovedIsGone` excludes
  both. A re-install leaves an older hub running too, until it ends by itself:
  `enable --now` and `/Run` do not touch what runs; `HealthyIsPermanent` speaks of
  every start from then on.

Some are visible in the code without a run. `run_owner_server` calls the handler from a
thread per connection (`src/sidecar.rs:589`), so mutations of two sessions run at the
same time, while the README says the owner "owns app state and serialized mutations"
(`README.md:391`): only within a session is that so. A notification that meets a busy
lane (`src/http.rs:995`) is dropped, and answered with the 202 that means "accepted,
nothing to return" (`src/http.rs:260`). A scope from which every server is withheld
counts as configured; two processes that write `~/.claude.json` at once, as the host
itself does, may lose an update. `ensure_rc_path_block` (`src/shell_guard.rs:310`) takes
an rc file that is not UTF-8 for an empty one and replaces it, though "Every byte
outside the markers is preserved" (lines 305-307), and adds a second block where the end
marker of the first is missing. A run that completes leaves alone what its child forked
(`src/process.rs:73`).

## 6. What is not modelled

Contents of requests and responses, authentication, retries of operating-system calls,
Windows handle semantics where they differ, pid reuse between an owner's death and
`process_is_alive`, and clocks that jump. Activity records of other processes never
exist in the registry as this code fills it, so `is_stale` decides nothing. A capture
whose reader thread cannot be spawned or whose working directory cannot be set back
(`src/capture.rs:74`), unit files truncated by a crash, and concurrent writers of a
configuration file are left out. Of the service, `enabled-runtime`, which `systemctl
is-enabled` says only if somebody else changes the unit between two commands of an
install, and `launchctl enable`, which matters for a label the user has disabled, are
left out. Of the configuration files, a JSON document that is no object (it is skipped
like one that does not parse), `[[mcp_servers]]`, and a file in the place of `.codex` on
systems where reading below it is reported as absence are left out. Status reporting of
the service, dry runs and guidance of the adapters change nothing.

The shell and agent guards, the construction of JSON frames, the reading of
resources, HTTP parsing and the validation of the registry are sequential
text processing without state: a test reaches all of them. `origin/ishoo`, about half of
the lines of the repository, is a vendored snapshot of another program and
no part of what the crate does, and the source files of the crate end in their own
tests (between a tenth and a half of each); hence the small share of all lines that
`map` covers.

## 7. What is left

The refinements end at single components: that `MutationRouting` with
`OwnerElection` in the place of `OwnerService` keeps its properties follows from
`ElectionImplementsService`, but is not stated as a theorem of a composition.
`ActivityLeases`, `StdoutCapture` and `ProcessRunner` are composed with each other but
not with `Requests`, whose handler is one step. The guards could be joined to
`HostInstall`, with the shims and blocks as further managed files.
