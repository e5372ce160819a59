----------------------------- MODULE HubService ------------------------------
(***************************************************************************)
(* Keeping the hub resident (src/src/service.rs, src/src/service_host.rs):   *)
(* `install` and `uninstall` drive the supervisor of the platform by one      *)
(* command after the other, each of which may fail, while the supervisor      *)
(* starts and restarts the hub by itself, sessions end, and hubs crash or are *)
(* started by hand.  How the supervisors react is modelled from what the code *)
(* and its comments rely on.                                                 *)
(***************************************************************************)
EXTENDS Naturals, Sequences

CONSTANTS
  Supervised, ByHand,   \* the two hub processes
  Ports, MaxTokens,     \* of HubStart
  Platforms,
  MaxInstalls,          \* bound: installs, each with a definition of its own
  Burst,                \* StartLimitBurst: starts systemd makes in an interval
  MaxFaults             \* bound: crashes, failed steps, logouts, hubs by hand

Hubs == {Supervised, ByHand}
AllPlatforms == {"systemd", "launchd", "windows"}

ASSUME ServiceAssumption ==
  /\ Supervised # ByHand
  /\ Platforms \subseteq AllPlatforms
  /\ MaxInstalls \in Nat /\ Burst \in Nat \ {0} /\ MaxFaults \in Nat

VARIABLES
  platform,
  todo,      \* commands the install or removal under way has yet to make
  outcome,   \* what the last one reported
  blind,     \* its command to stop the hub did nothing, and it went on
  version,   \* of the definition that was installed last
  unit,      \* the unit, the property list or the host's configuration; 0 if none
  known,     \* what the supervisor has loaded or registered; 0 if nothing
  enabled,   \* systemd starts the unit at login
  wanted,    \* systemd restarts the unit when it ends
  starts,    \* starts of the unit in the current interval
  host,      \* the windowless host of Windows
  faults,
  at, port, mine, saved, agreed, apart, unread   \* of HubStart

H == INSTANCE HubStart

hubVars == <<at, port, mine, saved, agreed, apart, unread>>

serviceVars == <<platform, todo, outcome, blind, version, unit, known, enabled, wanted,
                 starts, host, faults>>
vars == <<serviceVars, hubVars>>

Versions == 0..MaxInstalls

TypeOK ==
  /\ platform \in AllPlatforms
  /\ todo \in Seq(STRING)
  /\ outcome \in {"none", "failed", "healthy", "unhealthy", "removed"}
  /\ version \in Versions /\ unit \in Versions /\ known \in Versions
  /\ enabled \in BOOLEAN /\ wanted \in BOOLEAN /\ blind \in BOOLEAN
  /\ starts \in 0..Burst
  /\ host \in {"none", "launched", "created", "running"}
  /\ faults \in 0..MaxFaults
  /\ H!HubTypeOK

Init ==
  /\ platform \in Platforms
  /\ todo = <<>> /\ outcome = "none" /\ blind = FALSE
  /\ version = 0 /\ unit = 0 /\ known = 0
  /\ enabled = FALSE /\ wanted = FALSE /\ starts = 0
  /\ host = "none" /\ faults = 0
  /\ H!HubInit

InstallSystemd == <<"write", "reload", "enable", "query">>
InstallLaunchd == <<"write", "bootout", "bootstrap", "query">>
InstallWindows == <<"write", "create", "run", "query">>
InstallPlan ==
  [systemd |-> InstallSystemd, launchd |-> InstallLaunchd, windows |-> InstallWindows]

UninstallSystemd == <<"disable", "remove", "reload">>
UninstallLaunchd == <<"unload", "remove">>
UninstallWindows == <<"end", "delete", "remove">>
UninstallPlan ==
  [systemd |-> UninstallSystemd, launchd |-> UninstallLaunchd, windows |-> UninstallWindows]

Up == at[Supervised] # "none" \/ host # "none"

-----------------------------------------------------------------------------
(* What the supervisors do.                                                *)

\* The hub itself on Unix; on Windows the host, which creates the hub.
Launches ==
  IF platform = "windows" THEN host' = "launched" /\ UNCHANGED hubVars
  ELSE H!Start(Supervised) /\ UNCHANGED host

\* Ended with everything that runs in its job or its control group.
Ends ==
  /\ host' = "none"
  /\ IF at[Supervised] = "none" THEN UNCHANGED hubVars ELSE H!Stop(Supervised)

NothingStarts == UNCHANGED <<host, hubVars>>

\* A start by systemd, on demand or by itself, counts against the limit.
Counts == starts < Burst /\ starts' = starts + 1

\* Mutant: Task Scheduler starts the task at logon only.
KeptUpAtLogon == IF platform = "systemd" THEN wanted ELSE platform = "launchd" /\ known # 0

\* Restart=always, KeepAlive, the trigger that repeats every minute.
KeptUp == IF platform = "systemd" THEN wanted ELSE known # 0

Restart ==
  /\ KeptUp /\ ~Up
  /\ IF platform = "systemd" THEN Counts ELSE UNCHANGED starts
  /\ Launches
  /\ UNCHANGED <<platform, todo, outcome, blind, version, unit, known, enabled, wanted, faults>>

\* The limit is reached: the unit has failed.
GiveUp ==
  /\ platform = "systemd" /\ wanted /\ ~Up /\ starts = Burst
  /\ wanted' = FALSE
  /\ NothingStarts
  /\ UNCHANGED <<platform, todo, outcome, blind, version, unit, known, enabled, starts, faults>>

IntervalPasses ==
  /\ starts > 0 /\ starts' = 0
  /\ NothingStarts
  /\ UNCHANGED <<platform, todo, outcome, blind, version, unit, known, enabled, wanted, faults>>

\* Mutant: the hub is created running.
HostCreatesRunning ==
  /\ host = "launched"
  /\ host' = "created" /\ H!Start(Supervised)

\* The host reads its configuration, creates the hub suspended, and lets it run
\* once it is in the job.  Without a configuration it ends.
HostCreates ==
  /\ host = "launched"
  /\ host' = IF unit = 0 THEN "none" ELSE "created"
  /\ UNCHANGED hubVars

HostResumes ==
  /\ host = "created" /\ host' = "running"
  /\ H!Start(Supervised)

HostStep ==
  /\ HostCreates \/ HostResumes
  /\ UNCHANGED <<platform, todo, outcome, blind, version, unit, known, enabled, wanted,
                 starts, faults>>

\* The steps of a hub; the host ends with its hub.
HubSteps(h) ==
  /\ H!HubStep(h)
  /\ host' = IF h = Supervised /\ at'[h] = "none" THEN "none" ELSE host
  /\ UNCHANGED <<platform, todo, outcome, blind, version, unit, known, enabled, wanted,
                 starts, faults>>

Fault == faults < MaxFaults /\ faults' = faults + 1

HubCrashes(h) ==
  /\ Fault
  /\ H!Stop(h)
  /\ host' = IF h = Supervised THEN "none" ELSE host
  /\ UNCHANGED <<platform, todo, outcome, blind, version, unit, known, enabled, wanted, starts>>

ServeByHand ==
  /\ Fault
  /\ H!Start(ByHand)
  /\ UNCHANGED <<platform, todo, outcome, blind, version, unit, known, enabled, wanted, starts,
                 host>>

\* Everything of the user's ends; what is registered is loaded again at login.
LogoutAndLogin ==
  /\ Fault
  /\ todo' = <<>>
  /\ outcome' = IF todo = <<>> THEN outcome ELSE "failed"
  /\ known' = IF platform = "windows" THEN known ELSE unit
  /\ wanted' = (platform = "systemd" /\ enabled /\ unit # 0)
  /\ starts' = 0
  /\ host' = "none" /\ H!StopAll
  /\ UNCHANGED <<platform, blind, version, unit, enabled>>

-----------------------------------------------------------------------------
(* install and uninstall.                                                  *)

Begin(plan) ==
  /\ todo = <<>>
  /\ todo' = plan[platform]
  /\ outcome' = "none" /\ blind' = FALSE
  /\ UNCHANGED <<platform, unit, known, enabled, wanted, starts, faults, host, hubVars>>

Install ==
  /\ version < MaxInstalls /\ version' = version + 1
  /\ Begin(InstallPlan)

Uninstall == UNCHANGED version /\ Begin(UninstallPlan)

\* The next command is made, and the one after it is due.
Command(name) ==
  /\ todo # <<>> /\ Head(todo) = name
  /\ todo' = Tail(todo)

Same == UNCHANGED <<platform, version, faults>>

\* The caller is told that a step failed, or the process is killed.  Enabling may
\* have made the links and not started the unit, disabling the other way round.
StepFails ==
  /\ Fault
  /\ todo # <<>> /\ todo' = <<>>
  /\ outcome' = "failed"
  /\ \/ Head(todo) = "enable" /\ enabled' = TRUE
     \/ Head(todo) = "disable" /\ enabled' = FALSE
     \/ UNCHANGED enabled
  /\ NothingStarts
  /\ UNCHANGED <<platform, version, blind, unit, known, wanted, starts>>

WriteUnit ==
  /\ Command("write")
  /\ unit' = version
  /\ NothingStarts /\ Same
  /\ UNCHANGED <<outcome, blind, known, enabled, wanted, starts>>

\* Mutant: the daemon is not told to read the unit again.
DaemonReloadSkipped ==
  /\ Command("reload")
  /\ outcome' = IF todo' = <<>> THEN "removed" ELSE outcome
  /\ NothingStarts /\ Same
  /\ UNCHANGED <<blind, unit, known, enabled, wanted, starts>>

DaemonReload ==
  /\ Command("reload")
  /\ known' = unit
  /\ outcome' = IF todo' = <<>> THEN "removed" ELSE outcome
  /\ NothingStarts /\ Same
  /\ UNCHANGED <<blind, unit, enabled, wanted, starts>>

\* enable --now: a unit that runs already is left running.
Enable ==
  /\ Command("enable")
  /\ enabled' = TRUE /\ wanted' = TRUE
  /\ IF Up THEN UNCHANGED starts /\ NothingStarts ELSE Counts /\ Launches
  /\ Same /\ UNCHANGED <<outcome, blind, unit, known>>

\* The unit's start limit: links made, start refused.
EnableRefused ==
  /\ todo # <<>> /\ Head(todo) = "enable" /\ ~Up /\ starts = Burst
  /\ todo' = <<>> /\ outcome' = "failed" /\ enabled' = TRUE
  /\ NothingStarts /\ Same
  /\ UNCHANGED <<blind, unit, known, wanted, starts>>

Running ==
  CASE platform = "systemd" -> enabled /\ Up
    [] platform = "launchd" -> known # 0
    [] platform = "windows" -> host # "none"

Query ==
  /\ Command("query")
  /\ outcome' = IF Running THEN "healthy" ELSE "unhealthy"
  /\ NothingStarts /\ Same
  /\ UNCHANGED <<blind, unit, known, enabled, wanted, starts>>

\* Before a load, and before a removal: a job that is not loaded is no failure,
\* nor is a command that could not be run.
Bootout ==
  /\ Command("bootout") \/ Command("unload")
  /\ \/ known' = 0 /\ Ends /\ UNCHANGED <<blind, faults>>
     \/ Fault /\ known # 0 /\ blind' = TRUE /\ NothingStarts /\ UNCHANGED known
  /\ UNCHANGED <<platform, version, outcome, unit, enabled, wanted, starts>>

\* A job that is still loaded cannot be loaded again.
Bootstrap ==
  /\ platform = "launchd"
  /\ Command("bootstrap") /\ known = 0
  /\ known' = unit
  /\ Launches /\ Same
  /\ UNCHANGED <<outcome, blind, unit, enabled, wanted, starts>>

BootstrapRefused ==
  /\ todo # <<>> /\ Head(todo) = "bootstrap" /\ known # 0
  /\ todo' = <<>> /\ outcome' = "failed"
  /\ NothingStarts /\ Same
  /\ UNCHANGED <<blind, unit, known, enabled, wanted, starts>>

CreateTask ==
  /\ Command("create")
  /\ known' = version
  /\ NothingStarts /\ Same
  /\ UNCHANGED <<outcome, blind, unit, enabled, wanted, starts>>

\* IgnoreNew: an instance that runs is left running.
RunTask ==
  /\ Command("run")
  /\ IF Up THEN NothingStarts ELSE Launches
  /\ Same /\ UNCHANGED <<outcome, blind, unit, known, enabled, wanted, starts>>

\* Its result is only advisory.
EndTask ==
  /\ Command("end")
  /\ \/ Ends /\ UNCHANGED <<blind, faults>>
     \/ Fault /\ blind' = TRUE /\ NothingStarts
  /\ UNCHANGED <<platform, version, outcome, unit, known, enabled, wanted, starts>>

\* Mutant: nobody looks whether the task was deleted.
DeleteTaskUnchecked ==
  /\ Command("delete")
  /\ known' \in {0, known}
  /\ NothingStarts /\ Same
  /\ UNCHANGED <<outcome, blind, unit, enabled, wanted, starts>>

\* What runs of a task outlives its registration.
DeleteTask ==
  /\ Command("delete")
  /\ known' = 0
  /\ NothingStarts /\ Same
  /\ UNCHANGED <<outcome, blind, unit, enabled, wanted, starts>>

\* disable --now; without a unit file it fails, which is no failure.
Disable ==
  /\ Command("disable")
  /\ IF unit = 0 THEN NothingStarts /\ UNCHANGED <<enabled, wanted>>
     ELSE enabled' = FALSE /\ wanted' = FALSE /\ Ends
  /\ Same /\ UNCHANGED <<outcome, blind, unit, known, starts>>

Remove ==
  /\ Command("remove")
  /\ unit' = 0
  /\ outcome' = IF todo' = <<>> THEN "removed" ELSE outcome
  /\ NothingStarts /\ Same
  /\ UNCHANGED <<blind, known, enabled, wanted, starts>>

CommandStep ==
  \/ WriteUnit \/ DaemonReload \/ Enable \/ EnableRefused \/ Query
  \/ Bootout \/ Bootstrap \/ BootstrapRefused
  \/ CreateTask \/ RunTask \/ EndTask \/ DeleteTask \/ Disable \/ Remove

Next ==
  \/ Install \/ Uninstall \/ CommandStep \/ StepFails
  \/ Restart \/ GiveUp \/ IntervalPasses \/ HostStep
  \/ \E h \in Hubs : HubSteps(h) \/ HubCrashes(h)
  \/ ServeByHand \/ LogoutAndLogin

\* The supervisor restarts what it keeps or gives it up, and processes that were started run.
Fairness ==
  /\ WF_vars(Restart \/ GiveUp) /\ WF_vars(HostStep)
  /\ \A h \in Hubs : WF_vars(HubSteps(h))

Spec == Init /\ [][Next]_vars /\ Fairness

-----------------------------------------------------------------------------
(* Properties.                                                             *)

\* What the supervisor would start the next time; 0 if nothing.
NextStart == IF platform = "windows" /\ known # 0 THEN unit ELSE known
Registered == NextStart # 0 /\ (platform = "systemd" => wanted)
AtLogin == CASE platform = "systemd" -> enabled /\ unit # 0
             [] platform = "launchd" -> unit # 0
             [] platform = "windows" -> known # 0

\* An install that reports a healthy service, first or repeated, after whatever
\* aborted attempts, has made it permanent: the hub is started at login, and every
\* start from then on is one of the definition it wrote.
HealthyIsPermanent ==
  todo = <<>> /\ outcome = "healthy" => AtLogin /\ NextStart = version

\* After a removal that was reported as done nothing starts the hub any more, at
\* login or otherwise, and none is left running by a supervisor; except where the
\* command that stops it did nothing without anybody looking, and for a task that
\* its trigger started again before it was deleted.
RemovedIsGone ==
  todo = <<>> /\ outcome = "removed" =>
    /\ ~AtLogin
    /\ ~blind \/ platform = "windows" => ~Registered
    /\ ~blind /\ platform # "windows" => ~Up

\* On Windows the supervised hub never runs outside the job that ends it when the
\* task is ended: the host is there while it is, from its first instruction on.
NoHubOutlivesItsHost ==
  platform = "windows" /\ at[Supervised] # "none" => host = "running"

\* A supervised hub that dies, or that found its port taken, comes back without
\* anybody's help, unless it is removed or systemd gives it up at its limit.
HubComesBack ==
  Registered ~> \E h \in Hubs : at[h] = "serving" \/ ~Registered

\* All hubs that serve present one token, with the exclusions that HubStart names.
TokenIsOne == H!TokenIsOne

\* Violated: also hubs that come up at once on different ports serve one token.
RunningServersAgree == H!RunningServersAgree

\* Violated: also a hub that fails to read the stored token serves that token.
RestartsServeTheToken == H!RestartsServeTheToken
=============================================================================
