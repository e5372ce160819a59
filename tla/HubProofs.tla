------------------------------ MODULE HubProofs ------------------------------
(***************************************************************************)
(* What TLAPS proves of the hub: of HubService, for any bounds, that it      *)
(* comes up as one, supervised, and is gone when it is removed; of           *)
(* HttpSessions, for any requests, policy and bounds, that what it serves    *)
(* keeps to one lane and that its map of sessions is a SessionStore.         *)
(***************************************************************************)
EXTENDS HubService, HttpSessions, FiniteSetTheorems, TLAPS

-----------------------------------------------------------------------------
(* One token: whatever supervisors and installs do, to a hub it is a start,   *)
(* a step of its own, or its end.                                            *)

HubAction ==
  \/ UNCHANGED hubVars
  \/ H!StopAll
  \/ \E h \in Hubs : H!Start(h) \/ H!Stop(h) \/ H!HubStep(h)

LEMMA LaunchesIsHubAction == Launches \/ Ends \/ NothingStarts => HubAction
  BY DEF Launches, Ends, NothingStarts, HubAction, Hubs

LEMMA CommandIsHubAction == CommandStep => HubAction
<1>1. CASE WriteUnit \/ DaemonReload \/ EnableRefused \/ Query \/ BootstrapRefused
           \/ CreateTask \/ DeleteTask \/ Remove
  BY <1>1, LaunchesIsHubAction DEF WriteUnit, DaemonReload, EnableRefused, Query,
     BootstrapRefused, CreateTask, DeleteTask, Remove
<1>2. CASE Enable \/ Bootout \/ Bootstrap \/ RunTask \/ EndTask \/ Disable
  BY <1>2, LaunchesIsHubAction DEF Enable, Bootout, Bootstrap, RunTask, EndTask, Disable
<1> QED
  BY <1>1, <1>2 DEF CommandStep

LEMMA NextIsHubAction == [Next]_vars => HubAction
<1>1. CASE Install \/ Uninstall
  BY <1>1 DEF Install, Uninstall, Begin, HubAction
<1>2. CASE CommandStep
  BY <1>2, CommandIsHubAction
<1>3. CASE StepFails \/ Restart \/ GiveUp \/ IntervalPasses
  BY <1>3, LaunchesIsHubAction DEF StepFails, Restart, GiveUp, IntervalPasses
<1>4. CASE HostStep
  BY <1>4 DEF HostStep, HostCreates, HostResumes, HubAction, Hubs
<1>5. CASE \E h \in Hubs : HubSteps(h) \/ HubCrashes(h)
  BY <1>5 DEF HubSteps, HubCrashes, HubAction
<1>6. CASE ServeByHand \/ LogoutAndLogin
  BY <1>6 DEF ServeByHand, LogoutAndLogin, HubAction, Hubs
<1>7. CASE UNCHANGED vars
  BY <1>7 DEF vars, HubAction
<1> QED
  BY <1>1, <1>2, <1>3, <1>4, <1>5, <1>6, <1>7 DEF Next

HubTypes ==
  /\ at \in [Hubs -> H!Stages]
  /\ mine \in [Hubs -> Nat]
  /\ saved \in Nat /\ agreed \in Nat

\* One hub at most comes up at a time: binding keeps out those of its port, and those
\* of another port are excluded.  So the one that draws a token does so before any was
\* served, and what was served stays in the file.
TokenInv ==
  ~apart /\ ~unread =>
    /\ \A g, h \in Hubs : H!ComesUp(g) /\ H!ComesUp(h) => g = h
    /\ \A h \in Hubs : at[h] \in {"drew", "truncated"} => agreed = 0 /\ mine[h] # 0
    /\ \A h \in Hubs : at[h] = "serving" => agreed # 0 /\ mine[h] = agreed
    /\ agreed # 0 => saved = agreed

LEMMA HubTypesStep == HubTypes /\ HubAction => HubTypes'
<1> SUFFICES ASSUME HubTypes, HubAction PROVE HubTypes'
  OBVIOUS
<1> USE DEF HubTypes, H!Stages, H!Moves, H!Ends, H!Nothing, H!Serves, H!history
<1>1. CASE UNCHANGED hubVars
  BY <1>1 DEF hubVars
<1>2. CASE H!StopAll
  BY <1>2 DEF H!StopAll
<1>3. ASSUME NEW h \in Hubs, H!Start(h) \/ H!Stop(h) PROVE HubTypes'
  BY <1>3 DEF H!Start, H!Stop
<1>4. ASSUME NEW h \in Hubs, H!Bind(h) \/ H!PortTaken(h) PROVE HubTypes'
  BY <1>4 DEF H!Bind, H!PortTaken
<1>5. ASSUME NEW h \in Hubs, H!DrawToken(h) PROVE HubTypes'
  <2>1. (CHOOSE t \in H!Unused : TRUE) \in Nat
    BY <1>5 DEF H!DrawToken, H!Unused, H!Tokens
  <2>2. QED
    BY <1>5, <2>1 DEF H!DrawToken
<1>6. ASSUME NEW h \in Hubs, H!FindToken(h) \/ H!TruncateToken(h) \/ H!WriteToken(h)
      PROVE  HubTypes'
  BY <1>6 DEF H!FindToken, H!TruncateToken, H!WriteToken
<1> QED
  BY <1>1, <1>2, <1>3, <1>4, <1>5, <1>6 DEF HubAction, H!HubStep

LEMMA TokenStep ==
  ASSUME HubTypes, TokenInv, HubAction
  PROVE  TokenInv'
<1> USE DEF TokenInv, HubTypes, H!Stages, H!Moves, H!Ends, H!Nothing, H!Serves, H!history,
         H!ComesUp
<1>2. CASE UNCHANGED hubVars
  BY <1>2 DEF hubVars
<1>3. CASE H!StopAll
  BY <1>3 DEF H!StopAll
<1>4. ASSUME NEW h \in Hubs, H!Start(h) \/ H!Stop(h) \/ H!PortTaken(h) PROVE TokenInv'
  BY <1>4 DEF H!Start, H!Stop, H!PortTaken
<1>5. ASSUME NEW h \in Hubs, H!Bind(h) PROVE TokenInv'
  BY <1>5 DEF H!Bind, H!PortFree, H!HasPort
<1>6. ASSUME NEW h \in Hubs, H!FindToken(h) PROVE TokenInv'
  BY <1>6 DEF H!FindToken
<1>7. ASSUME NEW h \in Hubs, H!DrawToken(h) PROVE TokenInv'
  <2>1. (CHOOSE t \in H!Unused : TRUE) \in Nat \ {0}
    BY <1>7 DEF H!DrawToken, H!Unused, H!Tokens
  <2>2. QED
    BY <1>7, <2>1 DEF H!DrawToken
<1>8. ASSUME NEW h \in Hubs, H!TruncateToken(h) PROVE TokenInv'
  BY <1>8 DEF H!TruncateToken
<1>9. ASSUME NEW h \in Hubs, H!WriteToken(h) PROVE TokenInv'
  BY <1>9 DEF H!WriteToken
<1> QED
  BY <1>2, <1>3, <1>4, <1>5, <1>6, <1>7, <1>8, <1>9 DEF HubAction, H!HubStep

\* On whatever ports hubs serve, and however they crash while they come up, they serve
\* one token; unless two come up at once on different ports or the file is not read.
THEOREM OneToken == Spec => []TokenIsOne
<1>1. Init => HubTypes /\ TokenInv
  BY DEF Init, H!HubInit, TokenInv, HubTypes, H!Stages, H!ComesUp, H!Nothing
<1>2. HubTypes /\ TokenInv /\ [Next]_vars => (HubTypes /\ TokenInv)'
  BY NextIsHubAction, HubTypesStep, TokenStep
<1>3. TokenInv => TokenIsOne
  BY DEF TokenInv, TokenIsOne, H!TokenIsOne, H!ServesAgreed
<1> QED
  BY <1>1, <1>2, <1>3, PTL DEF Spec

-----------------------------------------------------------------------------
(* The host of Windows.  A launch would leave a hub outside its host only if  *)
(* it came over one that is up, and everything that launches looks first,     *)
(* except for the bootstrap of launchd.                                      *)

HostInv == HubTypes /\ NoHubOutlivesItsHost

LEMMA PlatformStays == [Next]_vars => platform' = platform
<1>1. CASE Install \/ Uninstall
  BY <1>1 DEF Install, Uninstall, Begin
<1>2. CASE WriteUnit \/ DaemonReload \/ EnableRefused \/ Query \/ BootstrapRefused
           \/ CreateTask \/ DeleteTask \/ Remove
  BY <1>2 DEF WriteUnit, DaemonReload, EnableRefused, Query, BootstrapRefused,
     CreateTask, DeleteTask, Remove, Same
<1>3. CASE Enable \/ Bootout \/ Bootstrap \/ RunTask \/ EndTask \/ Disable
  BY <1>3 DEF Enable, Bootout, Bootstrap, RunTask, EndTask, Disable, Same
<1>4. CASE StepFails \/ Restart \/ GiveUp \/ IntervalPasses \/ ServeByHand \/ LogoutAndLogin
  BY <1>4 DEF StepFails, Restart, GiveUp, IntervalPasses, ServeByHand, LogoutAndLogin
<1>5. CASE HostStep \/ \E h \in Hubs : HubSteps(h) \/ HubCrashes(h)
  BY <1>5 DEF HostStep, HubSteps, HubCrashes
<1>6. CASE UNCHANGED vars
  BY <1>6 DEF vars, serviceVars
<1> QED
  BY <1>1, <1>2, <1>3, <1>4, <1>5, <1>6 DEF Next, CommandStep

LEMMA HostStays == ASSUME HostInv, [Next]_vars PROVE NoHubOutlivesItsHost'
<1> USE DEF HostInv, NoHubOutlivesItsHost, HubTypes
<1>0. platform' = platform
  BY PlatformStays
<1>a. Launches /\ (platform # "windows" \/ ~Up) => NoHubOutlivesItsHost'
  BY <1>0 DEF Launches, Up, hubVars
<1>b. Ends => NoHubOutlivesItsHost'
  BY <1>0 DEF Ends, H!Stop, H!Ends, H!Moves, hubVars, Hubs
<1>c. NothingStarts => NoHubOutlivesItsHost'
  BY <1>0 DEF NothingStarts, hubVars
<1>1. CASE Install \/ Uninstall
  BY <1>0, <1>1 DEF Install, Uninstall, Begin, hubVars
<1>2. CASE WriteUnit \/ DaemonReload \/ EnableRefused \/ Query \/ BootstrapRefused
           \/ CreateTask \/ DeleteTask \/ Remove \/ StepFails \/ GiveUp \/ IntervalPasses
  BY <1>c, <1>2 DEF WriteUnit, DaemonReload, EnableRefused, Query, BootstrapRefused,
     CreateTask, DeleteTask, Remove, StepFails, GiveUp, IntervalPasses
<1>3. CASE Enable \/ RunTask \/ EndTask \/ Disable \/ Bootout \/ Restart
  BY <1>a, <1>b, <1>c, <1>3 DEF Enable, RunTask, EndTask, Disable, Bootout, Restart
<1>4. CASE Bootstrap
  BY <1>a, <1>4 DEF Bootstrap
<1>5. CASE HostStep
  BY <1>0, <1>5 DEF HostStep, HostCreates, HostResumes, hubVars
<1>6. ASSUME NEW h \in Hubs, HubSteps(h) PROVE NoHubOutlivesItsHost'
  BY <1>0, <1>6, ServiceAssumption DEF HubSteps, Hubs, H!HubStep, H!Bind, H!PortTaken,
     H!FindToken, H!DrawToken, H!TruncateToken, H!WriteToken, H!Serves, H!Moves, H!Ends
<1>7. ASSUME NEW h \in Hubs, HubCrashes(h) PROVE NoHubOutlivesItsHost'
  BY <1>0, <1>7, ServiceAssumption DEF HubCrashes, Hubs, H!Stop, H!Ends, H!Moves
<1>8. CASE ServeByHand \/ LogoutAndLogin
  BY <1>0, <1>8, ServiceAssumption DEF ServeByHand, LogoutAndLogin, Hubs, H!Start, H!StopAll,
     H!Moves
<1>9. CASE UNCHANGED vars
  BY <1>0, <1>9 DEF vars, serviceVars, hubVars
<1> QED
  BY <1>1, <1>2, <1>3, <1>4, <1>5, <1>6, <1>7, <1>8, <1>9 DEF Next, CommandStep

\* For any number of installs and faults, the hub runs under its host alone.
THEOREM HubStaysInItsJob == Spec => []NoHubOutlivesItsHost
<1>1. Init => HostInv
  BY DEF Init, H!HubInit, HostInv, HubTypes, NoHubOutlivesItsHost, H!Stages, H!Nothing, Hubs
<1>2. HostInv /\ [Next]_vars => HostInv'
  BY NextIsHubAction, HubTypesStep, HostStays DEF HostInv
<1>3. HostInv => NoHubOutlivesItsHost
  BY DEF HostInv
<1> QED
  BY <1>1, <1>2, <1>3, PTL DEF Spec

-----------------------------------------------------------------------------
(* Install and removal.  What is left of a plan has a name, so that the        *)
(* provers compare names and not tuples.                                     *)

ToReload == <<"reload", "enable", "query">>
ToEnable == <<"enable", "query">>
ToBootout == <<"bootout", "bootstrap", "query">>
ToBootstrap == <<"bootstrap", "query">>
ToCreate == <<"create", "run", "query">>
ToRun == <<"run", "query">>
ToQuery == <<"query">>
ToRemoveUnit == <<"remove", "reload">>
ToForget == <<"reload">>
ToDelete == <<"delete", "remove">>
ToRemove == <<"remove">>

SystemdStages ==
  {InstallSystemd, ToReload, ToEnable, ToQuery, UninstallSystemd, ToRemoveUnit, ToForget}
LaunchdStages ==
  {InstallLaunchd, ToBootout, ToBootstrap, ToQuery, UninstallLaunchd, ToRemove}
WindowsStages ==
  {InstallWindows, ToCreate, ToRun, ToQuery, UninstallWindows, ToDelete, ToRemove}

LEMMA Heads ==
  /\ InstallSystemd # <<>> /\ Head(InstallSystemd) = "write"
  /\ ToReload # <<>> /\ Head(ToReload) = "reload"
  /\ ToEnable # <<>> /\ Head(ToEnable) = "enable"
  /\ ToQuery # <<>> /\ Head(ToQuery) = "query"
  /\ UninstallSystemd # <<>> /\ Head(UninstallSystemd) = "disable"
  /\ ToRemoveUnit # <<>> /\ Head(ToRemoveUnit) = "remove"
  /\ ToForget # <<>> /\ Head(ToForget) = "reload"
  /\ InstallLaunchd # <<>> /\ Head(InstallLaunchd) = "write"
  /\ ToBootout # <<>> /\ Head(ToBootout) = "bootout"
  /\ ToBootstrap # <<>> /\ Head(ToBootstrap) = "bootstrap"
  /\ UninstallLaunchd # <<>> /\ Head(UninstallLaunchd) = "unload"
  /\ ToRemove # <<>> /\ Head(ToRemove) = "remove"
  /\ InstallWindows # <<>> /\ Head(InstallWindows) = "write"
  /\ ToCreate # <<>> /\ Head(ToCreate) = "create"
  /\ ToRun # <<>> /\ Head(ToRun) = "run"
  /\ UninstallWindows # <<>> /\ Head(UninstallWindows) = "end"
  /\ ToDelete # <<>> /\ Head(ToDelete) = "delete"
  BY DEF InstallSystemd, ToReload, ToEnable, ToQuery, UninstallSystemd, ToRemoveUnit,
     ToForget, InstallLaunchd, ToBootout, ToBootstrap, UninstallLaunchd, ToRemove,
     InstallWindows, ToCreate, ToRun, UninstallWindows, ToDelete

LEMMA Tails ==
  /\ Tail(InstallSystemd) = ToReload /\ Tail(ToReload) = ToEnable
  /\ Tail(ToEnable) = ToQuery /\ Tail(ToQuery) = <<>>
  /\ Tail(UninstallSystemd) = ToRemoveUnit /\ Tail(ToRemoveUnit) = ToForget
  /\ Tail(ToForget) = <<>>
  /\ Tail(InstallLaunchd) = ToBootout /\ Tail(ToBootout) = ToBootstrap
  /\ Tail(ToBootstrap) = ToQuery
  /\ Tail(UninstallLaunchd) = ToRemove /\ Tail(ToRemove) = <<>>
  /\ Tail(InstallWindows) = ToCreate /\ Tail(ToCreate) = ToRun /\ Tail(ToRun) = ToQuery
  /\ Tail(UninstallWindows) = ToDelete /\ Tail(ToDelete) = ToRemove
  BY DEF InstallSystemd, ToReload, ToEnable, ToQuery, UninstallSystemd, ToRemoveUnit,
     ToForget, InstallLaunchd, ToBootout, ToBootstrap, UninstallLaunchd, ToRemove,
     InstallWindows, ToCreate, ToRun, UninstallWindows, ToDelete

LEMMA Plans ==
  /\ InstallPlan["systemd"] = InstallSystemd /\ UninstallPlan["systemd"] = UninstallSystemd
  /\ InstallPlan["launchd"] = InstallLaunchd /\ UninstallPlan["launchd"] = UninstallLaunchd
  /\ InstallPlan["windows"] = InstallWindows /\ UninstallPlan["windows"] = UninstallWindows
  BY DEF InstallPlan, UninstallPlan

\* What the next command is, tells the stage, and with it the stage that follows.
LEMMA SystemdCommands ==
  ASSUME todo \in SystemdStages \union {<<>>}, NEW c, Command(c)
  PROVE  \/ c = "write" /\ todo = InstallSystemd /\ todo' = ToReload
         \/ c = "reload" /\ todo = ToReload /\ todo' = ToEnable
         \/ c = "enable" /\ todo = ToEnable /\ todo' = ToQuery
         \/ c = "query" /\ todo = ToQuery /\ todo' = <<>>
         \/ c = "disable" /\ todo = UninstallSystemd /\ todo' = ToRemoveUnit
         \/ c = "remove" /\ todo = ToRemoveUnit /\ todo' = ToForget
         \/ c = "reload" /\ todo = ToForget /\ todo' = <<>>
  BY Heads, Tails, Zenon DEF SystemdStages, Command

LEMMA LaunchdCommands ==
  ASSUME todo \in LaunchdStages \union {<<>>}, NEW c, Command(c)
  PROVE  \/ c = "write" /\ todo = InstallLaunchd /\ todo' = ToBootout
         \/ c = "bootout" /\ todo = ToBootout /\ todo' = ToBootstrap
         \/ c = "bootstrap" /\ todo = ToBootstrap /\ todo' = ToQuery
         \/ c = "query" /\ todo = ToQuery /\ todo' = <<>>
         \/ c = "unload" /\ todo = UninstallLaunchd /\ todo' = ToRemove
         \/ c = "remove" /\ todo = ToRemove /\ todo' = <<>>
  BY Heads, Tails, Zenon DEF LaunchdStages, Command

LEMMA WindowsCommands ==
  ASSUME todo \in WindowsStages \union {<<>>}, NEW c, Command(c)
  PROVE  \/ c = "write" /\ todo = InstallWindows /\ todo' = ToCreate
         \/ c = "create" /\ todo = ToCreate /\ todo' = ToRun
         \/ c = "run" /\ todo = ToRun /\ todo' = ToQuery
         \/ c = "query" /\ todo = ToQuery /\ todo' = <<>>
         \/ c = "end" /\ todo = UninstallWindows /\ todo' = ToDelete
         \/ c = "delete" /\ todo = ToDelete /\ todo' = ToRemove
         \/ c = "remove" /\ todo = ToRemove /\ todo' = <<>>
  BY Heads, Tails, Zenon DEF WindowsStages, Command


\* A unit that is not on disk does not run and is not restarted; the definition is
\* the one of the last install from its being written on, and known from its being
\* loaded on, while the install proceeds.
SystemdInv ==
  /\ todo \in SystemdStages \union {<<>>}
  /\ unit = 0 => ~wanted /\ ~Up
  /\ todo \in {InstallSystemd, ToReload, ToEnable, ToQuery} => version # 0
  /\ todo \in {ToReload, ToEnable, ToQuery} => unit = version
  /\ todo \in {ToEnable, ToQuery} => known = version
  /\ todo = ToQuery => enabled
  /\ todo = ToRemoveUnit => ~wanted /\ ~Up
  /\ todo = ToForget => unit = 0
  /\ todo = <<>> /\ outcome = "healthy" =>
       version # 0 /\ unit = version /\ known = version /\ enabled
  /\ todo = <<>> /\ outcome = "removed" => unit = 0 /\ known = 0

\* A removal whose command to stop took effect leaves nothing loaded and nothing up.
LaunchdInv ==
  /\ todo \in LaunchdStages \union {<<>>}
  /\ todo \in {InstallLaunchd, ToBootout, ToBootstrap, ToQuery} => version # 0
  /\ todo \in {ToBootout, ToBootstrap, ToQuery} => unit = version
  /\ todo = ToQuery => known = version
  /\ todo = ToRemove => blind \/ (known = 0 /\ ~Up)
  /\ todo = <<>> /\ outcome = "healthy" => version # 0 /\ unit = version /\ known = version
  /\ todo = <<>> /\ outcome = "removed" => unit = 0 /\ (blind \/ (known = 0 /\ ~Up))

WindowsInv ==
  /\ todo \in WindowsStages \union {<<>>}
  /\ todo \in {InstallWindows, ToCreate, ToRun, ToQuery} => version # 0
  /\ todo \in {ToCreate, ToRun, ToQuery} => unit = version
  /\ todo \in {ToRun, ToQuery} => known = version
  /\ todo = ToRemove => known = 0
  /\ todo = <<>> /\ outcome = "healthy" => version # 0 /\ unit = version /\ known = version
  /\ todo = <<>> /\ outcome = "removed" => unit = 0 /\ known = 0

PlanInv ==
  /\ HubTypes
  /\ version \in Nat
  /\ platform \in AllPlatforms
  /\ platform = "systemd" => SystemdInv
  /\ platform = "launchd" => LaunchdInv
  /\ platform = "windows" => WindowsInv

LEMMA UpEffects ==
  ASSUME HubTypes
  PROVE  /\ NothingStarts => Up' = Up
         /\ Ends => ~Up'
         /\ HostStep \/ ServeByHand \/ (\E h \in Hubs : HubSteps(h) \/ HubCrashes(h)) =>
              (~Up => ~Up')
         /\ LogoutAndLogin => ~Up'
<1> USE DEF HubTypes, Up, hubVars, H!Stages, H!Moves
<1>1. NothingStarts => Up' = Up
  BY DEF NothingStarts
<1>2. Ends => ~Up'
  BY DEF Ends, H!Stop, H!Ends, Hubs
<1>3. HostStep => (~Up => ~Up')
  BY DEF HostStep, HostCreates, HostResumes
<1>4. ServeByHand => (~Up => ~Up')
  BY ServiceAssumption DEF ServeByHand, H!Start, Hubs
<1>5. ASSUME NEW h \in Hubs, HubSteps(h) PROVE ~Up => ~Up'
  BY <1>5, ServiceAssumption DEF HubSteps, H!HubStep, H!Bind, H!FindToken, H!DrawToken,
     H!PortTaken, H!TruncateToken, H!WriteToken, H!Serves, H!Ends, Hubs
<1>6. ASSUME NEW h \in Hubs, HubCrashes(h) PROVE ~Up => ~Up'
  BY <1>6, ServiceAssumption DEF HubCrashes, H!Stop, H!Ends, Hubs
<1>7. LogoutAndLogin => ~Up'
  BY DEF LogoutAndLogin, H!StopAll, Hubs
<1>8. QED
  BY <1>1, <1>2, <1>3, <1>4, <1>5, <1>6, <1>7

\* What happens of itself, to no plan.
Unplanned ==
  \/ Restart \/ GiveUp \/ IntervalPasses \/ HostStep \/ ServeByHand
  \/ \E h \in Hubs : HubSteps(h) \/ HubCrashes(h)

LEMMA UnplannedEffect ==
  ASSUME Unplanned
  PROVE  /\ UNCHANGED <<todo, outcome, blind, version, unit, known, enabled>>
         /\ wanted' => wanted
         /\ KeptUp \/ ~Restart
  BY DEF Unplanned, Restart, GiveUp, IntervalPasses, HostStep, ServeByHand, HubSteps,
     HubCrashes, Launches

\* Without something that keeps it up, what is down stays down.
LEMMA DownStays ==
  ASSUME HubTypes, Unplanned, ~Up, ~KeptUp
  PROVE  ~Up'
<1>1. ~Restart
  BY UnplannedEffect
<1>2. CASE GiveUp \/ IntervalPasses
  BY <1>2, UpEffects DEF GiveUp, IntervalPasses
<1>3. CASE HostStep \/ ServeByHand \/ \E h \in Hubs : HubSteps(h) \/ HubCrashes(h)
  BY <1>3, UpEffects
<1>4. QED
  BY <1>1, <1>2, <1>3 DEF Unplanned

LEMMA SystemdKept ==
  ASSUME PlanInv, platform = "systemd", [Next]_vars
  PROVE  SystemdInv'
<1>0. HubTypes /\ SystemdInv /\ version \in Nat
  BY DEF PlanInv
<1> USE <1>0 DEF SystemdInv, SystemdStages
<1>1. CASE Install \/ Uninstall
  <2>1. todo' \in {InstallSystemd, UninstallSystemd} /\ outcome' = "none"
    BY <1>1, Plans DEF Install, Uninstall, Begin
  <2>2. UNCHANGED <<unit, wanted>> /\ Up' = Up
    BY <1>1, UpEffects DEF Install, Uninstall, Begin, NothingStarts
  <2>3. todo' = InstallSystemd => version' # 0
    BY <1>1, <2>1, Plans, Heads DEF Install, Uninstall, Begin
  <2>4. QED
    BY <2>1, <2>2, <2>3, Heads, Tails
<1>2. CASE WriteUnit
  <2>1. todo = InstallSystemd /\ todo' = ToReload
    BY <1>2, SystemdCommands DEF WriteUnit
  <2>2. QED
    BY <1>2, <2>1, Heads, Tails DEF WriteUnit, Same
<1>3. CASE DaemonReload
  <2>1. \/ todo = ToReload /\ todo' = ToEnable
        \/ todo = ToForget /\ todo' = <<>>
    BY <1>3, SystemdCommands DEF DaemonReload
  <2>2. Up' = Up
    BY <1>3, UpEffects DEF DaemonReload
  <2>3. QED
    BY <1>3, <2>1, <2>2, Heads, Tails DEF DaemonReload, Same
<1>4. CASE Enable
  <2>1. todo = ToEnable /\ todo' = ToQuery
    BY <1>4, SystemdCommands DEF Enable
  <2>2. QED
    BY <1>4, <2>1, Heads, Tails DEF Enable, Same
<1>5. CASE Query
  <2>1. todo = ToQuery /\ todo' = <<>>
    BY <1>5, SystemdCommands DEF Query
  <2>2. QED
    BY <1>5, <2>1, Heads, Tails DEF Query, Same
<1>6. CASE Disable
  <2>1. todo = UninstallSystemd /\ todo' = ToRemoveUnit
    BY <1>6, SystemdCommands DEF Disable
  <2>2. ~wanted' /\ ~Up'
    BY <1>6, UpEffects DEF Disable
  <2>3. QED
    BY <1>6, <2>1, <2>2, Heads, Tails DEF Disable, Same
<1>7. CASE Remove
  <2>1. todo = ToRemoveUnit /\ todo' = ToForget
    BY <1>7, SystemdCommands DEF Remove
  <2>2. Up' = Up
    BY <1>7, UpEffects DEF Remove
  <2>3. QED
    BY <1>7, <2>1, <2>2, Heads, Tails DEF Remove, Same
<1>8. CASE Bootout \/ Bootstrap \/ CreateTask \/ RunTask \/ EndTask \/ DeleteTask
  BY <1>8, SystemdCommands DEF Bootout, Bootstrap, CreateTask, RunTask, EndTask, DeleteTask
<1>9. CASE StepFails \/ EnableRefused \/ BootstrapRefused
  <2>1. todo' = <<>> /\ outcome' = "failed" /\ UNCHANGED <<unit, wanted>> /\ Up' = Up
    BY <1>9, UpEffects DEF StepFails, EnableRefused, BootstrapRefused, Same
  <2>2. QED
    BY <2>1, Heads
<1>10. CASE Unplanned
  <2>1. ~wanted /\ ~Up => ~wanted' /\ ~Up'
    BY <1>10, UnplannedEffect, DownStays DEF KeptUp
  <2>2. QED
    BY <1>10, <2>1, UnplannedEffect
<1>11. CASE LogoutAndLogin
  BY <1>11, UpEffects, Heads DEF LogoutAndLogin
<1>12. CASE UNCHANGED vars
  BY <1>12 DEF vars, serviceVars, hubVars, Up
<1>13. QED
  BY <1>1, <1>2, <1>3, <1>4, <1>5, <1>6, <1>7, <1>8, <1>9, <1>10, <1>11, <1>12
     DEF Next, CommandStep, Unplanned

LEMMA LaunchdKept ==
  ASSUME PlanInv, platform = "launchd", [Next]_vars
  PROVE  LaunchdInv'
<1>0. HubTypes /\ LaunchdInv /\ version \in Nat
  BY DEF PlanInv
<1> USE <1>0 DEF LaunchdInv, LaunchdStages
<1>1. CASE Install \/ Uninstall
  <2>1. todo' \in {InstallLaunchd, UninstallLaunchd} /\ outcome' = "none"
    BY <1>1, Plans DEF Install, Uninstall, Begin
  <2>2. todo' = InstallLaunchd => version' # 0
    BY <1>1, <2>1, Plans, Heads DEF Install, Uninstall, Begin
  <2>3. QED
    BY <2>1, <2>2, Heads, Tails
<1>2. CASE WriteUnit
  <2>1. todo = InstallLaunchd /\ todo' = ToBootout
    BY <1>2, LaunchdCommands DEF WriteUnit
  <2>2. QED
    BY <1>2, <2>1, Heads, Tails DEF WriteUnit, Same
<1>3. CASE Bootout
  <2>1. \/ todo = ToBootout /\ todo' = ToBootstrap
        \/ todo = UninstallLaunchd /\ todo' = ToRemove
    BY <1>3, LaunchdCommands DEF Bootout
  <2>2. blind' \/ (known' = 0 /\ ~Up')
    BY <1>3, UpEffects DEF Bootout
  <2>3. QED
    BY <1>3, <2>1, <2>2, Heads, Tails DEF Bootout
<1>4. CASE Bootstrap
  <2>1. todo = ToBootstrap /\ todo' = ToQuery
    BY <1>4, LaunchdCommands DEF Bootstrap
  <2>2. QED
    BY <1>4, <2>1, Heads, Tails DEF Bootstrap, Same
<1>5. CASE Query
  <2>1. todo = ToQuery /\ todo' = <<>>
    BY <1>5, LaunchdCommands DEF Query
  <2>2. QED
    BY <1>5, <2>1, Heads, Tails DEF Query, Same
<1>6. CASE Remove
  <2>1. todo = ToRemove /\ todo' = <<>>
    BY <1>6, LaunchdCommands DEF Remove
  <2>2. Up' = Up
    BY <1>6, UpEffects DEF Remove
  <2>3. QED
    BY <1>6, <2>1, <2>2, Heads, Tails DEF Remove, Same
<1>7. CASE \/ DaemonReload \/ Enable \/ CreateTask \/ RunTask \/ EndTask \/ DeleteTask
           \/ Disable
  BY <1>7, LaunchdCommands DEF DaemonReload, Enable, CreateTask, RunTask, EndTask,
     DeleteTask, Disable
<1>8. CASE StepFails \/ EnableRefused \/ BootstrapRefused
  <2>1. todo' = <<>> /\ outcome' = "failed"
    BY <1>8 DEF StepFails, EnableRefused, BootstrapRefused
  <2>2. QED
    BY <2>1, Heads
<1>9. CASE Unplanned
  <2>1. known = 0 /\ ~Up => ~Up'
    BY <1>9, DownStays DEF KeptUp
  <2>2. QED
    BY <1>9, <2>1, UnplannedEffect
<1>10. CASE LogoutAndLogin
  BY <1>10, UpEffects, Heads DEF LogoutAndLogin
<1>11. CASE UNCHANGED vars
  BY <1>11 DEF vars, serviceVars, hubVars, Up
<1>12. QED
  BY <1>1, <1>2, <1>3, <1>4, <1>5, <1>6, <1>7, <1>8, <1>9, <1>10, <1>11
     DEF Next, CommandStep, Unplanned

LEMMA WindowsKept ==
  ASSUME PlanInv, platform = "windows", [Next]_vars
  PROVE  WindowsInv'
<1>0. WindowsInv /\ version \in Nat
  BY DEF PlanInv
<1> USE <1>0 DEF WindowsInv, WindowsStages
<1>1. CASE Install \/ Uninstall
  <2>1. todo' \in {InstallWindows, UninstallWindows} /\ outcome' = "none"
    BY <1>1, Plans DEF Install, Uninstall, Begin
  <2>2. todo' = InstallWindows => version' # 0
    BY <1>1, <2>1, Plans, Heads DEF Install, Uninstall, Begin
  <2>3. QED
    BY <2>1, <2>2, Heads, Tails
<1>2. CASE WriteUnit
  <2>1. todo = InstallWindows /\ todo' = ToCreate
    BY <1>2, WindowsCommands DEF WriteUnit
  <2>2. QED
    BY <1>2, <2>1, Heads, Tails DEF WriteUnit, Same
<1>3. CASE CreateTask
  <2>1. todo = ToCreate /\ todo' = ToRun
    BY <1>3, WindowsCommands DEF CreateTask
  <2>2. QED
    BY <1>3, <2>1, Heads, Tails DEF CreateTask, Same
<1>4. CASE RunTask
  <2>1. todo = ToRun /\ todo' = ToQuery
    BY <1>4, WindowsCommands DEF RunTask
  <2>2. QED
    BY <1>4, <2>1, Heads, Tails DEF RunTask, Same
<1>5. CASE Query
  <2>1. todo = ToQuery /\ todo' = <<>>
    BY <1>5, WindowsCommands DEF Query
  <2>2. QED
    BY <1>5, <2>1, Heads, Tails DEF Query, Same
<1>6. CASE EndTask
  <2>1. todo = UninstallWindows /\ todo' = ToDelete
    BY <1>6, WindowsCommands DEF EndTask
  <2>2. QED
    BY <1>6, <2>1, Heads, Tails DEF EndTask
<1>7. CASE DeleteTask
  <2>1. todo = ToDelete /\ todo' = ToRemove
    BY <1>7, WindowsCommands DEF DeleteTask
  <2>2. QED
    BY <1>7, <2>1, Heads, Tails DEF DeleteTask, Same
<1>8. CASE Remove
  <2>1. todo = ToRemove /\ todo' = <<>>
    BY <1>8, WindowsCommands DEF Remove
  <2>2. QED
    BY <1>8, <2>1, Heads, Tails DEF Remove, Same
<1>9. CASE DaemonReload \/ Enable \/ Bootout \/ Bootstrap \/ Disable
  BY <1>9, WindowsCommands DEF DaemonReload, Enable, Bootout, Bootstrap, Disable
<1>10. CASE StepFails \/ EnableRefused \/ BootstrapRefused
  <2>1. todo' = <<>> /\ outcome' = "failed"
    BY <1>10 DEF StepFails, EnableRefused, BootstrapRefused
  <2>2. QED
    BY <2>1, Heads
<1>11. CASE Unplanned
  BY <1>11, UnplannedEffect
<1>12. CASE LogoutAndLogin
  BY <1>12, Heads DEF LogoutAndLogin
<1>13. CASE UNCHANGED vars
  BY <1>13 DEF vars, serviceVars
<1>14. QED
  BY <1>1, <1>2, <1>3, <1>4, <1>5, <1>6, <1>7, <1>8, <1>9, <1>10, <1>11, <1>12, <1>13
     DEF Next, CommandStep, Unplanned

LEMMA VersionCounts == ASSUME version \in Nat, [Next]_vars PROVE version' \in Nat
<1>1. CASE Install \/ Uninstall
  BY <1>1 DEF Install, Uninstall
<1>2. CASE CommandStep \/ StepFails
  BY <1>2 DEF CommandStep, StepFails, WriteUnit, DaemonReload, Enable, EnableRefused, Query,
     Bootout, Bootstrap, BootstrapRefused, CreateTask, RunTask, EndTask, DeleteTask, Disable,
     Remove, Same
<1>3. CASE Unplanned
  BY <1>3, UnplannedEffect
<1>4. CASE LogoutAndLogin \/ UNCHANGED vars
  BY <1>4 DEF LogoutAndLogin, vars, serviceVars
<1>5. QED
  BY <1>1, <1>2, <1>3, <1>4 DEF Next, Unplanned

LEMMA PlanKept == Spec => []PlanInv
<1>1. Init => PlanInv
  <2> SUFFICES ASSUME Init PROVE PlanInv
    OBVIOUS
  <2>1. HubTypes /\ ~Up
    BY DEF Init, H!HubInit, HubTypes, H!Stages, H!Nothing, Up, Hubs
  <2>2. QED
    BY <2>1, Heads, ServiceAssumption DEF Init, PlanInv, SystemdInv, LaunchdInv, WindowsInv
<1>2. PlanInv /\ [Next]_vars => PlanInv'
  <2> SUFFICES ASSUME PlanInv, [Next]_vars PROVE PlanInv'
    OBVIOUS
  <2>1. platform' = platform /\ HubTypes' /\ version' \in Nat
    BY PlatformStays, NextIsHubAction, HubTypesStep, VersionCounts DEF PlanInv
  <2>2. QED
    BY <2>1, SystemdKept, LaunchdKept, WindowsKept DEF PlanInv
<1>3. QED
  BY <1>1, <1>2, PTL DEF Spec

\* However often installs and removals were tried before, in whatever step they
\* failed, and whatever the supervisor did meanwhile: "healthy" is kept at the next
\* login, and what is started is the definition just written.
THEOREM HealthyMeansPermanent == Spec => []HealthyIsPermanent
<1>1. PlanInv => HealthyIsPermanent
  BY DEF PlanInv, HealthyIsPermanent, SystemdInv, LaunchdInv, WindowsInv, AllPlatforms,
     AtLogin, NextStart
<1>2. QED
  BY <1>1, PlanKept, PTL

\* After a removal that reported its end nothing is started at login or otherwise,
\* but for the two gaps the property names.
THEOREM RemovedMeansGone == Spec => []RemovedIsGone
<1>1. PlanInv => RemovedIsGone
  BY DEF PlanInv, RemovedIsGone, SystemdInv, LaunchdInv, WindowsInv, AllPlatforms,
     AtLogin, NextStart, Registered
<1>2. QED
  BY <1>1, PlanKept, PTL

-----------------------------------------------------------------------------
(* The sessions of the hub (HttpSessions).                                  *)

\* Every variable keeps its type.
THEOREM SessionsTypeCorrect == SessionsSpec => []SessionsTypeOK
<1>1. SessionsInit => SessionsTypeOK
  <2> SUFFICES ASSUME SessionsInit PROVE SessionsTypeOK
    OBVIOUS
  <2>1. age \in [Requests -> 0..IdleTimeout]
    BY BoundAssumption DEF SessionsInit
  <2>2. "new" \in Places /\ "ping" \in Methods /\ "none" \in Statuses
    BY DEF Places, Methods, Statuses
  <2>3. QED
    BY <2>1, <2>2 DEF SessionsInit, SessionsTypeOK
<1>2. SessionsTypeOK /\ [SessionsNext]_sessionVars => SessionsTypeOK'
  <2> SUFFICES ASSUME SessionsTypeOK, [SessionsNext]_sessionVars PROVE SessionsTypeOK'
    OBVIOUS
  <2> USE DEF SessionsTypeOK, rvars, lane, map, Goes, Answer
  <2>1. CASE Tick
    <3>1. \A i \in Requests : (IF i \in Fresh THEN age[i] + 1 ELSE age[i]) \in 0..IdleTimeout
      BY BoundAssumption DEF Fresh
    <3>2. age' \in [Requests -> 0..IdleTimeout]
      BY <2>1, <3>1 DEF Tick
    <3>3. QED
      BY <2>1, <3>2 DEF Tick
  <2>2. ASSUME NEW r \in Requests, Arrive(r) PROVE SessionsTypeOK'
    <3>1. method' \in [Requests -> Methods]
      BY <2>2, AskedAssumption DEF Arrive
    <3>2. session' \in [Requests -> Requests \union {NoId}]
      BY <2>2 DEF Arrive, Issued
    <3>3. pc' \in [Requests -> Places]
      BY <2>2 DEF Arrive, Places
    <3>4. QED
      BY <2>2, <3>1, <3>2, <3>3 DEF Arrive
  <2>3. ASSUME NEW r \in Requests, LookupStep(r) PROVE SessionsTypeOK'
    BY <2>3, BoundAssumption DEF LookupStep, Reject, LookupMisses, LookupDeletes, LookupFinds,
       NoSession, Looks, Keeps, Fresh, Places, Statuses
  <2>4. ASSUME NEW r \in Requests, LaneStep(r) \/ Deliver(r) PROVE SessionsTypeOK'
    BY <2>4 DEF LaneStep, Bypass, TakeLane, RefuseBusy, Deliver, Places, Statuses
  <2>5. ASSUME NEW r \in Requests, AdmissionStep(r) PROVE SessionsTypeOK'
    BY <2>5, BoundAssumption DEF AdmissionStep, Admit, AdmissionRefused, AdmissionFails, Admits,
       Keeps, Fresh, Places, Statuses
  <2>6. ASSUME NEW r \in Requests, HandlerReturns(r) \/ HandlerPanics(r) PROVE SessionsTypeOK'
    BY <2>6 DEF HandlerReturns, HandlerPanics, LeavesLane, Places, Statuses
  <2>7. CASE UNCHANGED sessionVars
    BY <2>7 DEF sessionVars
  <2>8. QED
    BY <2>1, <2>2, <2>3, <2>4, <2>5, <2>6, <2>7 DEF SessionsNext, HubStep
<1>3. QED
  BY <1>1, <1>2, PTL DEF SessionsSpec
-----------------------------------------------------------------------------
(* Who holds the lane and who runs under it are the same request.  That is   *)
(* what makes the lane exclusive, and what makes "busy" true.                *)

LaneInv ==
  \A r \in Requests : pc[r] = "running" /\ NeedsLane(r) <=> holder = r

LEMMA LaneCorrect == SessionsSpec => []LaneInv
<1>1. SessionsInit => LaneInv
  BY NoIdAssumption DEF SessionsInit, LaneInv
<1>2. SessionsTypeOK /\ LaneInv /\ [SessionsNext]_sessionVars => LaneInv'
  <2> SUFFICES ASSUME SessionsTypeOK, LaneInv, [SessionsNext]_sessionVars PROVE LaneInv'
    OBVIOUS
  <2> USE NoIdAssumption DEF SessionsTypeOK, LaneInv, NeedsLane, rvars, lane, map, Goes, Answer
  <2>1. CASE Tick
    BY <2>1 DEF Tick
  <2>2. ASSUME NEW r \in Requests, Arrive(r) PROVE LaneInv'
    BY <2>2 DEF Arrive
  <2>3. ASSUME NEW r \in Requests, LookupStep(r) PROVE LaneInv'
    BY <2>3 DEF LookupStep, Reject, LookupMisses, LookupDeletes, LookupFinds,
       NoSession, Looks
  <2>4. ASSUME NEW r \in Requests, Bypass(r) \/ RefuseBusy(r) \/ Deliver(r) PROVE LaneInv'
    BY <2>4 DEF Bypass, RefuseBusy, Deliver
  <2>5. ASSUME NEW r \in Requests, TakeLane(r) PROVE LaneInv'
    BY <2>5 DEF TakeLane
  <2>6. ASSUME NEW r \in Requests, AdmissionStep(r) PROVE LaneInv'
    BY <2>6 DEF AdmissionStep, Admit, AdmissionRefused, AdmissionFails, Admits
  <2>7. ASSUME NEW r \in Requests, HandlerReturns(r) \/ HandlerPanics(r) PROVE LaneInv'
    BY <2>7 DEF HandlerReturns, HandlerPanics, LeavesLane
  <2>8. CASE UNCHANGED sessionVars
    BY <2>8 DEF sessionVars
  <2>9. QED
    BY <2>1, <2>2, <2>3, <2>4, <2>5, <2>6, <2>7, <2>8 DEF SessionsNext, HubStep, LaneStep
<1>3. QED
  BY <1>1, <1>2, SessionsTypeCorrect, PTL DEF SessionsSpec

\* At most one handler that needs the serial lane runs, also after panics.
THEOREM LaneIsExclusive == SessionsSpec => []OneAtATime
<1>1. LaneInv => OneAtATime
  BY DEF LaneInv, OneAtATime
<1>2. QED
  BY <1>1, LaneCorrect, PTL

\* A request is refused as busy only while another handler holds the lane.
THEOREM BusyMeansBusy == SessionsSpec => BusyIsTrue
<1>1. SessionsTypeOK /\ LaneInv /\ [SessionsNext]_sessionVars =>
        [\A r \in Requests :
           status'[r] = "busy" /\ status[r] # "busy"
             => \E s \in Requests \ {r} : pc[s] = "running" /\ NeedsLane(s)]_sessionVars
  <2> SUFFICES ASSUME SessionsTypeOK, LaneInv, [SessionsNext]_sessionVars, NEW r \in Requests,
                      status'[r] = "busy", status[r] # "busy"
               PROVE  \E s \in Requests \ {r} : pc[s] = "running" /\ NeedsLane(s)
    OBVIOUS
  <2> USE DEF SessionsTypeOK, Goes, Answer
  <2>1. RefuseBusy(r)
    BY DEF SessionsNext, HubStep, LookupStep, LaneStep, AdmissionStep, Tick, Arrive, Deliver,
       Reject, LookupMisses, LookupDeletes, LookupFinds, NoSession, Looks, Bypass,
       TakeLane, RefuseBusy, HandlerReturns, HandlerPanics, Admit, AdmissionRefused,
       AdmissionFails, Admits, sessionVars
  <2>2. holder \in Requests /\ holder # r
    BY <2>1 DEF RefuseBusy, LaneInv
  <2>3. QED
    BY <2>2 DEF LaneInv
<1>2. QED
  BY <1>1, SessionsTypeCorrect, LaneCorrect, PTL DEF SessionsSpec, BusyIsTrue

-----------------------------------------------------------------------------
(* The map.                                                                 *)

\* Whoever finds no room adds nothing, so the map keeps to its bound.
THEOREM CapacityHolds == SessionsSpec => []SessionsBounded
<1>1. SessionsInit => SessionsBounded
  BY FS_EmptySet, BoundAssumption DEF SessionsInit, SessionsBounded
<1>2. SessionsTypeOK /\ SessionsBounded /\ [SessionsNext]_sessionVars => SessionsBounded'
  <2> SUFFICES ASSUME SessionsTypeOK, SessionsBounded, [SessionsNext]_sessionVars
               PROVE  SessionsBounded'
    OBVIOUS
  <2>1. IsFiniteSet(Fresh) /\ Cardinality(Fresh) <= MaxSessions /\ Cardinality(Fresh) \in Nat
    <3>1. Fresh \in SUBSET retained
      BY DEF Fresh
    <3>2. IsFiniteSet(Fresh) /\ Cardinality(Fresh) <= Cardinality(retained)
      BY <3>1, FS_Subset DEF SessionsBounded
    <3>3. Cardinality(Fresh) \in Nat /\ Cardinality(retained) \in Nat
      BY <3>2, FS_CardinalityType DEF SessionsBounded
    <3>4. QED
      BY <3>2, <3>3, BoundAssumption DEF SessionsBounded
  <2>2. CASE retained' = retained
    BY <2>2 DEF SessionsBounded
  <2>3. CASE retained' = Fresh
    BY <2>1, <2>3 DEF SessionsBounded
  <2>4. ASSUME NEW i, retained' = Fresh \ {i} PROVE SessionsBounded'
    <3>1. IsFiniteSet(Fresh \ {i}) /\ Cardinality(Fresh \ {i}) <= Cardinality(Fresh)
      BY <2>1, FS_RemoveElement
    <3>2. Cardinality(Fresh \ {i}) \in Nat
      BY <3>1, FS_CardinalityType
    <3>3. QED
      BY <2>1, <2>4, <3>1, <3>2, BoundAssumption DEF SessionsBounded
  <2>5. ASSUME NEW i, HasRoom, retained' = Fresh \union {i} PROVE SessionsBounded'
    <3>1. IsFiniteSet(Fresh \union {i})
            /\ Cardinality(Fresh \union {i}) <= Cardinality(Fresh) + 1
      BY <2>1, FS_AddElement
    <3>2. Cardinality(Fresh \union {i}) \in Nat
      BY <3>1, FS_CardinalityType
    <3>3. QED
      BY <2>1, <2>5, <3>1, <3>2, BoundAssumption DEF SessionsBounded, HasRoom
  <2>6. \/ retained' = retained
        \/ retained' = Fresh
        \/ \E i \in Requests \union {NoId} : retained' = Fresh \ {i}
        \/ HasRoom /\ \E i \in Requests : retained' = Fresh \union {i}
    BY DEF SessionsTypeOK, SessionsNext, HubStep, LookupStep, LaneStep, AdmissionStep, Tick, Arrive,
       Deliver, Reject, LookupMisses, LookupDeletes, LookupFinds, NoSession, Looks,
       Bypass, TakeLane, RefuseBusy, HandlerReturns, HandlerPanics, Admit,
       AdmissionRefused, AdmissionFails, Admits, Keeps, map, sessionVars
  <2>7. QED
    BY <2>2, <2>3, <2>4, <2>5, <2>6
<1>3. QED
  BY <1>1, <1>2, SessionsTypeCorrect, PTL DEF SessionsSpec

-----------------------------------------------------------------------------
(* The refinement.  A request has no status before it is answered, so it is *)
(* told one thing of sessions; only initializations without a session reach *)
(* admission; the request of a session in the map was answered.             *)

Waiting == {"new", "read", "lane", "running", "admission"}

RequestInv ==
  \A r \in Requests :
    /\ pc[r] \in Waiting \union {"dropped"} => status[r] = "none"
    /\ pc[r] = "new" => method[r] = "ping" /\ session[r] = NoId
    /\ pc[r] = "admission" => method[r] # "refused" /\ session[r] = NoId
    /\ r \in retained => pc[r] \notin Waiting

LEMMA RequestCorrect == SessionsSpec => []RequestInv
<1>1. SessionsInit => RequestInv
  BY DEF SessionsInit, RequestInv, Waiting
<1>2. SessionsTypeOK /\ RequestInv /\ [SessionsNext]_sessionVars => RequestInv'
  <2> SUFFICES ASSUME SessionsTypeOK, RequestInv, [SessionsNext]_sessionVars PROVE RequestInv'
    OBVIOUS
  <2> USE DEF SessionsTypeOK, RequestInv, Waiting, rvars, lane, map, Goes, Answer
  <2>1. CASE Tick
    BY <2>1 DEF Tick
  <2>2. ASSUME NEW r \in Requests, Arrive(r) PROVE RequestInv'
    BY <2>2 DEF Arrive
  <2>3. ASSUME NEW r \in Requests, LookupStep(r) PROVE RequestInv'
    BY <2>3 DEF LookupStep, Reject, LookupMisses, LookupDeletes, LookupFinds,
       NoSession, Looks, Keeps, Fresh
  <2>4. ASSUME NEW r \in Requests, LaneStep(r) \/ Deliver(r) PROVE RequestInv'
    BY <2>4 DEF LaneStep, Bypass, TakeLane, RefuseBusy, Deliver
  <2>5. ASSUME NEW r \in Requests, AdmissionStep(r) PROVE RequestInv'
    BY <2>5 DEF AdmissionStep, Admit, AdmissionRefused, AdmissionFails, Admits,
       Keeps, Fresh
  <2>6. ASSUME NEW r \in Requests, HandlerReturns(r) \/ HandlerPanics(r) PROVE RequestInv'
    BY <2>6 DEF HandlerReturns, HandlerPanics
  <2>7. CASE UNCHANGED sessionVars
    BY <2>7 DEF sessionVars
  <2>8. QED
    BY <2>1, <2>2, <2>3, <2>4, <2>5, <2>6, <2>7 DEF SessionsNext, HubStep
<1>3. QED
  BY <1>1, <1>2, SessionsTypeCorrect, PTL DEF SessionsSpec

\* What the map keeps is alive, and only what was used starts afresh.
LEMMA KeepsFresh ==
  ASSUME SessionsTypeOK, NEW keys \in SUBSET Requests, NEW used, keys \ used \subseteq Fresh,
         Keeps(keys, used)
  PROVE  /\ Fresh' = keys
         /\ IdleTime' = [i \in Requests |-> IF i \in keys \ used THEN age[i] ELSE 0]
<1>1. \A i \in keys : age'[i] < IdleTimeout
  <2> SUFFICES ASSUME NEW i \in keys PROVE age'[i] < IdleTimeout
    OBVIOUS
  <2>1. CASE i \in used
    BY <2>1, BoundAssumption DEF Keeps
  <2>2. CASE i \notin used
    BY <2>2 DEF Keeps, Fresh
  <2>3. QED
    BY <2>1, <2>2
<1>2. Fresh' = keys
  BY <1>1 DEF Fresh, Keeps
<1>3. QED
  BY <1>2 DEF IdleTime, Keeps

\* Both modules count with the same operator.
LEMMA SameCardinality == \A S : Store!Cardinality(S) = Cardinality(S)
BY DEF Cardinality, Store!Cardinality

\* HttpSessions implements SessionStore.
THEOREM SessionsImplementStore == SessionsSpec => ImplementsStore
<1>1. SessionsInit => Store!SInit
  <2> SUFFICES ASSUME SessionsInit PROVE Store!SInit
    OBVIOUS
  <2>1. Fresh = {}
    BY DEF SessionsInit, Fresh
  <2>2. IdleTime = [i \in Requests |-> 0]
    BY <2>1 DEF IdleTime
  <2>3. Named = [r \in Requests |-> NoId] /\ Told = [r \in Requests |-> "none"]
    BY DEF SessionsInit, Named, Told
  <2>4. QED
    BY <2>1, <2>2, <2>3 DEF Store!SInit
<1>2. SessionsTypeOK /\ RequestInv /\ [SessionsNext]_sessionVars => [Store!SNext]_(Store!svars)
  <2> SUFFICES ASSUME SessionsTypeOK, RequestInv, [SessionsNext]_sessionVars
               PROVE  Store!SNext \/ UNCHANGED Store!svars
    OBVIOUS
  <2> USE DEF SessionsTypeOK, RequestInv, Waiting, rvars, lane, map, Goes, Answer
  <2>1. ASSUME UNCHANGED <<retained, age>> PROVE UNCHANGED <<Fresh, IdleTime>>
    BY <2>1 DEF Fresh, IdleTime
  <2>2. ASSUME UNCHANGED <<method, session>> PROVE UNCHANGED Named
    BY <2>2 DEF Named
  <2>3. ASSUME UNCHANGED status PROVE UNCHANGED Told
    BY <2>3 DEF Told
  <2>4. ASSUME NEW r \in Requests, NEW s \in {"opened", "closed", "unknown", "full"},
               pc[r] \in Waiting, Answer(r, s)
        PROVE  Store!Tell(r, s)
    BY <2>4 DEF Told, Store!Tell
  <2>5. ASSUME NEW r \in Requests, NEW s, pc[r] \in Waiting, Answer(r, s),
               s \notin {"opened", "closed", "unknown", "full"}
        PROVE  UNCHANGED Told
    BY <2>5 DEF Told
  <2>6. ASSUME NEW keys \in SUBSET Fresh, Keeps(keys, {})
        PROVE  Fresh' = keys /\ IdleTime' = [i \in Requests |-> IF i \in keys THEN age[i] ELSE 0]
    <3>1. keys \in SUBSET Requests /\ keys \ {} = keys
      BY <2>6 DEF Fresh
    <3>2. QED
      BY <2>6, <3>1, KeepsFresh
  <2>7. CASE Tick
    <3>1. Fresh' = {i \in Fresh : IdleTime[i] + 1 < IdleTimeout}
      BY <2>7 DEF Tick, Fresh, IdleTime
    <3>2. IdleTime' = [i \in Requests |-> IF i \in Fresh' THEN IdleTime[i] + 1 ELSE 0]
      BY <2>7, <3>1 DEF Tick, Fresh, IdleTime
    <3>3. QED
      BY <2>2, <2>3, <2>7, <3>1, <3>2 DEF Tick, Store!SNext, Store!Pass
  <2>8. ASSUME NEW r \in Requests, Arrive(r) PROVE Store!SNext \/ UNCHANGED Store!svars
    <3>1. PICK i \in Requests \union {NoId} : Named' = [Named EXCEPT ![r] = i]
      <4>1. PICK i \in Issued \union {NoId, r} : session' = [session EXCEPT ![r] = i]
        BY <2>8 DEF Arrive
      <4>2. Named' = [Named EXCEPT ![r] = IF method'[r] = "refused" THEN NoId ELSE i]
        BY <2>8, <4>1 DEF Arrive, Named
      <4>3. QED
        BY <4>1, <4>2 DEF Issued
    <3>2. UNCHANGED <<Fresh, IdleTime, Told>>
      BY <2>1, <2>3, <2>8 DEF Arrive
    <3>3. Named[r] = NoId
      BY <2>8 DEF Arrive, Named
    <3>4. CASE i = NoId
      BY <3>1, <3>2, <3>3, <3>4 DEF Store!svars, Named
    <3>5. CASE i \in Requests
      BY <3>1, <3>2, <3>3, <3>5 DEF Store!SNext, Store!Ask
    <3>6. QED
      BY <3>4, <3>5
  <2>9. ASSUME NEW r \in Requests, LookupStep(r) PROVE Store!SNext \/ UNCHANGED Store!svars
    <3>1. UNCHANGED Named
      BY <2>2, <2>9 DEF LookupStep, Reject, LookupMisses, LookupDeletes, LookupFinds,
         NoSession, Looks
    <3>2. Looks(r) => Named[r] = session[r]
      BY DEF Looks, Named
    <3>3. CASE Reject(r) \/ NoSession(r)
      <4>1. UNCHANGED Told
        BY <2>3, <2>5, <3>3 DEF Reject, NoSession, Looks
      <4>2. QED
        BY <2>1, <3>1, <3>3, <4>1 DEF Reject, NoSession, Looks, Store!svars
    <3>4. CASE LookupMisses(r)
      <4>1. Store!Tell(r, "unknown")
        BY <2>4, <3>4 DEF LookupMisses, Looks
      <4>2. QED
        BY <2>6, <3>1, <3>2, <3>4, <4>1 DEF LookupMisses, IdleTime, Store!SNext, Store!Miss
    <3>5. CASE LookupDeletes(r)
      <4>1. Store!Tell(r, "closed")
        BY <2>4, <3>5 DEF LookupDeletes, Looks
      <4>2. session[r] \in Requests /\ Keeps(Fresh \ {session[r]}, {})
        BY <3>5 DEF LookupDeletes, Fresh
      <4>3. /\ Fresh' = Fresh \ {session[r]}
            /\ IdleTime' = [i \in Requests |-> IF i \in Fresh \ {session[r]} THEN age[i] ELSE 0]
        BY <2>6, <4>2 DEF Fresh
      <4>4. IdleTime' = [IdleTime EXCEPT ![session[r]] = 0]
        BY <4>2, <4>3 DEF IdleTime
      <4>5. QED
        BY <3>1, <3>2, <3>5, <4>1, <4>3, <4>4 DEF LookupDeletes, Store!SNext, Store!Close
    <3>6. CASE LookupFinds(r)
      <4>1. UNCHANGED Told
        BY <2>3, <2>5, <3>6 DEF LookupFinds, Looks
      <4>2. session[r] \in Requests /\ session[r] \in Fresh /\ Keeps(Fresh, {session[r]})
        BY <3>6 DEF LookupFinds, Fresh
      <4>3. /\ Fresh' = Fresh
            /\ IdleTime' = [i \in Requests |-> IF i \in Fresh \ {session[r]} THEN age[i] ELSE 0]
        BY <4>2, KeepsFresh DEF Fresh
      <4>4. IdleTime' = [IdleTime EXCEPT ![session[r]] = 0]
        BY <4>2, <4>3 DEF IdleTime
      <4>5. QED
        BY <3>1, <3>2, <3>6, <4>1, <4>2, <4>3, <4>4 DEF LookupFinds, Store!SNext, Store!Use
    <3>7. QED
      BY <2>9, <3>3, <3>4, <3>5, <3>6 DEF LookupStep
  <2>10. ASSUME NEW r \in Requests, AdmissionStep(r) PROVE Store!SNext \/ UNCHANGED Store!svars
    <3>1. UNCHANGED Named
      BY <2>2, <2>10 DEF AdmissionStep, Admit, AdmissionRefused, AdmissionFails, Admits
    <3>2. pc[r] = "admission" /\ Named[r] = NoId /\ r \notin retained
      BY <2>10 DEF AdmissionStep, Admit, AdmissionRefused, AdmissionFails, Admits, Named
    <3>3. CASE AdmissionFails(r)
      <4>1. UNCHANGED Told
        BY <3>2, <3>3 DEF AdmissionFails, Told
      <4>2. QED
        BY <2>6, <3>1, <3>3, <4>1 DEF AdmissionFails, IdleTime, Store!svars
    <3>4. CASE AdmissionRefused(r)
      <4>1. Store!Tell(r, "full")
        BY <2>4, <3>2, <3>4 DEF AdmissionRefused
      <4>2. ~Store!HasRoom
        BY <3>4, SameCardinality DEF AdmissionRefused, HasRoom, Store!HasRoom
      <4>3. QED
        BY <2>6, <3>1, <3>2, <3>4, <4>1, <4>2
           DEF AdmissionRefused, IdleTime, Store!SNext, Store!Refuse
    <3>5. CASE Admit(r)
      <4>1. Store!Tell(r, "opened")
        BY <2>4, <3>2, <3>5 DEF Admit
      <4>2. /\ Fresh' = Fresh \union {r}
            /\ IdleTime' = [i \in Requests |->
                              IF i \in (Fresh \union {r}) \ {r} THEN age[i] ELSE 0]
        <5>1. Keeps(Fresh \union {r}, {r}) /\ Fresh \union {r} \in SUBSET Requests
          BY <3>5 DEF Admit, Fresh
        <5>2. (Fresh \union {r}) \ {r} \subseteq Fresh
          OBVIOUS
        <5>3. QED
          BY <5>1, <5>2, KeepsFresh
      <4>3. UNCHANGED IdleTime
        BY <3>2, <4>2 DEF IdleTime, Fresh
      <4>4. Store!HasRoom
        BY <3>5, SameCardinality DEF Admit, HasRoom, Store!HasRoom
      <4>5. Store!Open(r)
        BY <3>1, <3>2, <4>1, <4>2, <4>3, <4>4 DEF Store!Open
      <4>6. QED
        BY <4>5 DEF Store!SNext
    <3>6. QED
      BY <2>10, <3>3, <3>4, <3>5 DEF AdmissionStep
  <2>11. ASSUME NEW r \in Requests,
                LaneStep(r) \/ Deliver(r) \/ HandlerReturns(r) \/ HandlerPanics(r)
         PROVE  UNCHANGED Store!svars
    <3>1. UNCHANGED Told
      BY <2>3, <2>5, <2>11 DEF LaneStep, Bypass, TakeLane, RefuseBusy, Deliver,
         HandlerReturns, HandlerPanics
    <3>2. UNCHANGED <<Fresh, IdleTime, Named>>
      BY <2>1, <2>2, <2>11 DEF LaneStep, Bypass, TakeLane, RefuseBusy, Deliver,
         HandlerReturns, HandlerPanics
    <3>3. QED
      BY <3>1, <3>2 DEF Store!svars
  <2>12. CASE UNCHANGED sessionVars
    BY <2>1, <2>2, <2>3, <2>12 DEF sessionVars, Store!svars
  <2>13. QED
    BY <2>7, <2>8, <2>9, <2>10, <2>11, <2>12 DEF SessionsNext, HubStep
<1>3. QED
  BY <1>1, <1>2, SessionsTypeCorrect, RequestCorrect, PTL
     DEF SessionsSpec, ImplementsStore, Store!SSpec
=============================================================================
