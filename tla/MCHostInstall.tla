---------------------------- MODULE MCHostInstall ----------------------------
(* Instances of HostInstall for TLC: a server for every host, and one that is *)
(* withheld from Claude Code at repository scope.                             *)
EXTENDS HostInstall, TLC

CONSTANTS hub, local

AllFiles == Files
MCApproved == {hub}
MCRepoHosts == hub :> {"codex"} @@ local :> Hosts
=============================================================================
