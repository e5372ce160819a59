----------------------------- MODULE MCHubService ----------------------------
(* Instances of HubService for TLC.                                           *)
EXTENDS HubService
=============================================================================
