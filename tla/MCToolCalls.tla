---------------------------- MODULE MCToolCalls ----------------------------
(* Instances of ToolCalls for TLC: two captures that share a lane, and an    *)
(* external command that runs beside them and may be announced in the lane.  *)
EXTENDS ToolCalls, TLC

CONSTANTS c1, c2, r1, lane, p, q

MCChild == r1 :> p
MCHelper == r1 :> q
MCLaneOf == c1 :> lane @@ c2 :> lane @@ r1 :> lane
=============================================================================
