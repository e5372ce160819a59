--------------------------- MODULE MCHttpSessions ---------------------------
(* Instances of HttpSessions for TLC. *)
EXTENDS HttpSessions, TLC

CONSTANTS r1, r2, r3

\* Two clients initialize, the second of them perhaps to make a call instead;
\* a third request is anything that follows an initialization.
ThreeAsked ==
  r1 :> {"initialize"} @@ r2 :> {"initialize", "call"} @@ r3 :> Methods \ {"initialize"}
=============================================================================
