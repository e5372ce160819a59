\* A command is spawned while a capture sets up its pipe.
CONSTANTS
  c1 = c1
  c2 = c2
  r1 = r1
  p = p
  q = q
  lane = lane
  NoLane = NoLane
  Nobody = Nobody
  Server = Server
  Runs = {r1}
  Lanes = {lane}
  Procs = {p, q}
  Child <- MCChild
  Helper <- MCHelper
  LaneOf <- MCLaneOf
  Exclusive = {c1, c2}
  Captures = {c1, c2}
SPECIFICATION Spec
CHECK_DEADLOCK FALSE
INVARIANT RestoredIsAtEnd
