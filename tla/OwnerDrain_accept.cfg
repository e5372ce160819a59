\* No descriptor is ever free for another connection.
CONSTANTS
  c1 = c1
  Conns = {c1, d1}
  d1 = d1
  h1 = h1
  h2 = h2
  Shutdowns = {d1}
  Probes = {}
SPECIFICATION DrainFairSpec
CHECK_DEADLOCK FALSE
PROPERTY IdleOwnerEnds
