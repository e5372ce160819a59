\* A call, a shutdown and two health queries; the process exits.
CONSTANTS
  c1 = c1
  d1 = d1
  h1 = h1
  h2 = h2
  Conns = {c1, d1, h1, h2}
  Shutdowns = {d1}
  Probes = {h1, h2}
SPECIFICATION DrainFairSpec
CHECK_DEADLOCK FALSE
INVARIANTS
  DrainedNotCut
  OneHookOut
PROPERTY LifetimeBounded
