\* One call, three owners one after the other: liveness needs no symmetry.
CONSTANTS
  m1 = m1
  p1 = p1
  p2 = p2
  p3 = p3
  None = None
  Calls = {m1}
  Procs = {p1, p2, p3}
SPECIFICATION FairSpec
INVARIANTS
  AtMostOnce
  HonestRefusal
PROPERTY CallsEnd
