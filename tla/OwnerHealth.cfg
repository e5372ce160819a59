\* One session with two dispatch threads that share its memo and race for the
\* ledger; killed and started again at will.
CONSTANTS
  s1 = s1
  t1 = t1
  t2 = t2
  g1 = g1
  g2 = g2
  None = None
  Sessions = {s1}
  Slots = {t1, t2}
  Gens = {g1, g2}
  Interval = 2
  Window = 1
  Bound = 1
SPECIFICATION FairSpec
INVARIANTS
  OnlySickRetired
  BoundedRetirements
PROPERTIES
  SickOwnerNoticed
