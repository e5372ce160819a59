\* A session goes on after its owner was retired and replaced.
CONSTANTS
  s1 = s1
  t1 = t1
  g1 = g1
  g2 = g2
  None = None
  Sessions = {s1}
  Slots = {t1}
  Gens = {g1, g2}
  Interval = 2
  Window = 3
  Bound = 2
SPECIFICATION Spec
SYMMETRY Symmetry
PROPERTY RefusedOwnerIsRegistered
