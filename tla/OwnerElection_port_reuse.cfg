\* The kernel may hand a dead owner's port to its successor.
CONSTANTS
  c1 = c1
  c2 = c2
  p1 = p1
  p2 = p2
  None = None
  Clients = {c1, c2}
  Procs = {p1, p2}
  MaxBuild = 1
SPECIFICATION Spec
SYMMETRY Symmetry
PROPERTY HandedOutOwnersAnswer
