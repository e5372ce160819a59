\* A rebuild of the same version lands while an owner starts.
CONSTANTS
  c1 = c1
  c2 = c2
  p1 = p1
  p2 = p2
  None = None
  Clients = {c1, c2}
  Procs = {p1, p2}
  MaxBuild = 2
SPECIFICATION Spec
SYMMETRY Symmetry
PROPERTY StaleOwnerRetired
