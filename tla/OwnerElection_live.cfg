\* One session, three owner processes: liveness needs no symmetry.
CONSTANTS
  c1 = c1
  p1 = p1
  p2 = p2
  p3 = p3
  None = None
  Clients = {c1}
  Procs = {p1, p2, p3}
  MaxBuild = 1
SPECIFICATION FairSpec
PROPERTIES
  RegistrationRestored
  DeadOwnerReplaced
