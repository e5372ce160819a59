\* Two threads claim from the ledger at once, or a session is killed in the write.
CONSTANTS
  s1 = s1
  t1 = t1
  t2 = t2
  g1 = g1
  g2 = g2
  None = None
  Sessions = {s1}
  Slots = {t1, t2}
  Gens = {g1, g2}
  Interval = 2
  Window = 1
  Bound = 1
SPECIFICATION Spec
INVARIANT BudgetHolds
