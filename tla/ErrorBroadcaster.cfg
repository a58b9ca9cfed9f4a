\* One tab, two server tasks, three operations on one error per category.
SPECIFICATION FairSpec
CONSTANTS
  t1 = t1
  t2 = t2
  Task = {t1, t2}
  Client = {c1}
  File = {f1}
  Message = {m1}
  Capacity = 2
  MaxOps = 3
INVARIANTS
  StaleErrorsAreOwed
PROPERTIES
  SurfacedChangesAreOwed
  ClearedErrorsGoAway
