SPECIFICATION Spec
CONSTANTS
  Threads = {t1, t2}
  Locks = {l1, l2}
  None = None
  Dirty = FALSE
  Plans <- FreePlans
  t1 = t1
  t2 = t2
  t3 = t3
  l1 = l1
  l2 = l2
  l3 = l3
INVARIANT DeadlockIsCycle
