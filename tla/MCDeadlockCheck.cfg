SPECIFICATION FairSpec
CONSTANTS
  Threads = {t1, t2, t3}
  Locks = {l1, l2, l3}
  None = None
  Dirty = FALSE
  Plans <- MCPlans
  t1 = t1
  t2 = t2
  t3 = t3
  l1 = l1
  l2 = l2
  l3 = l3
INVARIANTS TypeOK TablesAreSound PathFits CyclesAreFound ReportsAreCycles
PROPERTY RecordedDeadlockReported
