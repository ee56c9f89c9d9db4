SPECIFICATION FairSpec
CONSTANTS
  Workers = {w1, w2, w3}
  Owner = owner
  Tasks = {t1, t2, t3}
  None = none
INVARIANTS
  TypeOK
  Attended
PROPERTIES
  EveryTaskRuns
  ShutdownOutsideWindow
  ImplementsService
