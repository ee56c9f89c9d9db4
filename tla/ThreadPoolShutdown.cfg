SPECIFICATION FairSpec
CONSTANTS
  Workers = {w1, w2}
  Owner = owner
  Tasks = {t1}
  None = none
PROPERTY ShutdownCompletes
