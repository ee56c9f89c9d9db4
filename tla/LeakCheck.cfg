CONSTANTS
  Threads = {t1, t2}
  Blocks = {b1, b2}
  NULL = null
  MaxOpen = 3
SPECIFICATION Spec
INVARIANTS TypeOK FilesAreLeaks LeaksAreListed FreedOnce SwitchesRestored
CHECK_DEADLOCK FALSE
