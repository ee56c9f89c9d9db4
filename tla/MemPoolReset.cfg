SPECIFICATION Spec
CONSTANTS
  PoolSize = 72
  Sizes = {64}
  Addrs = {}
  NULL = null
  MaxBlocks = 9
  Base <- Adjacent
  HeadNexts = {"null"}
PROPERTY ResetRecycles
