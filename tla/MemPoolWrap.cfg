SPECIFICATION Spec
CONSTANTS
  PoolSize = 64
  Sizes = {24}
  Addrs = {}
  NULL = null
  MaxBlocks = 3
  Base <- Adjacent
  HeadNexts = {"null"}
INVARIANT InBounds
