SPECIFICATION Spec
CONSTANTS
  PoolSize = 72
  Sizes = {16, 64, 100}
  Addrs = {a1, a2}
  NULL = null
  MaxBlocks = 8
  Base <- Adjacent
  HeadNexts = {"null", "wild"}
SYMMETRY Symmetry
INVARIANTS
  TypeOK
  InBounds
  Disjoint
  LargeAccounted
  SkippedHaveFailed
