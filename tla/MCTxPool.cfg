SPECIFICATION PoolSpec
CONSTANTS
  Txs = {t1, t2, t3}
  NULL = NULL
  MaxId = 4
  Refs = {r1}
  MaxBlock = 6
  Blocks <- MCBlocks
  Liberties = {"gc_after_free"}
SYMMETRY Symmetry
INVARIANTS
  PoolTypeOK
  SnapshotReadable
  WalkKeepsSnapshot
  MemorySafe
  ChainsSound
PROPERTIES
  ImplementsStore
