SPECIFICATION PoolSpec
CONSTANTS
  Txs = {t1, t2, t3}
  NULL = NULL
  MaxId = 5
  Refs = {r1}
  MaxBlock = 6
  Blocks <- MCBlocks
  Liberties = {"free_pinned"}
SYMMETRY Symmetry
INVARIANTS
  SnapshotReadable
