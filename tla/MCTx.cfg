SPECIFICATION FairTxSpec
CONSTANTS
  Txs = {t1, t2, t3}
  NULL = NULL
  MaxId = 3
INVARIANTS
  TypeOK
  WriterExclusion
  ListOrder
  GcSafepoint
  SnapshotIsCommitted
PROPERTIES
  SomeWriterProceeds
