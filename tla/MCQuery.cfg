SPECIFICATION Spec
CONSTANTS
  Scripts <- MCScripts
  WorldsFor <- MCWorldsFor
  Globals = {"G", "H"}
  ChunkSize = 1
  Stride = 2
  BlockSize = 2
  Entities = {0, 1, 2, 3}
INVARIANTS
  QueryTypeOK
  PlanFitsSystem
  RunsOnMatches
  TargetsFirst
  BarriersSeparate
  Lockstep
PROPERTIES
  Finishes
  BarrierSpec
CHECK_DEADLOCK FALSE
