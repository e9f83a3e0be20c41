SPECIFICATION Spec
CONSTANTS
  Scripts <- FreeCascade
  WorldsFor <- FreeWorldsFor
  Globals = {"G", "H"}
  ChunkSize = 1
  Stride = 2
  BlockSize = 2
  Entities = {0, 1, 2, 3}
INVARIANTS
  ArgumentsExist
CHECK_DEADLOCK FALSE
