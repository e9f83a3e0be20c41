SPECIFICATION Spec
CONSTANTS
  RegionSize = 8
  LargeSize = 2
  PageSize = 3
  BlockSize = 1
  FrameMax = 2
  Sizes = {1, 3}
  PoolLive = 3
  StackLive = 3
INVARIANTS
  MemoryTypeOK
  PagesSound
  PoolBlocksSound
  StackBlocksSound
