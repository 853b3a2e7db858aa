CONSTANTS
  PageSize = 32
  PageEntries = 4
  Tables = 4
  ByteBits = 1
  WordBytes = 4
  Alignment = 4
  FramesCount = 48
  KernelEnd = 32
  DirectorySize = 60
  HeapMapEnd = 10
  InitialHeap = 4
  MinimumHeap = 1
  BlockListPages = 1
  HeapSize = 20
  AllocSizes = {20}
  ListAllocated = TRUE
SPECIFICATION Spec
INVARIANTS TypeOK IdentityMapped MapCoversItsTables FramesExclusive HeapBacked
CHECK_DEADLOCK FALSE
