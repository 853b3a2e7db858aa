CONSTANTS
  PAGE_SIZE = 64
  Address = 4096
  KernelStart = 256
  KernelEnd = 420
  INITIAL_HEAP_SIZE = 256
  TAR_HEADER_SIZE = 64
  INITRD_MAX_FILES = 2
  FILENAME_MAX = 2
  Word = 65536
  Environments <- Usual
  Symtab <- SomeSymtab
  PagingMemory = 64
  Lines = {0, 1, 9, 15}
  Exceptions = {0, 14, 30}
  Garbage = {0, 32, 40, 300}
  MaxTaken = 3
  MaxStack = 8
  MaxWork = 2
SPECIFICATION Spec
INVARIANTS LinesServed HeapPlaced RamdiskRead
PROPERTIES ResumesIntact
CHECK_DEADLOCK FALSE
