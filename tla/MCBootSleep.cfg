CONSTANTS
  PAGE_SIZE = 64
  Address = 4096
  KernelStart = 256
  KernelEnd = 420
  INITIAL_HEAP_SIZE = 256
  TAR_HEADER_SIZE = 8
  INITRD_MAX_FILES = 2
  FILENAME_MAX = 2
  Word = 65536
  Environments <- One
  Symtab <- SomeSymtab
  PagingMemory = 64
  Lines = {0, 1}
  Exceptions = {14}
  Garbage = {0, 32, 40, 300}
  MaxTaken = 1
  MaxStack = 8
  MaxWork = 0
SPECIFICATION FairSpec
PROPERTY SleepEnds
CHECK_DEADLOCK FALSE
