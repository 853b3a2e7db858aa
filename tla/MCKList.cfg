CONSTANTS
  MaxNodes = 4
  MaxData = 3
SPECIFICATION Spec
INVARIANTS TypeOK NothingFreedIsListed ContentsAsDocumented
CHECK_DEADLOCK FALSE
