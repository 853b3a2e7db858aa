CONSTANTS
  FileLines <- SomeLines
  MaxLines = 4
  MAX_SYMBOLS = 3
  ADDRESS_MAX = 2
  Addresses = 256
  CodeStart = 2
  CodeEnd = 4
  Wanted <- SomeNames
SPECIFICATION SymbolsSpec
INVARIANTS  SearchesRight
CHECK_DEADLOCK FALSE
