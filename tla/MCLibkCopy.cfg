CONSTANTS
  SizeMax = 31
  Base = 2
  MaxFill = 150
  MaxCompare = 2
  Chars <- TwoCases
  MaxText = 3
  Numbers = {0, 1, 7, 10, 29}
  Bases = {2, 10, 16}
  NumberMax = 6
  Directives <- AllDirectives
  MaxParts = 2
  MaxOut = 6
  Items = {1, 3, 7}
SPECIFICATION Spec
INVARIANT CopyStaysInside
CHECK_DEADLOCK FALSE
