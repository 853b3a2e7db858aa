CONSTANTS
  Columns = 2
  Rows = 3
  TabSize = 2
  Codes <- SomeCodes
  Texts <- SomeTexts
  Failures <- Error
  Origins <- SomeOrigins
  Levels = {0, 5, 9}
  Colours = {"light_red"}
  Modes = {"disabled", "underline"}
SPECIFICATION Spec
INVARIANTS TypeOK 
PROPERTIES PrintkRestores IsTerminal
CHECK_DEADLOCK FALSE
