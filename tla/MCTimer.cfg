CONSTANTS
  MaxEvents = 3
  Word = 36
  TickTime = 10
  Periods <- SomePeriods
  Callbacks = {"null", "returns", "switches"}
SPECIFICATION FairSpec
INVARIANTS TypeOK ChainInv 
PROPERTIES NeverEarly RaisedForever
