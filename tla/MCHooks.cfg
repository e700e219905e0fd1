SPECIFICATION HooksSpec
CONSTANTS
  Engine = Engine
  Workers = {w1}
  Setups <- SomeSetups
  MaxDepth = 3
INVARIANTS
  FlagHasHolder
  GuardHoldsAlone
