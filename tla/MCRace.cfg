SPECIFICATION Spec
CONSTANTS
  Contexts <- AllContexts
  MaxTimeout = 2
  MaxAttempts = 64
  OwnLimit <- Limits
  Overhead = 1
  AdvisorLimit = 1
INVARIANTS
  BudgetHandedDown
  NoneSkipped
  OverrunBounded
PROPERTIES
  WinIsKept
  Termination
  KeepsPromise
