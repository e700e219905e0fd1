SPECIFICATION Spec
CONSTANTS
  UINT32_MAX = 3
  Kinds <- AllKinds
  Targets <- SomeTargets
  Timeouts = {0, 2}
  Sockets = {1}
  Ports = {1, 2}
  Slop = 1
  QueueCap = 2
  MaxNow = 4
  MaxCalls = 2
  MaxNoise = 1
PROPERTIES
  SuccessIsAnswered
  PunctualAnswerWins
  Terminates
  KeepsPromise
