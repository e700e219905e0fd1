SPECIFICATION Spec
CONSTANTS
  Sockets = {1, 2}
  Timeout = 2
  Slop = 1
  QueueCap = 2
  MaxNow = 4
  MaxAttempts = 2
  MaxNoise = 1
PROPERTIES
  SuccessIsMapped
  NatpmpAnswerIsHeard
  Terminates
  KeepsPromise
