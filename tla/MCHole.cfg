SPECIFICATION Spec
CONSTANTS
  Timeouts <- Timeouts02
  Interval = 2
  Slop = 1
  Held = 1
  Open <- OpenPeers
  QueueCap = 1
  MaxNow = 5
  MaxAttempts = 1
  MaxNoise = 1
PROPERTIES
  SuccessIsHeard
  PunctualPunchWins
  Terminates
  KeepsPromise
