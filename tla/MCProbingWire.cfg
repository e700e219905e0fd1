SPECIFICATION Spec
CONSTANTS
  PeerCount = 2
  Ipv6Peers = {2}
  Ports = {1, 2}
  Budgets = {4}
  PortSamples = 2
  Slop = 1
  Formats <- BothFormats
  QueueCap = 1
  MaxCopies = 1
INVARIANT
  RequestsAreUnderstood
