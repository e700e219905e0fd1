CONSTANTS
  UINT_MAX = 131071
  HexWidth = 5
  XURY_LOG_LINE_MAX = 16
  PEER_ID_SIZE = 2
  ENDPOINT_IP_MAX = 46
  MAX_DEPTH = 3
  MAX_LEN = 4
  LP_MAX = 3
  LittleEndian = TRUE
  PORT_MAX = 12
  MAX_SAMPLES = 4
  PortsMax = 4
  FramesMax = 5
  BufferSizes = {0, 3, 6}
  Tools <- ToolsAll
  Values <- Values1
  Lengths <- Lengths1
  Compareds <- Compareds1
  Labels <- Labels1
  Fields8 <- Fields1
  Configs <- Configs1
  cfg <- cfg1
  SIZE_MAX = 31
  RAND_MAX = 15
  REJECT_LIMIT = 2
SPECIFICATION Session
INVARIANTS
  WrittenIsReadBack
  OrderAgreesWithHash
  StackHoldsInnermost
  BufferIsReadBack
  PreparedIsValid
  LinearIsPredicted
CHECK_DEADLOCK FALSE
