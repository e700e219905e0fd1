SPECIFICATION Spec
CONSTANTS
  UINT32_MAX = 1000
  HTTP_HDR_CAP = 6
  Peers <- MCPeers
  LocalPorts = {0, 1}
  Replies <- MCReplies
  Gateways <- MCGateways
  Lengths <- MCLengths
  Statuses = {200, 204}
  UPNP_DESC_CAP = 12
  UPNP_SOAP_CAP = 2
  CONTROL_CAP = 2
  SSDP_MX = 2
  SLICE = 1
  UPNP_HTTP_TIMEOUT = 1
  MaxCalls = 2
  MaxReplies = 2
  Slop = 1
PROPERTIES ResponseIsRead SuccessIsUndenied Terminates KeepsPromise
