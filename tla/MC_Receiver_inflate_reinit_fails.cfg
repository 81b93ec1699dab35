CONSTANTS
  CompressionEnabled = TRUE
  ServerNoContextTakeover = {TRUE}
  InflateInitCanFail = TRUE
  SizeBits = 20
  Chunks <- MCOneChunk
  PingChunks <- MCPingChunks
  Pads <- MCNoPads
  CloseFrames <- MCNormalClose
  BadFrames <- MCNoFrames
  PeerRsv1 = {TRUE}
  PeerCtlRsv1 = {FALSE}
  MaxFrames = 3
SPECIFICATION Spec
INVARIANT MessagesIntact
CHECK_DEADLOCK FALSE
