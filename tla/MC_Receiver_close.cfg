CONSTANTS
  CompressionEnabled = FALSE
  ServerNoContextTakeover = {FALSE}
  InflateInitCanFail = FALSE
  SizeBits = 20
  Chunks <- MCOneChunk
  PingChunks <- MCPingChunks
  Pads <- MCNoPads
  CloseFrames <- MCCloseFrames
  BadFrames <- MCNoFrames
  PeerRsv1 = {FALSE}
  PeerCtlRsv1 = {FALSE}
  MaxFrames = 2
SPECIFICATION Spec
INVARIANT CloseEchoesPeer
CHECK_DEADLOCK FALSE
