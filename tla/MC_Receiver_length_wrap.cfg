CONSTANTS
  CompressionEnabled = FALSE
  ServerNoContextTakeover = {FALSE}
  InflateInitCanFail = FALSE
  SizeBits = 17
  Chunks <- MCOneChunk
  PingChunks <- MCPingChunks
  Pads <- MCNoPads
  CloseFrames <- MCNormalClose
  BadFrames <- MCHugeFrames
  PeerRsv1 = {FALSE}
  PeerCtlRsv1 = {FALSE}
  MaxFrames = 2
SPECIFICATION Spec
INVARIANT FrameBuffered
CHECK_DEADLOCK FALSE
