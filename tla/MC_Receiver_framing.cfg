CONSTANTS
  CompressionEnabled = FALSE
  ServerNoContextTakeover = {FALSE}
  InflateInitCanFail = FALSE
  SizeBits = 20
  Chunks <- MCOneChunk
  PingChunks <- MCPingChunks
  Pads <- MCPads
  CloseFrames <- MCNormalClose
  BadFrames <- MCBadFrames
  PeerRsv1 = {FALSE, TRUE}
  PeerCtlRsv1 = {FALSE, TRUE}
  MaxFrames = 2
SPECIFICATION Spec
INVARIANT ErrorsJustified
INVARIANT FrameBuffered
PROPERTY EventuallySettled
CHECK_DEADLOCK FALSE
