CONSTANTS
  CompressionEnabled = TRUE
  ServerNoContextTakeover = {FALSE, TRUE}
  InflateInitCanFail = FALSE
  SizeBits = 20
  Chunks <- MCTwoChunks
  PingChunks <- MCPingChunks
  Pads <- MCNoPads
  CloseFrames <- MCNormalClose
  BadFrames <- MCNoFrames
  PeerRsv1 = {FALSE, TRUE}
  PeerCtlRsv1 = {FALSE, TRUE}
  MaxFrames = 3
SPECIFICATION Spec
INVARIANT MessagesIntact
INVARIANT ErrorsJustified
INVARIANT InflaterInSync
CHECK_DEADLOCK FALSE
