CONSTANTS
  UBits <- MCUBits
  ChunkSize <- MCChunk
  Msgs <- MCSyncMsgs
  NoCtxModes = {FALSE, TRUE}
  MaxMsgs = 3
INIT InflInit
NEXT InflNext
INVARIANT RoundTrip
\* The receiver stops after a 1007, and the server after MaxMsgs messages.
CHECK_DEADLOCK FALSE
