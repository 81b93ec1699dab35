CONSTANTS
  UBits <- MCUBits
  Lens <- MCLens
  MaxMsgs <- MCMaxMsgs
INIT TxInit
NEXT TxNext
INVARIANT TxIntact
INVARIANT StreamsAccounted
