CONSTANTS
  N <- MCN
  MaxMsgs <- MCMaxMsgs
SPECIFICATION Spec
INVARIANT ClientsFreed
INVARIANT FrameInScope
INVARIANT DestroyedOffLoop
PROPERTY AllCasesComplete
PROPERTY AbsRefined
