CONSTANTS
  o1 = o1
  o2 = o2
  o3 = o3
  c1 = c1
  c2 = c2
  c3 = c3
  Null = Null
  Objects <- MCObjects
  Ctxs <- MCCtxs
INIT TLSInit
NEXT TLSNext
INVARIANT TypeOK
INVARIANT NoDoubleFree
INVARIANT SoleOwner
\* Every object may be destroyed, after which nothing can happen.
CHECK_DEADLOCK FALSE
