--------------------------- MODULE MC_TLSContext ----------------------------
(* Three WebSocketTLSContext objects and three SSL_CTX allocations.        *)
EXTENDS TLSContext

CONSTANTS o1, o2, o3, c1, c2, c3

MCObjects == {o1, o2, o3}
MCCtxs == {c1, c2, c3}

=============================================================================
