---------------------------- MODULE MC_RxInflate ----------------------------
(* tmp holds 4 bytes and uInt has 10 bits.  Messages inflate to 0, 3, 4,  *)
(* 8 and 9 bytes: empty, under one chunk, exactly one and two chunks (the  *)
(* loop ends on Z_BUF_ERROR), and one byte past two; plus a corrupt one.   *)
EXTENDS RxInflate

MCUBits == 10
MCChunk == 4

Msg(l, o, e) == [len |-> l, out |-> o, end |-> e]

\* What a server flushing with Z_SYNC_FLUSH sends.
MCSyncMsgs ==
  {Msg(2, 0, "sync"), Msg(3, 3, "sync"), Msg(2, 4, "sync"), Msg(3, 8, "sync"),
   Msg(5, 9, "sync"), Msg(3, 5, "corrupt")}

\* A payload whose length plus the 4 trailer bytes passes 2^UBits.
MCWrapMsgs == {Msg(2 ^ MCUBits - 2, 9, "sync")}

=============================================================================
