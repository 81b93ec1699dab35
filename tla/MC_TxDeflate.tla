---------------------------- MODULE MC_TxDeflate ----------------------------
(* A 10-bit uInt.  Message lengths: empty, short, 40 bytes below 2^UBits   *)
(* (deflateBound() + slack crosses it, so avail_out is truncated) and 5    *)
(* bytes above it (avail_in is truncated too).                             *)
EXTENDS TxDeflate

MCUBits == 10
MCLens == {0, 300, 2 ^ MCUBits - 40, 2 ^ MCUBits + 5}
MCMaxMsgs == 3

=============================================================================
