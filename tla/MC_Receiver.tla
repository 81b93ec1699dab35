----------------------------- MODULE MC_Receiver -----------------------------
(***************************************************************************)
(* Inputs of the receiver runs.  Payload bytes: 65 ("A"), 195 (lead byte   *)
(* of a 2-byte character), 169 (continuation byte), so that a character    *)
(* can straddle a fragment boundary and a stray byte is invalid text.      *)
(***************************************************************************)
EXTENDS ReceiverSystem

MCChunks == {<<65>>, <<195>>, <<169>>}
MCPingChunks == {<<65>>}
\* 0: 7-bit length; 130: 16-bit; 70000: 64-bit.
MCPads == {0, 130, 70000}
MCNoPads == {0}
MCNoFrames == {}
MCOneChunk == {<<65>>}
MCTwoChunks == {<<65>>, <<169>>}

\* One well-formed close frame, for the runs about other frames.
MCNormalClose == {[len |-> 2, code |-> 1000, data |-> <<>>]}

\* Close frames: empty, 1 byte, valid and invalid codes, a reason that is
\* not UTF-8.
MCCloseFrames ==
  {[len |-> 0, code |-> 0, data |-> <<>>],
   [len |-> 1, code |-> 0, data |-> <<>>],
   [len |-> 3, code |-> 1000, data |-> <<65>>],
   [len |-> 2, code |-> 1005, data |-> <<>>],
   [len |-> 2, code |-> 1011, data |-> <<>>],
   [len |-> 2, code |-> 1012, data |-> <<>>],
   [len |-> 2, code |-> 2999, data |-> <<>>],
   [len |-> 2, code |-> 4999, data |-> <<>>],
   [len |-> 2, code |-> 5000, data |-> <<>>],
   [len |-> 3, code |-> 1000, data |-> <<169>>]}

\* Frames breaking a header rule, and a binary frame one byte longer than
\* std::vector::max_size() whose length does not wrap.
Ping(data) == Frame(TRUE, FALSE, 9, Len(data), data, 0)
MCBadFrames ==
  {[Ping(<<65>>) EXCEPT !.rsv2 = TRUE],
   [Ping(<<65>>) EXCEPT !.rsv3 = TRUE],
   [Ping(<<65>>) EXCEPT !.mask = TRUE],
   [Ping(<<65>>) EXCEPT !.fin = FALSE],
   [Ping(<<65>>) EXCEPT !.len = 126],
   [Ping(<<65>>) EXCEPT !.op = 3],
   [Ping(<<65>>) EXCEPT !.op = 11],
   Frame(TRUE, FALSE, 2, VecMaxSize + 1, <<65>>, 0)}

\* A data frame whose 64-bit length has its top bit set: header_len + len
\* wraps around in size_t.
MCHugeFrames ==
  {Frame(TRUE, FALSE, 2, SizeMod - 6, <<65>>, 0)}
=============================================================================
