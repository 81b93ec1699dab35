------------------------------ MODULE RxInflate ------------------------------
(***************************************************************************)
(* The inflate loop of WebSocketReceiver::rxInflate (src/unnamed/part_003  *)
(* 217-300) and the per-message reset around it (rxMaybeResetAfterMessage, *)
(* rxResetInflate), as the decompressMessage callers use them.             *)
(*                                                                         *)
(* Data is abstracted to lengths.  A compressed message from the server is *)
(* [len |-> L, out |-> M, end |-> e]: L payload bytes (trailer stripped)   *)
(* that inflate to M bytes; e is "sync" (the sender flushed with           *)
(* Z_SYNC_FLUSH, as libwsc and the spec do), "final" (the last block has   *)
(* BFINAL set, which RFC 7692 7.2.3.3 allows) or "corrupt" (Z_DATA_ERROR). *)
(* A cut-off input yields the share of the output its bytes encode.  The   *)
(* 4096-byte tmp chunk is ChunkSize bytes and uInt has UBits bits.         *)
(* ended: the inflater has reached the end of a deflate stream and has not *)
(* been reset since.  delivered: per message, what the sinks should get    *)
(* (M bytes, or a 1007) and what they got.                                *)
(***************************************************************************)
EXTENDS Naturals, Sequences

CONSTANTS
  UBits,          \* bits of uInt
  ChunkSize,      \* sizeof(tmp)
  Msgs,           \* compressed messages the server may send
  NoCtxModes,     \* values _cfg.server_no_context_takeover may take
  MaxMsgs         \* messages per behaviour

VARIABLES noCtx, ended, failed, delivered

vars == <<noCtx, ended, failed, delivered>>

\* static_cast<uInt>(x).
ToUInt(x) == x % (2 ^ UBits)

\* Output the first a of the L input bytes yield.
Yield(m, a) == IF a >= m.len THEN m.out ELSE (m.out * a) \div m.len

\* The while (true) loop, from one inflate(&inflate_stream, Z_SYNC_FLUSH)
\* call on: out bytes appended so far, left bytes the consumed input still
\* yields, inLeft = avail_in; fin: the stream ends once left is out;
\* corrupt: the data is bad.  A call fills tmp as far as it can and
\* consumes the input once everything it yields is out.  It returns
\* Z_BUF_ERROR when it can make no progress.  Z_BUF_ERROR with avail_in
\* left (the stall, line 270) needs avail_out = 0 and cannot happen with a
\* fresh tmp.
Ret(p, done, inLeft, fin, corrupt) ==
  CASE corrupt                 -> "Z_DATA_ERROR"
    [] fin /\ done             -> "Z_STREAM_END"
    [] p = 0 /\ inLeft = 0     -> "Z_BUF_ERROR"
    [] OTHER                   -> "Z_OK"

\* Mutant: Z_BUF_ERROR treated as a failure even when the input is used up.
RECURSIVE InflateLoopStall(_, _, _, _, _)
InflateLoopStall(out, left, inLeft, fin, corrupt) ==
  LET p       == IF left < ChunkSize THEN left ELSE ChunkSize
      done    == p = left
      inAfter == IF done THEN 0 ELSE inLeft
      ret     == Ret(p, done, inLeft, fin, corrupt)
  IN CASE ret \in {"Z_DATA_ERROR", "Z_BUF_ERROR"} -> [ok |-> FALSE, out |-> out, ended |-> FALSE]
       [] ret = "Z_STREAM_END" -> [ok |-> TRUE, out |-> out + p, ended |-> TRUE]
       [] inAfter = 0 /\ p # ChunkSize -> [ok |-> TRUE, out |-> out + p, ended |-> FALSE]
       [] OTHER -> InflateLoopStall(out + p, left - p, inAfter, fin, corrupt)

RECURSIVE InflateLoop(_, _, _, _, _)
InflateLoop(out, left, inLeft, fin, corrupt) ==
  LET p       == IF left < ChunkSize THEN left ELSE ChunkSize
      done    == p = left
      inAfter == IF done THEN 0 ELSE inLeft
      ret     == Ret(p, done, inLeft, fin, corrupt)
  IN CASE ret = "Z_DATA_ERROR" -> [ok |-> FALSE, out |-> out, ended |-> FALSE]
       [] ret = "Z_BUF_ERROR"  -> [ok |-> TRUE, out |-> out, ended |-> FALSE]
       [] ret = "Z_STREAM_END" -> [ok |-> TRUE, out |-> out + p, ended |-> TRUE]
       [] inAfter = 0 /\ p # ChunkSize -> [ok |-> TRUE, out |-> out + p, ended |-> FALSE]
       [] OTHER -> InflateLoop(out + p, left - p, inAfter, fin, corrupt)

\* rxInflate(in, in_len, out) with an initialised inflater (the
\* pass-through without one is modelled in WebSocketReceiver): inflateReset
\* under server_no_context_takeover, avail_in = uInt(in_len + 4) for the
\* payload and the re-appended trailer, and the loop.  A stream that has
\* ended answers Z_STREAM_END at once, with no output, whatever the input.
RxInflateCall(m) ==
  LET stale == ended /\ ~noCtx
      a     == ToUInt(m.len + 4)
  IN InflateLoop(0, IF stale THEN 0 ELSE Yield(m, a), a,
                 stale \/ m.end = "final", ~stale /\ m.end = "corrupt")

\* What reaches the sinks: a message of n bytes, or onRxProtocolError(1007).
Bytes(n) == [err |-> FALSE, len |-> n]
Err1007  == [err |-> TRUE, len |-> 0]

\* What the sinks must receive for m: its inflated bytes, or 1007.
Want(m) == IF m.end = "corrupt" THEN Err1007 ELSE Bytes(m.out)

\* handleDataFrame, a whole compressed binary message: decompressMessage;
\* 1007 on failure (the connection is then terminating); otherwise the
\* message goes to onRxBinary, and rxMaybeResetAfterMessage re-creates the
\* inflater under server_no_context_takeover (rxResetInflate; its failure
\* is the inflate_reinit_fails run of MC_Receiver).
ReceiveCompressed(m) ==
  /\ ~failed /\ Len(delivered) < MaxMsgs
  /\ LET r == RxInflateCall(m) IN
       /\ delivered' = Append(delivered,
                        [want |-> Want(m), got |-> IF r.ok THEN Bytes(r.out) ELSE Err1007])
       /\ failed' = ~r.ok
       /\ ended' = CASE ~r.ok -> ended
                      [] noCtx -> FALSE
                      [] OTHER -> r.ended
  /\ UNCHANGED noCtx

InflInit ==
  /\ noCtx \in NoCtxModes
  /\ ended = FALSE /\ failed = FALSE
  /\ delivered = <<>>

InflNext == \E m \in Msgs : ReceiveCompressed(m)

-----------------------------------------------------------------------------
(* Properties.                                                             *)

\* inflate(deflate(m)) = m (spec 8) and a real inflate error fails the
\* connection with 1007 (spec 4.D): every compressed message reaches the
\* sinks whole, whatever its inflated length is against the 4096-byte tmp
\* chunk, and a corrupt one is reported, under either context-takeover
\* setting and across messages.
RoundTrip == \A k \in 1..Len(delivered) : delivered[k].got = delivered[k].want

=============================================================================
