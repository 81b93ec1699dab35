-------------------------- MODULE WebSocketReceiver --------------------------
(***************************************************************************)
(* WebSocketReceiver (WebSocketReceiver.cpp): the inbound half of a libwsc *)
(* connection.  onData runs on the event-loop thread whenever bytes reach  *)
(* the input evbuffer; each iteration of its loop peeks a frame header,   *)
(* validates it, waits for the whole frame and dispatches it to a handler *)
(* that assembles fragments, inflates permessage-deflate messages,        *)
(* validates UTF-8 and calls the sinks (IWebSocketSinks).                  *)
(*                                                                         *)
(* Data abstraction.  A frame is a record carrying its header bits, its   *)
(* payload length field `len` and the payload's meaning `data` (a short   *)
(* byte sequence; `len` may exceed Len(data) so that the 16- and 64-bit   *)
(* length encodings occur).  The evbuffer holds the frames `buf` wholly   *)
(* received and the first `part` bytes of Head(wire), the next frame on   *)
(* the socket.  A deflated byte is a token remembering which server      *)
(* compression context produced it (Deflated), so that inflating it with *)
(* another context fails as it does in zlib.                              *)
(* size_t and the 64-bit extended length are SizeBits wide (64 in the     *)
(* build, scaled down so that TLC's integers hold them).                  *)
(***************************************************************************)
EXTENDS Integers, Sequences, SequencesExt, Utf8

CONSTANTS
  CompressionEnabled,       \* permessage-deflate negotiated: _cfg.enabled
                            \* and _sinks.rxCompressionEnabled()
  ServerNoContextTakeover,  \* values _cfg.server_no_context_takeover may take
  InflateInitCanFail,       \* inflateInit2 may fail (Z_MEM_ERROR) in rxResetInflate
  SizeBits                  \* width of size_t and of the 64-bit length field

ASSUME CompressionEnabled \in BOOLEAN /\ ServerNoContextTakeover \subseteq BOOLEAN
ASSUME InflateInitCanFail \in BOOLEAN /\ SizeBits \in 17..30

SizeMod == 2 ^ SizeBits

VARIABLES
  wire,                 \* frames on the socket not yet wholly in the evbuffer
  part,                 \* bytes of Head(wire) already in the evbuffer
  buf,                  \* frames wholly in the evbuffer, oldest first
  readable,             \* bytes arrived that no read callback has seen yet
  rxActive,             \* onData is running: its loop owns the evbuffer
  msgInProgress,        \* message_in_progress
  compressedInProgress, \* compressed_message_in_progress
  fragOpcode,           \* fragmented_opcode
  fragMsg,              \* fragmented_message
  utf8,                 \* utf8Validator: bytes of an incomplete sequence
  inflInit,             \* inflate_initialized
  inflCtx,              \* the inflate window: messages inflated since reset
  serverNoCtx,          \* _cfg.server_no_context_takeover, fixed at negotiation
  events,               \* the calls made on the sinks, in order
  overread              \* onData passed the wait at line 363 with fewer
                        \* bytes buffered than the frame has
                        \* than it occupies (its payload read out of bounds)

rxVars == <<wire, part, buf, readable, rxActive, msgInProgress,
            compressedInProgress, fragOpcode, fragMsg, utf8, inflInit,
            inflCtx, serverNoCtx, events, overread>>
\* Everything but the socket, which the server writes.
rxLocal == <<part, buf, readable, rxActive, msgInProgress, compressedInProgress,
             fragOpcode, fragMsg, utf8, inflInit, inflCtx, serverNoCtx, events,
             overread>>
fragVars == <<msgInProgress, compressedInProgress, fragOpcode, fragMsg>>
inflVars == <<inflInit, inflCtx, serverNoCtx>>

-----------------------------------------------------------------------------
(* Frames, as onData decodes them.                                         *)

IsControl(op) == op >= 8                    \* (opcode & 0x08) != 0
KnownOpcodes == {0, 1, 2, 8, 9, 10}

\* The 7-bit length field of the minimal encoding, and the header length.
Len7(f) == IF f.len <= 125 THEN f.len ELSE IF f.len <= 65535 THEN 126 ELSE 127
HeaderLen(f) == CASE Len7(f) = 126 -> 4 [] Len7(f) = 127 -> 10 [] OTHER -> 2
WireLen(f) == HeaderLen(f) + f.len

\* Mutants: onData waiting for one byte more than the frame; need without
\* the header.
NeedPlusOne(f) == (HeaderLen(f) + f.len + 1) % SizeMod
NeedNoHeader(f) == f.len % SizeMod

\* need = header_len + payload_len, computed in size_t.
Need(f) == (HeaderLen(f) + f.len) % SizeMod

\* evbuffer_get_length(buf), and the frame whose header onData peeks.
DataLen == FoldLeft(LAMBDA n, f : n + WireLen(f), part, buf)
Cur == IF buf # <<>> THEN Head(buf) ELSE Head(wire)

\* The header checks made before the length is read.
RsvOK(f) == ~((~CompressionEnabled /\ f.rsv1) \/ f.rsv2 \/ f.rsv3)
\* Mutants: the MASK check dropped; the FIN check applied to data frames.
HeaderOKNoMask(f) == RsvOK(f) /\ ~(IsControl(f.op) /\ ~f.fin)
HeaderOKNoCtlTest(f) == RsvOK(f) /\ f.fin /\ ~f.mask
HeaderOK(f) == RsvOK(f) /\ ~(IsControl(f.op) /\ ~f.fin) /\ ~f.mask
\* The extended length is buffered (data_len >= header_len + 2 or + 8).
ExtLenReady(f) == DataLen >= HeaderLen(f)
ControlLenOK(f) == ~(IsControl(f.op) /\ f.len > 125)

\* A deflated byte b produced by the server's context number h.
Deflated(b, h) == 256 * (h + 1) + b
Deflate(s, h) == [i \in 1..Len(s) |-> Deflated(s[i], h)]

-----------------------------------------------------------------------------
(* Sinks (IWebSocketSinks) and the compression helpers.                    *)

Event(k, c, d) == [kind |-> k, code |-> c, data |-> d]
Emit(e) == events' = Append(events, e)
ProtocolError(c) == Emit(Event("error", c, <<>>))   \* onRxProtocolError

\* rxIsTerminating(): the connection failed, the peer's close arrived, or
\* an exception left onData (the loop thread catches it and fails the
\* connection: spec 7, propagation policy).
Terminating == \E i \in 1..Len(events) : events[i].kind \in {"error", "close", "exception"}

\* rxInflate: passes the input through when inflate is not initialised;
\* inflateReset first under server_no_context_takeover; fails (Z_DATA_ERROR)
\* when a byte was deflated with another context than the inflater's.
\* Mutant: the inflate_initialized test inverted.
RxInflateInitInverted(in) ==
  IF ~CompressionEnabled \/ inflInit
  THEN [ok |-> TRUE, out |-> in, ctx |-> inflCtx]
  ELSE [ok |-> FALSE, out |-> <<>>, ctx |-> inflCtx]
RxInflate(in) ==
  IF ~CompressionEnabled \/ ~inflInit
  THEN [ok |-> TRUE, out |-> in, ctx |-> inflCtx]
  ELSE LET c == IF serverNoCtx THEN 0 ELSE inflCtx
       IN IF \A i \in 1..Len(in) : in[i] \div 256 = c + 1
          THEN [ok |-> TRUE, out |-> [i \in 1..Len(in) |-> in[i] % 256],
                ctx |-> c + 1]
          ELSE [ok |-> FALSE, out |-> <<>>, ctx |-> c]

\* inflateInit2 succeeds, or may also fail.
InitOutcomes == IF InflateInitCanFail THEN BOOLEAN ELSE {TRUE}

\* rxMaybeResetAfterMessage after a successful inflate leaving context ctx:
\* rxResetInflate ends the stream and re-creates it, which may fail.
\* Mutant: the inflater reset after every message, takeover or not.
RxMaybeResetAlways(ctx) ==
  IF CompressionEnabled /\ inflInit
  THEN {[init |-> ok, ctx |-> 0] : ok \in InitOutcomes}
  ELSE {[init |-> inflInit, ctx |-> ctx]}

RxMaybeResetAfterMessage(ctx) ==
  IF CompressionEnabled /\ serverNoCtx /\ inflInit
  THEN {[init |-> ok, ctx |-> 0] : ok \in InitOutcomes}
  ELSE {[init |-> inflInit, ctx |-> ctx]}

\* The inflate state after a compressed message inflated as r.
AfterInflate(r) ==
  /\ \E s \in RxMaybeResetAfterMessage(r.ctx) :
        inflInit' = s.init /\ inflCtx' = s.ctx /\ UNCHANGED serverNoCtx

\* handleCloseFrame: the (code, reason) passed to onRxClose.
\* Mutant: 1011 (internal error) treated as invalid.
ValidCloseCodeTo1010(c) ==
  \/ c \in 1000..1010 /\ c \notin {1004, 1005, 1006}
  \/ c \in 3000..4999
ValidCloseCode(c) ==
  \/ c \in 1000..1011 /\ c \notin {1004, 1005, 1006}
  \/ c \in 3000..4999
CloseReply(len, code, reason) ==
  LET r           == SubSeq(reason, 1, IF len - 2 > 123 THEN 123 ELSE len - 2)
      protocolErr == \/ len > 125 \/ len = 1
                     \/ len >= 2 /\ ~ValidCloseCode(code)
                     \/ len > 2 /\ ~IsValidUtf8(r)
  IN CASE protocolErr -> [code |-> 1002, reason |-> <<>>]
       [] len = 0     -> [code |-> 1000, reason |-> <<>>]
       [] OTHER       -> [code |-> code, reason |-> r]

-----------------------------------------------------------------------------
(* onData: one step per iteration of its loop.                              *)

\* A read callback runs onData over the evbuffer.
ReadCallback ==
  /\ readable /\ ~rxActive
  /\ readable' = FALSE /\ rxActive' = TRUE
  /\ UNCHANGED <<wire, part, buf, fragVars, utf8, inflVars, events, overread>>

\* The loop returns (terminating) or breaks to wait for more bytes: fewer
\* than 2 bytes, the extended length not yet in, or fewer than need.
LoopExits ==
  IF Terminating \/ DataLen < 2 THEN TRUE
  ELSE HeaderOK(Cur) /\ (~ExtLenReady(Cur) \/ (ControlLenOK(Cur) /\ DataLen < Need(Cur)))

OnDataYield ==
  /\ rxActive
  /\ LoopExits
  /\ rxActive' = FALSE
  /\ UNCHANGED <<wire, part, buf, readable, fragVars, utf8, inflVars, events,
                 overread>>

\* A header that fails a check: onRxProtocolError(1002) and return.
OnDataRejectHeader ==
  /\ rxActive /\ ~Terminating /\ DataLen >= 2
  /\ \/ ~HeaderOK(Cur)
     \/ ExtLenReady(Cur) /\ ~ControlLenOK(Cur)
  /\ ProtocolError(1002)
  /\ rxActive' = FALSE
  /\ UNCHANGED <<wire, part, buf, readable, fragVars, utf8, inflVars, overread>>

\* The frame is checked and `need` bytes are buffered: onData goes on
\* past the wait to evbuffer_pullup(buf, need).
PastWait ==
  /\ rxActive /\ ~Terminating /\ DataLen >= 2
  /\ HeaderOK(Cur) /\ ExtLenReady(Cur) /\ ControlLenOK(Cur)
  /\ DataLen >= Need(Cur)

\* Whether the frame was wholly buffered when onData went past the wait.
Overread == overread' = (DataLen < WireLen(Cur))

\* std::vector<uint8_t>::max_size(): PTRDIFF_MAX.
VecMaxSize == SizeMod \div 2 - 1

\* payload.reserve(payload_len) succeeds, and the payload is copied out.
FrameReady == PastWait /\ Cur.len <= VecMaxSize

\* payload.reserve(payload_len) beyond max_size() throws std::length_error:
\* no handler runs, nothing is drained, and onData is left by the exception.
OnReserveThrows ==
  /\ PastWait /\ Cur.len > VecMaxSize
  /\ Overread
  /\ Emit(Event("exception", 0, <<>>))
  /\ rxActive' = FALSE
  /\ UNCHANGED <<wire, part, buf, readable, fragVars, utf8, inflVars>>

\* evbuffer_drain(buf, need) after the handler returns.
Drain ==
  /\ Overread
  /\ IF buf # <<>>
     THEN buf' = Tail(buf) /\ UNCHANGED <<wire, part>>
     ELSE wire' = Tail(wire) /\ part' = 0 /\ UNCHANGED buf

\* The default branch of the opcode switch returns without draining.
OnUnknownOpcode ==
  /\ FrameReady /\ Cur.op \notin KnownOpcodes
  /\ Overread
  /\ ProtocolError(1002)
  /\ rxActive' = FALSE
  /\ UNCHANGED <<wire, part, buf, readable, fragVars, utf8, inflVars>>

-----------------------------------------------------------------------------
(* handleContinuationFrame.  Text of an uncompressed message is validated *)
(* chunk by chunk; at FIN the message is inflated if compressed, validated *)
(* and delivered, and the fragment state reset.                            *)

\* Mutant: compressed chunks validated as UTF-8 before inflating.
ContChunkCheckedAlways == fragOpcode = 1
ContChunkChecked == ~compressedInProgress /\ fragOpcode = 1
\* fragmented_message.insert(end, payload, payload + payload_len).
\* Mutant: the chunk assigned instead of appended.
AppendChunkOverwrite == Cur.data
AppendChunk == fragMsg \o Cur.data
\* Mutant: the validator restarted on every chunk.
ContUtf8Reset == Utf8Feed(<<>>, Cur.data)
ContUtf8 == Utf8Feed(utf8, Cur.data)

\* "Reset fragmentation state" at the end of a delivered message.
\* Mutant: fragmented_opcode left as it was.
ResetFragmentsKeepOpcode ==
  /\ msgInProgress' = FALSE /\ compressedInProgress' = FALSE
  /\ fragMsg' = <<>> /\ fragOpcode' = fragOpcode
ResetFragments ==
  /\ msgInProgress' = FALSE /\ compressedInProgress' = FALSE
  /\ fragMsg' = <<>> /\ fragOpcode' = 0

\* A continuation without an initial frame.
OnOrphanContinuation ==
  /\ FrameReady /\ Cur.op = 0 /\ ~msgInProgress
  /\ ProtocolError(1002)
  /\ Drain
  /\ UNCHANGED <<readable, rxActive, fragVars, utf8, inflVars>>

\* An uncompressed text chunk that is not valid UTF-8.
OnContinuationBadUtf8 ==
  /\ FrameReady /\ Cur.op = 0 /\ msgInProgress
  /\ ContChunkChecked /\ ~ContUtf8.ok
  /\ fragMsg' = AppendChunk
  /\ utf8' = <<>>
  /\ ProtocolError(1007)
  /\ Drain
  /\ UNCHANGED <<readable, rxActive, msgInProgress, compressedInProgress,
                 fragOpcode, inflVars>>

\* A middle fragment: appended, and the message still in progress.
OnContinuationMore ==
  /\ FrameReady /\ Cur.op = 0 /\ msgInProgress /\ ~Cur.fin
  /\ ContChunkChecked => ContUtf8.ok
  /\ fragMsg' = AppendChunk
  /\ utf8' = IF ContChunkChecked THEN ContUtf8.pending ELSE utf8
  /\ Drain
  /\ UNCHANGED <<readable, rxActive, msgInProgress, compressedInProgress,
                 fragOpcode, inflVars, events>>

\* Mutant: whether to inflate taken from the final frame's RSV1.
ContInflatesPerFrame == Cur.rsv1 /\ CompressionEnabled

\* if (compressed_message_in_progress): the whole message is inflated.
ContInflates == compressedInProgress

\* The final fragment.
OnContinuationFinal ==
  /\ FrameReady /\ Cur.op = 0 /\ msgInProgress /\ Cur.fin
  /\ ContChunkChecked => ContUtf8.ok
  /\ Drain
  /\ LET acc  == AppendChunk
         u    == IF ContChunkChecked THEN ContUtf8.pending ELSE utf8
         z    == IF ContInflates THEN RxInflate(acc)
                 ELSE [ok |-> TRUE, out |-> acc, ctx |-> inflCtx]
         full == Utf8Feed(<<>>, z.out)
         textOK == IF compressedInProgress THEN full.ok /\ Utf8Final(full.pending)
                   ELSE Utf8Final(u)
     IN \/ /\ ~z.ok
           /\ fragMsg' = acc /\ utf8' = <<>> /\ inflCtx' = z.ctx
           /\ ProtocolError(1007)
           /\ UNCHANGED <<msgInProgress, compressedInProgress, fragOpcode,
                          inflInit, serverNoCtx>>
        \/ /\ z.ok
           /\ IF ContInflates THEN AfterInflate(z)
              ELSE UNCHANGED inflVars
           /\ \/ /\ fragOpcode = 1 /\ ~textOK
                 /\ fragMsg' = z.out /\ utf8' = <<>>
                 /\ ProtocolError(1007)
                 /\ UNCHANGED <<msgInProgress, compressedInProgress, fragOpcode>>
              \/ /\ fragOpcode = 1 => textOK
                 /\ Emit(Event(IF fragOpcode = 1 THEN "text" ELSE "binary",
                               0, z.out))
                 /\ utf8' = IF fragOpcode = 1 THEN <<>> ELSE u
                 /\ ResetFragments
  /\ UNCHANGED <<readable, rxActive>>

-----------------------------------------------------------------------------
(* handleDataFrame: a text (1) or binary (2) frame.                        *)

DataCompressed == Cur.rsv1 /\ CompressionEnabled

\* A new data frame while a fragmented message is being assembled.
OnDataFrameMidMessage ==
  /\ FrameReady /\ Cur.op \in {1, 2} /\ msgInProgress
  /\ ProtocolError(1002)
  /\ Drain
  /\ UNCHANGED <<readable, rxActive, fragVars, utf8, inflVars>>

\* The first fragment of a message starts the assembly.
OnDataFrameFirst ==
  /\ FrameReady /\ Cur.op \in {1, 2} /\ ~msgInProgress /\ ~Cur.fin
  /\ msgInProgress' = TRUE /\ fragOpcode' = Cur.op /\ fragMsg' = Cur.data
  /\ compressedInProgress' = DataCompressed
  /\ Drain
  /\ LET r == Utf8Feed(<<>>, Cur.data)
     IN IF Cur.op = 1 /\ ~DataCompressed
        THEN \/ r.ok /\ utf8' = r.pending /\ UNCHANGED events
             \/ ~r.ok /\ utf8' = <<>> /\ ProtocolError(1007)
        ELSE UNCHANGED <<utf8, events>>
  /\ UNCHANGED <<readable, rxActive, inflVars>>

\* A whole message in one frame.
OnDataFrameWhole ==
  /\ FrameReady /\ Cur.op \in {1, 2} /\ ~msgInProgress /\ Cur.fin
  /\ Drain
  /\ LET z == IF DataCompressed THEN RxInflate(Cur.data)
              ELSE [ok |-> TRUE, out |-> Cur.data, ctx |-> inflCtx]
         r == Utf8Feed(<<>>, z.out)
     IN \/ /\ ~z.ok
           /\ inflCtx' = z.ctx
           /\ ProtocolError(1007)
           /\ UNCHANGED <<utf8, inflInit, serverNoCtx>>
        \/ /\ z.ok
           /\ IF DataCompressed THEN AfterInflate(z) ELSE UNCHANGED inflVars
           /\ IF Cur.op = 1
              THEN \/ /\ r.ok /\ Utf8Final(r.pending)
                      /\ utf8' = r.pending
                      /\ Emit(Event("text", 0, z.out))
                   \/ /\ ~(r.ok /\ Utf8Final(r.pending))
                      /\ utf8' = <<>>
                      /\ ProtocolError(1007)
              ELSE Emit(Event("binary", 0, z.out)) /\ UNCHANGED utf8
  /\ UNCHANGED <<readable, rxActive, fragVars>>

-----------------------------------------------------------------------------
(* Control frames, dispatched at once, even inside a fragmented message.   *)

\* handleCloseFrame: onRxClose with the sanitised code and reason.
OnCloseFrame ==
  /\ FrameReady /\ Cur.op = 8
  /\ LET r == CloseReply(Cur.len, Cur.code, Cur.data)
     IN Emit(Event("close", r.code, r.reason))
  /\ Drain
  /\ UNCHANGED <<readable, rxActive, fragVars, utf8, inflVars>>

\* handlePingFrame: onRxPing with the payload (its > 125 check cannot fail
\* here, onData rejected such a header already).
OnPingFrame ==
  /\ FrameReady /\ Cur.op = 9
  /\ Emit(Event("ping", 0, Cur.data))
  /\ Drain
  /\ UNCHANGED <<readable, rxActive, fragVars, utf8, inflVars>>

\* A pong is only logged.
OnPongFrame ==
  /\ FrameReady /\ Cur.op = 10
  /\ Drain
  /\ UNCHANGED <<readable, rxActive, fragVars, utf8, inflVars, events>>

-----------------------------------------------------------------------------
(* The transport: bytes of the next frame on the socket reach the         *)
(* evbuffer (never while onData runs: both are on the loop thread).  The  *)
(* cut points are the byte counts onData tells apart.                      *)

Cuts(f) == {1, 2, HeaderLen(f), WireLen(f)}

Arrive ==
  /\ ~rxActive /\ wire # <<>>
  /\ \E n \in Cuts(Head(wire)) :
       /\ n > part
       /\ IF n = WireLen(Head(wire))
          THEN buf' = Append(buf, Head(wire)) /\ wire' = Tail(wire) /\ part' = 0
          ELSE part' = n /\ UNCHANGED <<buf, wire>>
  /\ readable' = TRUE
  /\ UNCHANGED <<rxActive, fragVars, utf8, inflVars, events, overread>>

\* One step of the receiver on the loop thread.
RxStep ==
  \/ ReadCallback \/ OnDataYield \/ OnDataRejectHeader \/ OnReserveThrows
  \/ OnUnknownOpcode
  \/ OnOrphanContinuation \/ OnContinuationBadUtf8 \/ OnContinuationMore
  \/ OnContinuationFinal \/ OnDataFrameMidMessage \/ OnDataFrameFirst
  \/ OnDataFrameWhole \/ OnCloseFrame \/ OnPingFrame \/ OnPongFrame

RxInit ==
  /\ wire = <<>> /\ part = 0 /\ buf = <<>>
  /\ readable = FALSE /\ rxActive = FALSE
  /\ msgInProgress = FALSE /\ compressedInProgress = FALSE
  /\ fragOpcode = 0 /\ fragMsg = <<>>
  /\ utf8 = <<>>
  /\ inflInit = CompressionEnabled /\ inflCtx = 0
  /\ serverNoCtx \in ServerNoContextTakeover
  /\ events = <<>>
  /\ overread = FALSE

=============================================================================
