--------------------------- MODULE ReceiverSystem ---------------------------
(***************************************************************************)
(* The receiver fed by a WebSocket server.  The server writes frames onto *)
(* the socket: data messages, possibly fragmented and compressed, with    *)
(* ping, pong and close frames interleaved, and frames that break one of  *)
(* the rules of RFC 6455 / spec sections 4.C and 4.F.  It remembers what  *)
(* the receiver must make of them:                                        *)
(*   sent      - the messages and pings it completed, in order;           *)
(*   expectErr - the close code the spec prescribes for the first rule it *)
(*               broke (0 while it broke none);                            *)
(*   peerClose - the close frame it sent, if any.                          *)
(* After a close frame or a broken rule the server sends nothing more.    *)
(***************************************************************************)
EXTENDS WebSocketReceiver

CONSTANTS
  Chunks,        \* payload bytes of one data frame
  PingChunks,    \* payloads of ping and pong frames
  Pads,          \* extra payload length, to reach the 16/64-bit encodings
  CloseFrames,   \* close frames the server may send: [len, code, data]
  BadFrames,     \* frames breaking a header rule (RSV, MASK, opcode, ...)
  PeerRsv1,      \* RSV1 values the server sets on a first frame
  PeerCtlRsv1,   \* RSV1 values it sets on continuation, ping and pong frames
  MaxFrames      \* frames the server writes

VARIABLES
  peerInMsg,     \* the server is inside a fragmented message
  peerOp,        \* its opcode
  peerZ,         \* it is compressed
  peerText,      \* its plain bytes so far
  peerCtx,       \* the server's deflate context number
  sent,          \* messages and pings completed, as the sinks should see them
  expectErr,     \* close code of the first broken rule, 0 if none
  peerClose,     \* the close frame sent, or NoClose
  nsent          \* frames written

NoClose == [len |-> -1, code |-> 0, data |-> <<>>]

peerVars == <<peerInMsg, peerOp, peerZ, peerText, peerCtx, sent, expectErr,
              peerClose, nsent>>
vars == <<rxVars, peerVars>>

PeerDone == expectErr # 0 \/ peerClose # NoClose \/ nsent >= MaxFrames

Frame(fin, rsv1, op, len, data, code) ==
  [fin |-> fin, rsv1 |-> rsv1, rsv2 |-> FALSE, rsv3 |-> FALSE, op |-> op,
   mask |-> FALSE, len |-> len, data |-> data, code |-> code]

Write(f) == /\ wire' = Append(wire, f)
            /\ nsent' = nsent + 1

KindOf(op) == IF op = 1 THEN "text" ELSE "binary"

\* The text so far can no longer become valid UTF-8 (uncompressed text is
\* checked as it arrives), or a finished text is not valid UTF-8.
TextBroken(acc, compressed, fin) ==
  \/ ~compressed /\ ~Utf8Feed(<<>>, acc).ok
  \/ fin /\ ~Utf8Ref(acc)

\* A message completed: record it and advance the deflate context.
Complete(op, z, acc) ==
  /\ sent' = Append(sent, Event(KindOf(op), 0, acc))
  /\ peerCtx' = IF z /\ ~serverNoCtx THEN peerCtx + 1 ELSE peerCtx
  /\ peerInMsg' = FALSE

\* A text or binary frame starting a message.
PeerSendData ==
  /\ ~PeerDone
  /\ \E op \in {1, 2}, fin \in BOOLEAN, rsv1 \in PeerRsv1, c \in Chunks,
        pad \in Pads :
       LET z    == rsv1 /\ CompressionEnabled
           data == IF z THEN Deflate(c, peerCtx) ELSE c
           err  == CASE rsv1 /\ ~CompressionEnabled               -> 1002
                     [] peerInMsg                                 -> 1002
                     [] op = 1 /\ TextBroken(c, z, fin)           -> 1007
                     [] OTHER                                     -> 0
       IN /\ Write(Frame(fin, rsv1, op, Len(data) + pad, data, 0))
          /\ expectErr' = err
          /\ IF err = 0 /\ fin
             THEN Complete(op, z, c) /\ UNCHANGED <<peerOp, peerZ, peerText>>
             ELSE /\ peerInMsg' = (err = 0)
                  /\ peerOp' = op /\ peerZ' = z /\ peerText' = c
                  /\ UNCHANGED <<sent, peerCtx>>
  /\ UNCHANGED <<peerClose, rxLocal>>

\* A continuation frame.
PeerSendContinuation ==
  /\ ~PeerDone
  /\ \E fin \in BOOLEAN, rsv1 \in PeerCtlRsv1, c \in Chunks, pad \in Pads :
       LET data == IF peerInMsg /\ peerZ THEN Deflate(c, peerCtx) ELSE c
           acc  == peerText \o c
           err  == CASE rsv1 /\ ~CompressionEnabled                 -> 1002
                     [] ~peerInMsg                                 -> 1002
                     [] peerOp = 1 /\ TextBroken(acc, peerZ, fin)   -> 1007
                     [] OTHER                                      -> 0
       IN /\ Write(Frame(fin, rsv1, 0, Len(data) + pad, data, 0))
          /\ expectErr' = err
          /\ IF err = 0 /\ fin
             THEN Complete(peerOp, peerZ, acc) /\ UNCHANGED <<peerOp, peerZ, peerText>>
             ELSE peerText' = acc /\ UNCHANGED <<sent, peerCtx, peerInMsg, peerOp, peerZ>>
  /\ UNCHANGED <<peerClose, rxLocal>>

\* A ping (forwarded to the sinks) or pong (ignored), inside or between
\* messages.  RSV1 on it is a 1002 only without permessage-deflate.
PeerSendPingPong ==
  /\ ~PeerDone
  /\ \E op \in {9, 10}, rsv1 \in PeerCtlRsv1, c \in PingChunks :
       /\ Write(Frame(TRUE, rsv1, op, Len(c), c, 0))
       /\ IF rsv1 /\ ~CompressionEnabled
          THEN expectErr' = 1002 /\ UNCHANGED sent
          ELSE /\ sent' = IF op = 9 THEN Append(sent, Event("ping", 0, c)) ELSE sent
               /\ UNCHANGED expectErr
  /\ UNCHANGED <<peerInMsg, peerOp, peerZ, peerText, peerCtx, peerClose,
                 rxLocal>>

\* A close frame; the server then waits for the reply.
PeerSendClose ==
  /\ ~PeerDone
  /\ \E c \in CloseFrames :
       /\ Write(Frame(TRUE, FALSE, 8, c.len, c.data, c.code))
       /\ peerClose' = c
  /\ UNCHANGED <<peerInMsg, peerOp, peerZ, peerText, peerCtx, sent, expectErr,
                 rxLocal>>

\* onData leaves by an exception: spec 7 has the loop thread catch it and
\* fail the connection, and the spec gives no close code for a length
\* beyond what a std::vector can hold.
Aborted == -1

\* A frame breaking a header rule: close code 1002; a frame too long to
\* buffer in memory: the receiver aborts.
PeerSendBad ==
  /\ ~PeerDone
  /\ \E f \in BadFrames :
       /\ Write(f)
       /\ expectErr' = IF f.len > VecMaxSize THEN Aborted ELSE 1002
  /\ UNCHANGED <<peerInMsg, peerOp, peerZ, peerText, peerCtx, sent, peerClose,
                 rxLocal>>

PeerStep ==
  \/ PeerSendData \/ PeerSendContinuation \/ PeerSendPingPong
  \/ PeerSendClose \/ PeerSendBad

Init ==
  /\ RxInit
  /\ peerInMsg = FALSE /\ peerOp = 0 /\ peerZ = FALSE /\ peerText = <<>>
  /\ peerCtx = 0 /\ sent = <<>> /\ expectErr = 0 /\ peerClose = NoClose
  /\ nsent = 0

Transport == Arrive /\ UNCHANGED peerVars
Receiver == RxStep /\ UNCHANGED peerVars

Next == PeerStep \/ Transport \/ Receiver

\* TCP delivers what was written, and the event loop runs the read
\* callback and onData whenever they can run.
Spec == Init /\ [][Next]_vars /\ WF_vars(Transport) /\ WF_vars(Receiver)

-----------------------------------------------------------------------------
(* Properties.                                                             *)

Bytes == 0..255
FrameRec == [fin : BOOLEAN, rsv1 : BOOLEAN, rsv2 : BOOLEAN, rsv3 : BOOLEAN,
             op : 0..15, mask : BOOLEAN, len : Nat, data : Seq(Nat), code : Nat]

\* Every variable has its type, and the fragmentation state is consistent:
\* message_in_progress holds exactly while fragmented_opcode is set, and a
\* compressed message is always one in progress (handleDataFrame,
\* handleContinuationFrame's reset).
TypeOK ==
  /\ wire \in Seq(FrameRec) /\ buf \in Seq(FrameRec)
  /\ part \in Nat /\ (wire = <<>> => part = 0)
  /\ readable \in BOOLEAN /\ rxActive \in BOOLEAN
  /\ msgInProgress \in BOOLEAN /\ compressedInProgress \in BOOLEAN
  /\ fragOpcode \in {0, 1, 2} /\ fragMsg \in Seq(Nat)
  /\ msgInProgress = (fragOpcode # 0)
  /\ compressedInProgress => msgInProgress
  /\ utf8 \in Seq(Bytes) /\ Len(utf8) <= 3
  /\ inflInit \in BOOLEAN /\ inflCtx \in Nat
  /\ events \in Seq([kind : {"text", "binary", "ping", "close", "error", "exception"},
                     code : Nat, data : Seq(Nat)])
  /\ overread \in BOOLEAN
  /\ expectErr \in {0, Aborted, 1002, 1007} /\ nsent \in 0..MaxFrames

\* What the sinks received as messages and pings.
Delivered == SelectSeq(events, LAMBDA e : e.kind \in {"text", "binary", "ping"})

\* Every text and binary message and every ping the receiver hands to the
\* sinks is one the server completed, with the same bytes, in the order the
\* server completed them: fragments reassemble across chunk boundaries,
\* control frames interleaved with fragments keep their place, and each
\* compressed message is inflated with the context the server deflated it
\* with (handleDataFrame, handleContinuationFrame, rxInflate,
\* rxMaybeResetAfterMessage).
MessagesIntact == IsPrefix(Delivered, sent)

\* onRxProtocolError is called only when the server broke a rule, and with
\* the close code the spec gives that rule (1002 framing, 1007 payload).
ErrorsJustified ==
  \A i \in 1..Len(events) :
    events[i].kind = "error" => events[i].code = expectErr

\* Spec 4.F: an empty close payload is (1000, ""); a 1-byte payload, a code
\* outside 1000-1011 \ {1004, 1005, 1006} and 3000-4999, or a reason that is
\* not UTF-8 is answered (1002, ""); otherwise code and reason are echoed.
SpecCloseCodes == ((1000..1011) \ {1004, 1005, 1006}) \cup (3000..4999)
SpecCloseReply(c) ==
  CASE c.len = 0 -> <<1000, <<>>>>
    [] c.len >= 2 /\ c.code \in SpecCloseCodes /\ Utf8Ref(c.data) -> <<c.code, c.data>>
    [] OTHER -> <<1002, <<>>>>

\* The close the receiver reports (handleCloseFrame -> onRxClose) is the
\* one the spec prescribes for the server's close frame.
CloseEchoesPeer ==
  \A i \in 1..Len(events) :
    events[i].kind = "close" =>
      /\ peerClose # NoClose
      /\ <<events[i].code, events[i].data>> = SpecCloseReply(peerClose)

\* onData goes past its wait (line 363) to pull the frame up, reserve its
\* payload and dispatch it only once all of the frame is in the evbuffer
\* (spec 4.C: wait until the full frame is buffered).
FrameBuffered == ~overread

\* The server's traffic is eventually fully accounted for: the first
\* broken rule is reported with its code (a frame too long to buffer
\* aborts onData), every message and ping sent before it is delivered, and
\* a close frame is reported.  onData must neither stall on a frame it has
\* wholly received nor drop one.
Settled ==
  /\ expectErr \in {1002, 1007} => \E i \in 1..Len(events) : events[i] = Event("error", expectErr, <<>>)
  /\ expectErr = Aborted => \E i \in 1..Len(events) : events[i].kind = "exception"
  /\ expectErr = 0 => Delivered = sent
  /\ expectErr = 0 /\ peerClose # NoClose =>
       \E i \in 1..Len(events) : events[i].kind = "close"
EventuallySettled == <>[]Settled

\* Once the receiver has handled every frame the server wrote, between
\* messages and with no rule broken, its inflater is at the deflate
\* context the server's deflater is at: each compressed message advanced
\* both by one under context takeover, and under
\* server_no_context_takeover both start every message fresh.  A message
\* inflated or not inflated against the RSV1 of its first frame, or a
\* reset in the wrong mode (rxMaybeResetAfterMessage), leaves them apart
\* even when no later message shows it.
InflaterInSync ==
  (wire = <<>> /\ buf = <<>> /\ ~peerInMsg /\ expectErr = 0) => inflCtx = peerCtx

=============================================================================
