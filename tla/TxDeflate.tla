------------------------------ MODULE TxDeflate ------------------------------
(***************************************************************************)
(* The compression side of WebSocketReceiver (src/unnamed/part_003 21-215) *)
(* and the lifetime of its two zlib streams.                               *)
(*                                                                         *)
(* Data is abstracted to lengths.  deflate() on a raw stream with          *)
(* Z_SYNC_FLUSH turns a input bytes into n output bytes ending in the      *)
(* 00 00 FF FF marker, where n is ShrunkSize(a) for compressible data or   *)
(* StoredSize(a) for incompressible data.  tx_compressed_buf is abstracted *)
(* to its size (bufLen) and the offsets at which a 00 00 FF FF run ends in *)
(* it (trailEnds): what the trailer test at line 148 can see.  uInt has    *)
(* UBits bits (32 in the real build) so that a length can cross it.        *)
(* inflAlloc / deflAlloc count the zlib streams initialised and not yet    *)
(* ended; sent records, per message txPrepare handled, whether it went out *)
(* compressed and whether its payload inflates to the caller's message.    *)
(***************************************************************************)
EXTENDS Naturals, Sequences

CONSTANTS
  UBits,     \* bits of uInt
  Lens,      \* message lengths the caller sends
  MaxMsgs    \* messages per behaviour

VARIABLES cfg, inflInit, deflInit, inflAlloc, deflAlloc, bufLen, trailEnds, sent

zlibVars == <<inflInit, deflInit, inflAlloc, deflAlloc>>
vars == <<cfg, zlibVars, bufLen, trailEnds, sent>>

Attempts == 0..3

\* PerMessageDeflateConfig{}: disabled.
NoCfg == [enabled |-> FALSE, noContextTakeover |-> FALSE]

\* static_cast<uInt>(x).
ToUInt(x) == x % (2 ^ UBits)

\* zlib's deflateBound() for a raw stream with the default memLevel.
DeflateBound(len) == len + len \div 4096 + len \div 16384 + len \div 33554432 + 7

\* Mutant: no slack over deflateBound().
ExtraNone(attempt) == 0

\* const size_t extra = 64u * (attempt + 1);
Extra(attempt) == 64 * (attempt + 1)

\* Output of one Z_SYNC_FLUSH call, marker included: compressible data,
\* or stored blocks (5 header bytes per 65535 input bytes) for data that
\* does not compress.
ShrunkSize(a) == a \div 4 + 6
StoredSize(a) == a + 5 * ((a + 65534) \div 65535) + 5

TxInit ==
  /\ cfg = NoCfg
  /\ inflInit = FALSE /\ deflInit = FALSE /\ inflAlloc = 0 /\ deflAlloc = 0
  /\ bufLen = 0 /\ trailEnds = {}
  /\ sent = <<>>

\* The zlib flags and the live stream counts, stepped through the calls
\* initializeCompression makes one after the other.
ZState == [ii |-> inflInit, di |-> deflInit, ia |-> inflAlloc, da |-> deflAlloc]

SetZ(z) ==
  /\ inflInit' = z.ii /\ deflInit' = z.di
  /\ inflAlloc' = z.ia /\ deflAlloc' = z.da

\* shutdownCompression()'s two guarded ends.
ShutdownZ(z) ==
  [ii |-> FALSE, di |-> FALSE,
   ia |-> z.ia - (IF z.ii THEN 1 ELSE 0), da |-> z.da - (IF z.di THEN 1 ELSE 0)]

\* A successful rxInitInflate() / txInitDeflate().
RxInitZ(z) == [z EXCEPT !.ii = TRUE, !.ia = @ + 1]
TxInitZ(z) == [z EXCEPT !.di = TRUE, !.da = @ + 1]

\* Mutant: inflateEnd without clearing inflate_initialized.
EndInflateKeepFlag(z) == [z EXCEPT !.ia = @ - 1]

\* The guarded inflateEnd after txInitDeflate() fails.
EndInflateOnTxFail(z) == IF z.ii THEN [z EXCEPT !.ii = FALSE, !.ia = @ - 1] ELSE z

\* shutdownCompression(): end the initialised streams, clear the buffer,
\* reset the config.
ShutdownCompression ==
  /\ SetZ(ShutdownZ(ZState))
  /\ bufLen' = 0 /\ trailEnds' = {}
  /\ cfg' = NoCfg
  /\ UNCHANGED sent

\* initializeCompression(c): shutdownCompression(); _cfg = c; if enabled,
\* rxInitInflate() (rxOk) then txInitDeflate() (txOk); if the first fails,
\* shutdownCompression() again; if the second fails, end the inflater and
\* shutdownCompression() again.
InitializeCompression(c, rxOk, txOk) ==
  LET z0 == ShutdownZ(ZState)
      failed == c.enabled /\ ~(rxOk /\ txOk)
  IN /\ SetZ(CASE ~c.enabled -> z0
                [] ~rxOk     -> ShutdownZ(z0)
                [] ~txOk     -> ShutdownZ(EndInflateOnTxFail(RxInitZ(z0)))
                [] OTHER     -> TxInitZ(RxInitZ(z0)))
     /\ bufLen' = 0 /\ trailEnds' = {}
     /\ cfg' = IF failed THEN NoCfg ELSE c
     /\ UNCHANGED sent

\* Mutant: the old stream not ended before the re-init.
RxResetInflateNoEnd(ok) ==
  /\ inflInit
  /\ inflInit' = ok
  /\ inflAlloc' = inflAlloc + (IF ok THEN 1 ELSE 0)
  /\ UNCHANGED <<cfg, deflInit, deflAlloc, bufLen, trailEnds, sent>>

\* rxResetInflate(): inflateEnd, then rxInitInflate(), which may fail.
RxResetInflate(ok) ==
  /\ inflInit
  /\ inflInit' = ok
  /\ inflAlloc' = inflAlloc - 1 + (IF ok THEN 1 ELSE 0)
  /\ UNCHANGED <<cfg, deflInit, deflAlloc, bufLen, trailEnds, sent>>

-----------------------------------------------------------------------------
(* txDeflate: up to four attempts with growing output buffers.             *)

\* tx_compressed_buf.resize(bound): trailers past the new end are gone.
Resized(buf, bound) == [len |-> bound, ends |-> {e \in buf.ends : e <= bound}]

\* deflate() wrote w bytes at the start of the buffer; they end in the
\* marker when the flush completed, and may by chance when it did not.
Written(buf, w, marker) ==
  [len |-> buf.len,
   ends |-> {e \in buf.ends : e - 4 >= w} \cup (IF marker THEN {w} ELSE {})]

\* One attempt and those after it.  n is the length the flush needs and
\* chance[attempt] whether a cut-off output happens to end in 00 00 FF FF.
\* The result: whether a payload was accepted, whether it is the whole
\* message compressed, and the buffer afterwards.  deflate() returns
\* Z_BUF_ERROR only when it can make no progress (avail_out = 0); other
\* errors need a corrupted stream and are not reachable.
RECURSIVE DeflateAttempts(_, _, _, _, _)
DeflateAttempts(attempt, len, n, chance, buf) ==
  IF attempt > 3 THEN [ok |-> FALSE, intact |-> TRUE, buf |-> buf]
  ELSE
    LET bound    == DeflateBound(len) + Extra(attempt)
        availIn  == ToUInt(len)
        availOut == ToUInt(bound)
        sized    == Resized(buf, bound)
        complete == availOut >= n
        w        == IF complete THEN n ELSE availOut
        after    == Written(sized, w, complete \/ chance[attempt])
        produced == bound - (availOut - w)
        trailer  == produced >= 4 /\ produced \in after.ends
    IN IF availOut = 0
       THEN DeflateAttempts(attempt + 1, len, n, chance, sized)
       ELSE IF ~trailer
       THEN DeflateAttempts(attempt + 1, len, n, chance, after)
       ELSE [ok |-> TRUE,
             intact |-> complete /\ produced = w /\ availIn = len,
             buf |-> after]

\* txReinitAfterNoContextTakeover(): deflateEnd, then deflateInit2, which
\* may fail and leave deflate_initialized false.
TxReinitAfterNoContextTakeover(ok) ==
  /\ deflInit' = ok
  /\ deflAlloc' = deflAlloc - 1 + (IF ok THEN 1 ELSE 0)

\* Append the outcome of one txPrepare to sent.
Send(len, compressed, intact) ==
  sent' = Append(sent, [len |-> len, compressed |-> compressed, intact |-> intact])

\* txPrepare(..., request_compress, ...): raw unless compression was asked
\* for, negotiated and initialised; otherwise txDeflate, raw again if it
\* fails.  After a compressed message under client_no_context_takeover,
\* txReinitAfterNoContextTakeover() ends the stream and initialises a new
\* one; if that fails, txDeflate returns false and the message goes raw.
TxPrepare(len, request) ==
  /\ Len(sent) < MaxMsgs
  /\ IF ~request \/ ~cfg.enabled \/ ~deflInit
     THEN Send(len, FALSE, TRUE) /\ UNCHANGED <<zlibVars, bufLen, trailEnds>>
     ELSE \E n \in {ShrunkSize(ToUInt(len)), StoredSize(ToUInt(len))},
             chance \in [Attempts -> BOOLEAN] :
            LET r == DeflateAttempts(0, len, n, chance,
                                     [len |-> bufLen, ends |-> trailEnds])
            IN /\ bufLen' = r.buf.len /\ trailEnds' = r.buf.ends
               /\ IF r.ok /\ cfg.noContextTakeover
                  THEN \E ok \in BOOLEAN :
                         TxReinitAfterNoContextTakeover(ok) /\ Send(len, ok, ok => r.intact)
                  ELSE Send(len, r.ok, r.intact) /\ UNCHANGED <<deflInit, deflAlloc>>
  /\ UNCHANGED <<cfg, inflInit, inflAlloc>>

Configs == [enabled : BOOLEAN, noContextTakeover : BOOLEAN]

TxNext ==
  \/ \E c \in Configs, rxOk, txOk \in BOOLEAN : InitializeCompression(c, rxOk, txOk)
  \/ ShutdownCompression
  \/ \E ok \in BOOLEAN : RxResetInflate(ok)
  \/ \E len \in Lens, request \in BOOLEAN : TxPrepare(len, request)

TxSpec == TxInit /\ [][TxNext]_vars

-----------------------------------------------------------------------------
(* Properties.                                                             *)

\* Every message txPrepare hands to the framer with RSV1 set inflates to
\* the caller's whole message: the slack over deflateBound() lets the
\* flush complete, and when uInt truncates avail_in or avail_out (messages
\* within a few hundred bytes of 4 GiB or longer) the trailer test on
\* produced = bound - avail_out fails every attempt and the message goes
\* out raw.
TxIntact == \A k \in 1..Len(sent) : sent[k].intact

\* The zlib streams the receiver has initialised and not ended are exactly
\* the ones its flags say are initialised, across initialise / shutdown
\* cycles, failed initialisations, inflate resets and the deflate re-init
\* after each message under client_no_context_takeover: nothing leaks and
\* nothing is ended twice.
StreamsAccounted ==
  /\ inflAlloc = (IF inflInit THEN 1 ELSE 0)
  /\ deflAlloc = (IF deflInit THEN 1 ELSE 0)

=============================================================================
