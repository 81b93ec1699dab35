# TLA+ models of libwsc

This directory holds model-checked TLA+ specifications of libwsc, a C++11
WebSocket client on top of libevent, zlib and OpenSSL. The models are written
from the code under `src/`. Code that the repository names but does not contain
(`WebSocketContext.cpp`, `Utf8Validator`) is modelled from `spec.md`, and those
definitions are marked `spec_modelled` in `PROJECT.json`.

## The system and its parts

| Part | Source | What it does |
|------|--------|--------------|
| Frame receiver | `src/unnamed/part_003` 308-610 (`WebSocketReceiver::onData`, `handleDataFrame`, `handleContinuationFrame`, `handleCloseFrame`, `handlePingFrame`) | Parses server frames out of the libevent input buffer. Checks header rules, waits for whole frames, reassembles fragments, validates UTF-8 and reports to the sinks. |
| Inflate | part_003 64-96, 217-306 (`rxInitInflate`, `rxResetInflate`, `rxInflate`, `rxMaybeResetAfterMessage`) | permessage-deflate decompression. Context takeover, or a reset per message under `server_no_context_takeover`. |
| Deflate (tx) | part_003 21-62, 75-89, 98-215 (`initializeCompression`, `txDeflate`, `txPrepare`, ...) | Compresses outgoing messages. Retries with larger buffers and falls back to raw. |
| UTF-8 | part_003 612-673 (`isValidUtf8`); `Utf8Validator` (not in the repository) | One-shot validation of close reasons; incremental validation of text messages. |
| Sinks | `src/src/IWebSocketSinks.h` | The receiver's only interface to the connection: `onRxText`, `onRxBinary`, `onRxPing`, `onRxPong`, `onRxClose`, `onRxProtocolError`, `rxCompressionEnabled`, `rxIsTerminating`. |
| Connection core | `src/unnamed/part_002` (`WebSocketContext.h`; the `.cpp` is absent) | Implements the sinks. Owns the libevent loop, handshake, send queue, close handshake and timers. |
| TLS context | part_003 674-838 (`WebSocketTLSContext`) | Owns an `SSL_CTX` across init, reset, move and destruction. |
| Autobahn driver | `src/examples/autobahn.cpp` | Runs the fuzzing server's cases one client at a time. It echoes what it receives, waits for the close with a timeout, and then fetches the report. |

How the parts interact:
- The libevent read callback (`WebSocketContext::readCallback`) calls `WebSocketReceiver::onData` on the loop thread each time bytes arrive.
- `onData` consumes whole frames and calls the sinks.
- The sinks decide whether the connection is terminating (`rxIsTerminating`). Once it is, `onData` stops.

## Modules

- **`Utf8.tla`** defines three validators.
  - `IsValidUtf8` / `Utf8From` translate `isValidUtf8` line by line.
  - `Utf8Feed` / `Utf8Final` model `Utf8Validator::validateChunk` / `validateFinal` from spec 4.A.
  - `Utf8Ref` is an independent reference: a string is valid iff it splits into sequences whose decoded code point is a Unicode scalar value, encoded in the minimal length.
- **`MC_Utf8.tla`** grows a byte string one byte at a time from a set of boundary bytes.
- **`WebSocketReceiver.tla`** is the receiver.
  - **State.** The receiver's state:
    - `msgInProgress`, `compressedInProgress`, `fragOpcode`, `fragMsg`: `message_in_progress`, `compressed_message_in_progress`, `fragmented_opcode`, `fragmented_message`;
    - `utf8`: the validator's pending bytes;
    - `inflInit`, `inflCtx`: `inflate_initialized` and the inflater's context;
    - `serverNoCtx`: `_cfg.server_no_context_takeover`, chosen at start-up from `ServerNoContextTakeover` and fixed afterwards, as negotiation fixes it.
  - **The evbuffer** is `buf` (frames wholly received) plus `part` bytes of the frame at the head of `wire`, the bytes still in flight.
  - **The sinks** are the event log `events`.
  - **Actions.** One `onData` loop iteration is one action.
    - `OnDataYield` covers the `break`s and the terminating `return`.
    - `OnDataRejectHeader` covers the header checks.
    - One action per handler outcome: `OnContinuationMore`, `OnContinuationFinal`, `OnDataFrameWhole`, `OnCloseFrame`, ...
    - Each handler action includes the `evbuffer_drain` that follows it (`Drain`).
    - A frame that passes the wait at line 363 is pulled up and its payload reserved (`PastWait`, `FrameReady`). `overread` records whether the wait was passed with fewer bytes buffered than the frame has. A payload longer than `std::vector::max_size()` (`VecMaxSize`, `PTRDIFF_MAX`) makes `payload.reserve` throw `std::length_error` out of `onData` (`OnReserveThrows`). Spec 7 has the loop thread catch it and fail the connection, so an `"exception"` event makes the connection terminating. The `evbuffer_pullup` NULL return (366-369) needs an allocation failure and is not modelled.
    - `Arrive` is TCP delivering the next piece of a frame. The cut points are after 1 byte, after the header, or the whole frame, which are the byte counts `onData` tells apart.
  - **Compressed payloads** are abstracted as tokens `256*(h+1)+b`: byte `b` deflated with server context `h`.
    - `RxInflate` succeeds iff every token was made with the inflater's context, and it advances the context.
    - This captures what context takeover and `inflateReset` must agree on.
  - **`size_t`** has `SizeBits` bits, 64 in the real build. It is scaled down so that a 64-bit frame length can reach the wrap.
- **`ReceiverSystem.tla`** composes the receiver with a server that writes frames.
  - The server writes whole and fragmented text and binary messages (optionally compressed), pings and pongs between fragments, close frames, and frames breaking a header rule. It may set RSV1 on continuation, ping and pong frames (`PeerCtlRsv1`). Without permessage-deflate that is a 1002 (spec 4.C). With it, `onData` accepts the frame and ignores the bit: RFC 7692 would fail the connection, but `spec.md` is silent, so the server model records no error.
  - It records the reference outcome: the messages it completed (`sent`), the close code its first violation calls for (`expectErr`), and its close frame. For a frame longer than a `std::vector` can hold, `spec.md` gives no close code; the server model expects `onData` to abort (`Aborted`).
- **`MC_Receiver.tla`** holds the constant sets the cfgs use.
- **`TLSContext.tla`** models `WebSocketTLSContext` as the owner of one `SSL_CTX`.
  - **State.** Each object is unborn, live or destroyed (`life`), with its `_ctx` (`ctx`). The model also tracks the contexts `SSL_CTX_new` returned (`allocated`) and counts the `SSL_CTX_free` calls on each (`nfree`).
  - **Actions.** Default construction, move construction, move assignment (self included), `reset`, `init` and destruction.
  - **`init` outcomes.** `init` resets, then either `SSL_CTX_new` fails, or a later OpenSSL call fails and the new context is freed, or the context is installed. Every failure path after `SSL_CTX_new` does the same thing, so which call failed is not told apart.
  - **`createSsl`** only reads `_ctx`, and `SSL_new` holds its own reference, so it is not an action.
- **`MC_TLSContext.tla`** instantiates it with three objects and three contexts.
- **`TxDeflate.tla`** models the compression side of `WebSocketReceiver` and the lifetime of its zlib streams.
  - **Actions.** `InitializeCompression` (with `rxInitInflate` and `txInitDeflate`, each able to fail), `ShutdownCompression`, `RxResetInflate`, and `TxPrepare`. `TxPrepare` covers the whole of `txPrepare`: `txDeflate`'s four attempts as the recursive `DeflateAttempts`, and `txReinitAfterNoContextTakeover`.
  - **Data.** Payloads are lengths. One `Z_SYNC_FLUSH` call needs `ShrunkSize(a)` bytes for compressible data, or `StoredSize(a)` for stored blocks; both include the marker. Stored blocks exceed `deflateBound()` by a few bytes, which is the overhead the code's slack is for.
  - **The buffer.** `tx_compressed_buf` is its size plus the offsets where a `00 00 FF FF` run ends. That is all the trailer test can see. `resize` keeps the runs that end before the new end and drops the others.
  - **Widths.** `uInt` has `UBits` bits, so `static_cast<uInt>` truncates lengths near and above `2^UBits`.
  - **Streams.** `inflAlloc` and `deflAlloc` count the zlib streams initialised and not yet ended. `InitializeCompression` steps through the calls of `initializeCompression` in order on the record `ZState`: `shutdownCompression` (`ShutdownZ`), `rxInitInflate` (`RxInitZ`), `txInitDeflate` (`TxInitZ`), the guarded `inflateEnd` after a `txInitDeflate` failure (`EndInflateOnTxFail`), and the second `shutdownCompression`.
- **`MC_TxDeflate.tla`** sets a 10-bit `uInt`, four lengths (0, 300, `2^10 - 40`, `2^10 + 5`) and three messages.
- **`AutobahnDriver.tla`** models `autobahn.cpp` together with the client connections it drives.
  - **Main thread.** `i` and `mainPc` give its position. One action per statement that changes shared state: `MainCreate` (29-37), `MainConnect` (85-86), `MainWait` / `MainWake` / `MainTimeout` (89-101, `wait_for_pred`), `MainUnlock` (end of the lock scope, 102), `MainDisconnect` and `MainJoin` (106), and `MainReset` (109, `++i`). The report client is the same sequence with `i = N + 1`. It has no echo callbacks, its callbacks do not set `closing` (`SetsClosing`), and its wait discards the timeout result (`TimeoutSetsClosing`, 147-155).
  - **Frame locals.** `done`, `closing`, `mtx` (who holds it) and `waiting` (main is in `cv.wait_for` and has not been notified) belong to the running iteration. Callbacks captured them by reference.
  - **Client lifetime.** `refs` counts the strong references: main's `client`, plus the `c` of `wclient.lock()` (the echo callbacks capture the client only weakly). `destroyed` records which thread ran the destructor.
  - **Connection core** (spec-modelled, spec 4.G and 5). A loop thread per client (`loop`), the connection state `conn`, `stop_requested`, `close_cb_fired`, and the close timer.
    - The server may complete the handshake, send messages, close, or fail at any time, or go silent.
    - Callbacks run on the loop thread, one at a time. Each callback statement that touches shared state is one step (`cb`): `MsgCheck` / `MsgLock` / `MsgSend` / `MsgRelease` for the echo, and `CbStore` / `CbFinish` / `CbNotify` for close and error.
    - The error callback is followed by the close callback.
- **`AutobahnRun.tla`** is what the driver promises: cases run one at a time and in order, each connection's loop thread ends before the next case starts, and the program exits after the report. `AutobahnDriver` refines it through `run <- IF mainPc = "exit" THEN N + 2 ELSE i` and `live <- {c : loop[c] = "running"}`.
- **`RxInflate.tla`** models the inflate loop of `rxInflate` (part_003 217-299) over lengths, which the token abstraction of `WebSocketReceiver` cannot do.
  - **Data.** A server message is `[len, out, end]`: `len` payload bytes inflating to `out` bytes. `end` is `"sync"` (a `Z_SYNC_FLUSH` sender), `"final"` (a last block with BFINAL) or `"corrupt"`. A cut-off input yields its share of the output (`Yield`).
  - **The call.** `RxInflateCall` covers the `inflateReset` under `server_no_context_takeover`, and `avail_in = uInt(len + 4)` (`ToUInt`, `UBits` bits). `InflateLoop` is the `while (true)` loop as a recursive operator: one `inflate()` per step into a `ChunkSize`-byte `tmp`, the return code from `Ret`, and the loop's four exits (the `Z_BUF_ERROR` branches, the error return, `Z_STREAM_END`, and input consumed with `tmp` not full).
  - **State.** `ended` is whether the inflater has reached a stream end and has not been reset since; a stream in that state answers `Z_STREAM_END` with no output. `noCtx` is the negotiated setting, and `delivered` is the log of what the sinks should get and what they got.
  - **Action.** `ReceiveCompressed` is `handleDataFrame` for a whole compressed message (510-524): `decompressMessage`, then 1007 on failure or delivery followed by `rxMaybeResetAfterMessage`.
- **`MC_RxInflate.tla`** sets a 4-byte `tmp`, a 10-bit `uInt`, and messages inflating to 0, 3, 4, 8 and 9 bytes plus a corrupt one.
- **`MC_Autobahn.tla`** sets two cases plus the report, and up to two server messages per case.

## Runs

| Run | Checks | Shows |
|-----|--------|-------|
| `utf8` | `IsValidUtf8Correct` | `isValidUtf8`, which guards close reasons, agrees with the RFC 3629 reference on every string of up to 4 bytes over 21 boundary bytes. (The incremental validator is modelled from spec 4.A and used by the receiver runs; it is not checked against the reference, since no code of it is in the repository.) |
| `fragments` | `TypeOK`, `MessagesIntact`, `ErrorsJustified`, `EventuallySettled` | Fragmented messages reach the sinks intact and in order. This holds with 2-byte UTF-8 sequences split across fragments, pings between fragments, and TCP cutting each frame anywhere. Errors have the spec's code. Everything is eventually delivered. |
| `framing` | `ErrorsJustified`, `FrameBuffered`, `EventuallySettled` | 7/16/64-bit lengths and every header rule (RSV1 on continuation, ping and pong frames without deflate, RSV2, RSV3, MASK, fragmented ping, 126-byte ping, opcodes 3 and 11), and a binary frame one byte longer than `max_size()` whose length does not wrap. `onData` goes past its wait only when the whole frame is buffered, each header violation is reported with 1002, and the oversize frame aborts `onData` once it is buffered, with nothing dispatched. |
| `close` | `CloseEchoesPeer` | The code and reason reported for 10 close payload shapes are the ones spec 4.F prescribes. |
| `deflate` | `MessagesIntact`, `ErrorsJustified`, `InflaterInSync` | Compressed and plain messages interleave, whole or fragmented, and inflate with the server's context, with `server_no_context_takeover` off or on. RSV1 on later frames does not change whether a message is inflated. Whenever the receiver has handled everything the server wrote, between messages, its inflater is at the server's deflate context. This catches an extra or missing reset, or a message inflated on the wrong RSV1, even when no later message would expose it. |
| `rx_inflate` | `RoundTrip` | Every compressed message reaches the sinks whole, and a corrupt one is reported with 1007. This covers outputs that are exactly one or two `tmp` chunks: there the loop ends only on the benign `Z_BUF_ERROR` with `avail_in == 0` (line 264). It holds under either context-takeover setting and across three messages. |
| `inflate_uint_wrap` | `RoundTrip` (violation) | See finding 3. |
| `tls_context` | `TypeOK`, `NoDoubleFree`, `SoleOwner` | Any sequence of moves, self-moves, inits (each outcome), resets and destructions of three objects frees no `SSL_CTX` twice, leaks none, and leaves each live one with exactly one owner. A self-move-assignment without the `this != &other` guard would also be safe here, because `reset` clears `_ctx` before the copy. |
| `autobahn` | `ClientsFreed`, `FrameInScope`, `DestroyedOffLoop`, `AllCasesComplete`, `AbsRefined` | Whatever the server does, including a close callback that arrives as the 20 s timeout fires: (1) no callback touches an iteration's locals after that iteration ends; (2) the last strong reference is always main's, so `~WebSocketClient` never runs on the loop thread it must join; (3) every finished case's client has been destroyed, so the callbacks' weak capture leaves no cycle; (4) no thread waits forever on `mtx`, and the program exits; (5) the cases run one at a time, in order (refinement of `AutobahnRun`). |
| `tx_deflate` | `TxIntact`, `StreamsAccounted` | Every message sent with RSV1 inflates to the whole original. The 64-byte slack covers the flush overhead of stored blocks. When `uInt` truncates `avail_in` or `avail_out`, `produced = bound - avail_out` points past the bytes written, the trailer test fails on all four attempts, and the message goes out raw. No zlib stream leaks or is ended twice, across failed initialisations (the inflater ended after a `txInitDeflate` failure and again by `shutdownCompression` only if its flag survived), resets and re-inits. |
| `inflate_reinit_fails` | `MessagesIntact` (violation) | See finding 2. |
| `length_wrap` | `FrameBuffered` (violation) | See finding 1. |

### Findings

1. **`need` wraps.** (`part_003:362`, code bug.) `need = header_len + payload_len` is computed in `size_t`, and a 64-bit length with the MSB set is never rejected.
   - Trace: the server sends a frame with length `SIZE_MAX - 5`. After the 10 header bytes arrive, `need` is 4, so `onData` passes the wait and pulls up 4 bytes.
   - `FrameBuffered` is violated. `payload.reserve(SIZE_MAX - 5)` at line 373 then throws `std::length_error` out of `onData`: no handler runs and no 1002 is reported. The connection dies by an exception instead of the protocol error an invalid length calls for.
2. **Inflate re-init failure falls back to pass-through.** (`part_003:95`, spec divergence.) `rxResetInflate` ignores `rxInitInflate`'s result.
   - After a failed `inflateInit2`, `inflate_initialized` is false, and `rxInflate` (line 218) copies compressed payloads to the sinks unchanged.
   - `MessagesIntact` is violated. Spec 4.D asks for a 1007 failure.
3. **`avail_in` truncates.** (`part_003:242`, code bug.) `avail_in = static_cast<uInt>(src.size())`, with `src` the payload plus the 4 trailer bytes.
   - For a payload of `2^32 - 4` bytes or more, the count wraps. The loop stops once the truncated count is consumed, and `rxInflate` returns true.
   - Trace (10-bit `uInt`): one message of `2^10 - 2` bytes that inflates to 9 bytes is delivered with 0 bytes. `RoundTrip` is violated. Spec 8 says `inflate(deflate(m)) == m`.

### Bounds

| Setting | Value | Why |
|---------|-------|-----|
| Frames per behaviour | 3 (2 for close and framing) | Enough for first, continuation and final fragments with a ping between them. In `framing`, two frames put every header violation after a whole message or inside a fragmented one. |
| Chunk bytes | `A`, `C3`, `A9` | Covers a 2-byte sequence split across fragments and invalid lone bytes. |
| Pads | 0, 130, 70000 | Reach the 16- and 64-bit length encodings. |
| `SizeBits` | 20 (17 for the wrap) | Keeps `size_t` large enough for every padded frame. |

| `UBits` (tx) | 10 | With the lengths `2^10 - 40` and `2^10 + 5`, `deflateBound + slack` crosses the `uInt` width, and `in_len` crosses it too. Both are the boundaries of the 32-bit casts at lines 121 and 123. |
| `tmp` / `uInt` (rx) | 4 bytes / 10 bits | Outputs of 0, 3, 4, 8 and 9 bytes are empty, under one chunk, exactly one and two chunks, and one byte past. The wrap run's payload of `2^10 - 2` bytes makes `len + 4` cross the width. |
| Autobahn cases `N` | 2, plus the report | One case hands over to the next, the last case hands over to the report, and the report takes the exit path. The loop-bound mutant `i < totalTestCases` needs `N >= 2`. |
| Server messages per case | 2 | An echo can be in flight while the server closes, or while the timeout fires. |

All cut points of every frame are explored.

### Fairness

- Weak fairness on `Transport`: TCP delivers what was written.
- Weak fairness on `Receiver`: the libevent loop runs the read callback and `onData` whenever they can run.
- The server has no fairness; it may stop at any time.
- In `autobahn`, there is weak fairness on the main thread, including the expiry of its timed wait, and on each loop thread's own steps: stop handling, the close timer, callbacks and thread exit. The server's steps have none. Deadlock is checked, and the only terminal state is the program's exit.
- The receiver runs set `CHECK_DEADLOCK FALSE` because a connection really does go quiet once everything is delivered.
- The `RxInflate` runs have no fairness, because they check only invariants. They set `CHECK_DEADLOCK FALSE`: after a 1007 the receiver reads nothing more, and the server sends at most `MaxMsgs` messages.

## Not modelled (yet), and the plan

- **Connection core, the rest.** `AutobahnDriver` covers what a client of the library sees. Three parts are left out:
  - **The send queue and its 1024 bound.** `WebSocketContext.cpp` is not in the repository. `spec.md` does not say what happens to sends still queued when the loop sends the local close: they could be flushed first, dropped, or written after it. A model would have to pick one, and the property that matters (no data after the close frame) would then hold or fail by that choice.
  - **The ping timer.** It only sends an empty ping, and `spec.md` leaves overlapping pings open (section 9).
  - **The composition with the receiver through the sinks.** It would put two models that each fill a run of their own into one state space.
- **BFINAL under context takeover.** Stream end is modelled in `RxInflate`, but no run sends a `"final"` message. Adding one under context takeover violates `RoundTrip`: every later message arrives empty (hazard at line 289). The spec only speaks of `Z_SYNC_FLUSH` senders, so this is recorded as a hazard.
- **Expansion.** The code bounds neither the output nor the ratio, and the spec sets no limit, so there is no property to state.
- **Out of reach.** Logging, console output, URL building and the project README.
- **RSV1 on a continuation or control frame under deflate** is modelled as the code does it, accepted and ignored, and not as RFC 7692's failure, because `spec.md` does not require the failure.
