--------------------------- MODULE AutobahnDriver ---------------------------
(***************************************************************************)
(* The Autobahn test driver (src/examples/autobahn.cpp) and the client     *)
(* connections it drives.                                                  *)
(*                                                                         *)
(* The main thread runs cases 1..N and then the report connection          *)
(* (Report = N + 1).  For case i it creates a client, registers callbacks  *)
(* that capture the loop-local done, closing, mtx and cv by reference and  *)
(* the client by weak_ptr, connects, waits on cv for done with a timeout,  *)
(* disconnects and drops the client.                                       *)
(*                                                                         *)
(* Each client has a loop thread (WebSocketContext; its source is not in   *)
(* the repository, so it is modelled from spec 4.G and 5): the connection  *)
(* state, the server's traffic, the close handshake with its timer, the    *)
(* one-shot close callback, and the callbacks it runs, one step per        *)
(* statement that touches state shared with the main thread.               *)
(***************************************************************************)
EXTENDS Naturals, FiniteSets

CONSTANTS
  N,        \* totalTestCases
  MaxMsgs   \* messages the fuzzing server sends per case

ASSUME N >= 2 /\ MaxMsgs >= 1

Report == N + 1
Clients == 1..Report

VARIABLES
  i, mainPc,      \* the main thread: loop index and position
  done, closing,  \* the loop-local flags of the current iteration
  mtx,            \* holder of mtx: "none", "main" or "loop"
  waiting,        \* main is blocked in cv.wait_for and not yet notified
  conn,           \* connection state per client (spec 4.G)
  loop,           \* its loop thread: "none", "running", "exited"
  cb,             \* the callback step the loop thread is in
  stopReq,        \* stop_requested
  closeFired,     \* close_cb_fired
  refs,           \* strong references to the WebSocketClient
  destroyed,      \* "no", or the thread that ran its destructor
  msgs,           \* messages the server sent
  echoed          \* messages the client echoed

mainVars == <<i, mainPc, done, closing, mtx, waiting>>
connVars == <<conn, loop, cb, stopReq, closeFired, refs, destroyed, msgs, echoed>>
vars == <<mainVars, connVars>>

Idle == "idle"

Init ==
  /\ i = 1 /\ mainPc = "create" /\ done = FALSE /\ closing = FALSE
  /\ mtx = "none" /\ waiting = FALSE
  /\ conn = [c \in Clients |-> "none"] /\ loop = [c \in Clients |-> "none"]
  /\ cb = [c \in Clients |-> Idle] /\ stopReq = [c \in Clients |-> FALSE]
  /\ closeFired = [c \in Clients |-> FALSE] /\ refs = [c \in Clients |-> 0]
  /\ destroyed = [c \in Clients |-> "no"]
  /\ msgs = [c \in Clients |-> 0] /\ echoed = [c \in Clients |-> 0]

\* Drop one strong reference to client c; the last one runs the
\* destructor on thread t.
Release(c, t) ==
  /\ refs' = [refs EXCEPT ![c] = @ - 1]
  /\ destroyed' = IF refs[c] = 1 THEN [destroyed EXCEPT ![c] = t] ELSE destroyed

-----------------------------------------------------------------------------
(* The main thread.                                                        *)

\* Test cases register message and binary callbacks; the report client
\* does not.
HasMessageCb(c) == c # Report

\* The test cases' close and error callbacks set closing; the report
\* client's only finish().
SetsClosing(c) == c # Report

\* A test case acts on wait_for_pred's false result by setting closing; the
\* report's wait discards the result.
TimeoutSetsClosing(c) == c # Report

\* Mutant: the message callback captures client instead of wclient, a
\* strong reference the client itself holds.
MainCreateStrongCapture ==
  /\ mainPc = "create"
  /\ refs' = [refs EXCEPT ![i] = 2]
  /\ done' = FALSE /\ closing' = FALSE
  /\ mainPc' = "connect"
  /\ UNCHANGED <<i, mtx, waiting, conn, loop, cb, stopReq, closeFired,
                 destroyed, msgs, echoed>>

\* make_shared<WebSocketClient>(), the loop-local flags, the callbacks.
MainCreate ==
  /\ mainPc = "create"
  /\ refs' = [refs EXCEPT ![i] = 1]
  /\ done' = FALSE /\ closing' = FALSE
  /\ mainPc' = "connect"
  /\ UNCHANGED <<i, mtx, waiting, conn, loop, cb, stopReq, closeFired,
                 destroyed, msgs, echoed>>

\* setUrl; connect(): the loop thread starts dialling.
MainConnect ==
  /\ mainPc = "connect"
  /\ conn' = [conn EXCEPT ![i] = "connecting"]
  /\ loop' = [loop EXCEPT ![i] = "running"]
  /\ mainPc' = "wait"
  /\ UNCHANGED <<i, done, closing, mtx, waiting, cb, stopReq, closeFired,
                 refs, destroyed, msgs, echoed>>

\* unique_lock lk(mtx); wait_for_pred: return at once if done, otherwise
\* block on cv, releasing mtx.
MainWait ==
  /\ mainPc = "wait" /\ mtx = "none"
  /\ IF done THEN mainPc' = "unlock" /\ mtx' = "main" /\ UNCHANGED waiting
     ELSE mainPc' = "waiting" /\ waiting' = TRUE /\ UNCHANGED mtx
  /\ UNCHANGED <<i, done, closing, connVars>>

\* Notified: re-acquire mtx and test the predicate again.
MainWake ==
  /\ mainPc = "waiting" /\ ~waiting /\ mtx = "none"
  /\ IF done THEN mainPc' = "unlock" /\ mtx' = "main" /\ UNCHANGED waiting
     ELSE waiting' = TRUE /\ UNCHANGED <<mainPc, mtx>>
  /\ UNCHANGED <<i, done, closing, connVars>>

\* Mutant: cv.wait(lk, pred) without a timeout.
MainTimeoutNever == FALSE

\* The timeout expires: wait_for re-acquires mtx and returns pred(); on
\* false a test case sets closing (the report ignores the result).
MainTimeout ==
  /\ mainPc = "waiting" /\ mtx = "none"
  /\ waiting' = FALSE /\ mtx' = "main" /\ mainPc' = "unlock"
  /\ closing' = (closing \/ (~done /\ TimeoutSetsClosing(i)))
  /\ UNCHANGED <<i, done, connVars>>

\* The end of the lock's scope.
MainUnlock ==
  /\ mainPc = "unlock"
  /\ mtx' = "none" /\ mainPc' = "disconnect"
  /\ UNCHANGED <<i, done, closing, waiting, connVars>>

\* client->disconnect(): request the stop ...
MainDisconnect ==
  /\ mainPc = "disconnect"
  /\ stopReq' = [stopReq EXCEPT ![i] = TRUE]
  /\ mainPc' = "join"
  /\ UNCHANGED <<i, done, closing, mtx, waiting, conn, loop, cb, closeFired,
                 refs, destroyed, msgs, echoed>>

\* Mutant: disconnect() returning without joining the loop thread.
MainJoinNoWait ==
  /\ mainPc = "join"
  /\ mainPc' = "reset"
  /\ UNCHANGED <<i, done, closing, mtx, waiting, connVars>>

\* Mutant: disconnect() returning once the connection is Closed, while the
\* loop thread may still be running the close callback.
MainJoinOnClosed ==
  /\ mainPc = "join" /\ conn[i] = "closed"
  /\ mainPc' = "reset"
  /\ UNCHANGED <<i, done, closing, mtx, waiting, connVars>>

\* ... and join the loop thread once it has exited (spec 4.G).
MainJoin ==
  /\ mainPc = "join" /\ loop[i] # "running"
  /\ mainPc' = "reset"
  /\ UNCHANGED <<i, done, closing, mtx, waiting, connVars>>

\* Mutant: the loop condition i < totalTestCases.
NextIndexShort(k) == IF k = N - 1 THEN k + 2 ELSE k + 1

\* ++i, the report block after the last case.
NextIndex(k) == k + 1

\* client.reset(), the end of the iteration; the program exits after the
\* report client.
MainReset ==
  /\ mainPc = "reset"
  /\ Release(i, "main")
  /\ IF i = Report THEN mainPc' = "exit" /\ UNCHANGED i
     ELSE i' = NextIndex(i) /\ mainPc' = "create"
  /\ UNCHANGED <<done, closing, mtx, waiting, conn, loop, cb, stopReq,
                 closeFired, msgs, echoed>>

MainStep ==
  \/ MainCreate \/ MainConnect \/ MainWait \/ MainWake \/ MainTimeout
  \/ MainUnlock \/ MainDisconnect \/ MainJoin \/ MainReset

-----------------------------------------------------------------------------
(* A client's loop thread: the connection core (spec 4.G) and the          *)
(* callbacks it runs.  Events are handled only between callbacks.          *)

Running(c) == loop[c] = "running" /\ cb[c] = Idle

SetConn(c, s) == conn' = [conn EXCEPT ![c] = s]

\* A callback sequence begins: the error callback (then the close
\* callback), or the close callback once (close_cb_fired).
StartCb(c, s) == cb' = [cb EXCEPT ![c] = s]

\* The server completes the handshake.
HandshakeOk(c) ==
  /\ Running(c) /\ conn[c] = "connecting"
  /\ SetConn(c, "open")
  /\ UNCHANGED <<mainVars, loop, cb, stopReq, closeFired, refs, destroyed,
                 msgs, echoed>>

\* Dial, TLS or handshake failure, or a transport error later: error cb,
\* then close cb(1006).
TransportError(c) ==
  /\ Running(c) /\ conn[c] \in {"connecting", "open", "closing"}
  /\ SetConn(c, "closed") /\ StartCb(c, "errStore")
  /\ UNCHANGED <<mainVars, loop, stopReq, closeFired, refs, destroyed, msgs,
                 echoed>>

\* The server sends a message: the message or binary callback runs.
ServerMessage(c) ==
  /\ Running(c) /\ conn[c] = "open" /\ msgs[c] < MaxMsgs
  /\ msgs' = [msgs EXCEPT ![c] = @ + 1]
  /\ IF HasMessageCb(c) THEN StartCb(c, "msgCheck") ELSE UNCHANGED cb
  /\ UNCHANGED <<mainVars, conn, loop, stopReq, closeFired, refs, destroyed,
                 echoed>>

\* The server's close frame, opening the handshake or answering ours.
ServerClose(c) ==
  /\ Running(c) /\ conn[c] \in {"open", "closing"}
  /\ SetConn(c, "closed") /\ StartCb(c, "closeStore")
  /\ UNCHANGED <<mainVars, loop, stopReq, closeFired, refs, destroyed, msgs,
                 echoed>>

\* The loop handles stop_requested: sends a close and arms the timer, or
\* abandons a connection still being set up.
HandleStop(c) ==
  /\ Running(c) /\ stopReq[c] /\ conn[c] \in {"connecting", "open"}
  /\ IF conn[c] = "open" THEN SetConn(c, "closing") /\ UNCHANGED cb
     ELSE SetConn(c, "closed") /\ StartCb(c, "closeStore")
  /\ UNCHANGED <<mainVars, loop, stopReq, closeFired, refs, destroyed, msgs,
                 echoed>>

\* The close timer expires without the server's reply.
CloseTimer(c) ==
  /\ Running(c) /\ conn[c] = "closing"
  /\ SetConn(c, "closed") /\ StartCb(c, "closeStore")
  /\ UNCHANGED <<mainVars, loop, stopReq, closeFired, refs, destroyed, msgs,
                 echoed>>

\* The connection is closed and its callbacks have run: the thread ends.
LoopExit(c) ==
  /\ Running(c) /\ conn[c] = "closed"
  /\ loop' = [loop EXCEPT ![c] = "exited"]
  /\ UNCHANGED <<mainVars, conn, cb, stopReq, closeFired, refs, destroyed,
                 msgs, echoed>>

\* Message or binary callback: if (closing.load()) return;
MsgCheck(c) ==
  /\ cb[c] = "msgCheck"
  /\ cb' = [cb EXCEPT ![c] = IF closing THEN Idle ELSE "msgLock"]
  /\ UNCHANGED <<mainVars, conn, loop, stopReq, closeFired, refs, destroyed,
                 msgs, echoed>>

\* if (auto c = wclient.lock()): a strong reference while the client lives.
MsgLock(c) ==
  /\ cb[c] = "msgLock"
  /\ IF refs[c] > 0
     THEN refs' = [refs EXCEPT ![c] = @ + 1] /\ cb' = [cb EXCEPT ![c] = "msgSend"]
     ELSE cb' = [cb EXCEPT ![c] = Idle] /\ UNCHANGED refs
  /\ UNCHANGED <<mainVars, conn, loop, stopReq, closeFired, destroyed, msgs,
                 echoed>>

\* c->sendMessage / sendBinary: accepted until the local close was sent.
MsgSend(c) ==
  /\ cb[c] = "msgSend"
  /\ echoed' = IF conn[c] = "open" THEN [echoed EXCEPT ![c] = @ + 1] ELSE echoed
  /\ cb' = [cb EXCEPT ![c] = "msgRelease"]
  /\ UNCHANGED <<mainVars, conn, loop, stopReq, closeFired, refs, destroyed,
                 msgs>>

\* The callback returns and its strong reference c goes out of scope.
MsgRelease(c) ==
  /\ cb[c] = "msgRelease"
  /\ Release(c, "loop")
  /\ cb' = [cb EXCEPT ![c] = Idle]
  /\ UNCHANGED <<mainVars, conn, loop, stopReq, closeFired, msgs, echoed>>

\* Close or error callback, first statement: closing.store(true), and the
\* close_cb_fired latch for the close callback (which does not run twice).
CbStore(c) ==
  /\ cb[c] \in {"errStore", "closeStore"}
  /\ closing' = (closing \/ SetsClosing(c))
  /\ IF cb[c] = "closeStore"
     THEN /\ closeFired' = [closeFired EXCEPT ![c] = TRUE]
          /\ cb' = [cb EXCEPT ![c] = IF closeFired[c] THEN Idle ELSE "closeFinish"]
     ELSE cb' = [cb EXCEPT ![c] = "errFinish"] /\ UNCHANGED closeFired
  /\ UNCHANGED <<i, mainPc, done, mtx, waiting, conn, loop, stopReq, refs,
                 destroyed, msgs, echoed>>

\* finish(): { lock_guard lk(mtx); done = true; }
CbFinish(c) ==
  /\ cb[c] \in {"errFinish", "closeFinish"} /\ mtx = "none"
  /\ done' = TRUE
  /\ cb' = [cb EXCEPT ![c] = IF cb[c] = "errFinish" THEN "errNotify" ELSE "closeNotify"]
  /\ UNCHANGED <<i, mainPc, closing, mtx, waiting, conn, loop, stopReq,
                 closeFired, refs, destroyed, msgs, echoed>>

\* cv.notify_one(); after the error callback the close callback follows.
CbNotify(c) ==
  /\ cb[c] \in {"errNotify", "closeNotify"}
  /\ waiting' = FALSE
  /\ cb' = [cb EXCEPT ![c] = IF cb[c] = "errNotify" THEN "closeStore" ELSE Idle]
  /\ UNCHANGED <<i, mainPc, done, closing, mtx, conn, loop, stopReq,
                 closeFired, refs, destroyed, msgs, echoed>>

\* Steps of the loop thread the program itself drives.
LoopStep(c) ==
  \/ HandleStop(c) \/ CloseTimer(c) \/ LoopExit(c)
  \/ MsgCheck(c) \/ MsgLock(c) \/ MsgSend(c) \/ MsgRelease(c)
  \/ CbStore(c) \/ CbFinish(c) \/ CbNotify(c)

\* Steps the server (or the network) decides.
ServerStep(c) ==
  \/ HandshakeOk(c) \/ TransportError(c) \/ ServerMessage(c) \/ ServerClose(c)

\* The program has exited.
Exited == mainPc = "exit" /\ UNCHANGED vars

Next ==
  \/ MainStep
  \/ \E c \in Clients : LoopStep(c) \/ ServerStep(c)
  \/ Exited

\* The main thread and every loop thread keep running, and the 20 s wait,
\* the 5 s report wait and the close timer do expire; the server may stop
\* answering at any point.
Spec ==
  /\ Init /\ [][Next]_vars
  /\ WF_vars(MainStep)
  /\ \A c \in Clients : WF_vars(LoopStep(c))

-----------------------------------------------------------------------------
(* Properties.                                                             *)

CbSteps == {Idle, "msgCheck", "msgLock", "msgSend", "msgRelease",
            "errStore", "errFinish", "errNotify",
            "closeStore", "closeFinish", "closeNotify"}

\* The callback steps that use done, closing, mtx or cv: the locals of the
\* loop iteration that registered them, captured by reference.
FrameSteps == CbSteps \ {Idle, "msgLock", "msgSend", "msgRelease"}

\* A callback touches the captured locals only while the iteration that
\* owns them is still running: never a later case's frame, never after
\* main has left the loop (disconnect() must stop the loop thread before
\* the frame dies).
FrameInScope ==
  \A c \in Clients : cb[c] \in FrameSteps => c = i /\ mainPc # "exit"

\* The last strong reference to a client is never dropped on its own loop
\* thread: the c obtained from wclient.lock() in an echo callback must not
\* outlive client.reset() in main, or ~WebSocketClient would run on the
\* thread it has to join.
DestroyedOffLoop == \A c \in Clients : destroyed[c] # "loop"

\* The client of every finished iteration (and the report's, at exit) has
\* been destroyed: the callbacks reach it only through wclient.lock(), and
\* every such reference is dropped before client.reset() in main; a
\* callback holding the client strongly would form a cycle and leak every
\* case's client with its loop resources.
ClientsFreed ==
  \A c \in Clients : (c < i \/ mainPc = "exit") => destroyed[c] # "no"

\* Every case and the report finish and the program exits, whatever the
\* server does: a silent server is cut off by the 20 s (5 s) timeout, and
\* no callback blocks on mtx while main waits in disconnect().
AllCasesComplete == <>(mainPc = "exit")

\* The driver runs the cases one at a time, in order, each connection shut
\* down before the next starts, and exits after the report.
Abs == INSTANCE AutobahnRun
         WITH run <- IF mainPc = "exit" THEN N + 2 ELSE i,
              live <- {c \in Clients : loop[c] = "running"}

AbsRefined == Abs!AbsSpec

=============================================================================
