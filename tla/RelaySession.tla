---------------------------- MODULE RelaySession ----------------------------
(***************************************************************************)
(* The relay state machine of one upgraded connection: the callback that   *)
(* createProxyServer passes to wss.handleUpgrade (server.ts).  The proxy   *)
(* holds two WebSockets, clientWs (the browser) and deviceWs (ttyd on the  *)
(* device), each with the readyState of the ws library.  Every action is   *)
(* one event delivered by the event loop together with the whole handler   *)
(* the code registers for it; handlers run to completion, so each is one   *)
(* atomic step.                                                            *)
(*                                                                         *)
(* Messages are abstracted to their arrival number: the i-th message the   *)
(* proxy receives from the client is i, and likewise for the device.  The  *)
(* history variables toDevice and toClient record what the proxy handed to *)
(* deviceWs.send and clientWs.send, in order.                              *)
(***************************************************************************)
EXTENDS Naturals, Sequences

CONSTANTS
  MaxClientMsgs,   \* bound on the messages the browser sends
  MaxDeviceMsgs    \* bound on the messages ttyd sends

ASSUME BoundsAssumption ==
  /\ MaxClientMsgs \in Nat
  /\ MaxDeviceMsgs \in Nat

\* WebSocket.CONNECTING, OPEN, CLOSING, CLOSED of the ws library.
WsStates == {"CONNECTING", "OPEN", "CLOSING", "CLOSED"}

VARIABLES
  clientWs,     \* readyState of the proxy's socket to the browser
  deviceWs,     \* readyState of the proxy's socket to ttyd
  pending,      \* the pending array: client messages waiting for device open
  clientRecvd,  \* number of messages received from the browser
  toDevice,     \* messages passed to deviceWs.send, in order
  deviceRecvd,  \* number of messages received from ttyd
  toClient,     \* messages passed to clientWs.send, in order
  closeCode,    \* code of the proxy's clientWs.close (0: never called)
  deviceFailed, \* history: deviceWs emitted "error"
  deviceOpenedLate \* history: deviceWs opened after clientWs was CLOSED

vars == <<clientWs, deviceWs, pending, clientRecvd, toDevice,
          deviceRecvd, toClient, closeCode, deviceFailed, deviceOpenedLate>>

\* The sequence <<1, ..., n>>: the first n messages in arrival order.
Iota(n) == [i \in 1..n |-> i]

\* `if (ws.readyState === WebSocket.OPEN) ws.close(...)`: the teardown guard
\* every close and error handler applies to the other socket.
CloseIfOpen(state) == IF state = "OPEN" THEN "CLOSING" ELSE state

\* `if (clientWs.readyState === WebSocket.OPEN) clientWs.close(code, ...)`.
CloseClient(code) ==
  /\ clientWs' = CloseIfOpen(clientWs)
  /\ closeCode' = IF clientWs = "OPEN" THEN code ELSE closeCode

TypeOK ==
  /\ clientWs \in WsStates
  /\ deviceWs \in WsStates
  /\ pending \in Seq(1..MaxClientMsgs)
  /\ clientRecvd \in 0..MaxClientMsgs
  /\ toDevice \in Seq(1..MaxClientMsgs)
  /\ deviceRecvd \in 0..MaxDeviceMsgs
  /\ toClient \in Seq(1..MaxDeviceMsgs)
  /\ closeCode \in {0, 1001, 1011}
  /\ deviceFailed \in BOOLEAN
  /\ deviceOpenedLate \in BOOLEAN

\* handleUpgrade has produced an OPEN clientWs; connect(ttydUrl) has started
\* the dial, and the pending array is empty.
Init ==
  /\ clientWs = "OPEN"
  /\ deviceWs = "CONNECTING"
  /\ pending = <<>>
  /\ clientRecvd = 0
  /\ toDevice = <<>>
  /\ deviceRecvd = 0
  /\ toClient = <<>>
  /\ closeCode = 0
  /\ deviceFailed = FALSE
  /\ deviceOpenedLate = FALSE

-----------------------------------------------------------------------------
(* Faulty variants of the handlers below, each a plausible slip in the     *)
(* code, used as mutation checks: each must make a property fail.          *)

\* The ttyd forwarder sends the frame received before this one.
OnDeviceMessageStale ==
  /\ deviceWs \in {"OPEN", "CLOSING"}
  /\ deviceRecvd < MaxDeviceMsgs
  /\ deviceRecvd' = deviceRecvd + 1
  /\ toClient' = IF clientWs = "OPEN" THEN Append(toClient, deviceRecvd)
                                      ELSE toClient
  /\ UNCHANGED <<clientWs, deviceWs, pending, clientRecvd, toDevice, closeCode,
                 deviceFailed,
                 deviceOpenedLate>>

\* The ttyd forwarder omits the readyState check and sends to the browser
\* whatever state clientWs is in.
OnDeviceMessageUnguarded ==
  /\ deviceWs \in {"OPEN", "CLOSING"}
  /\ deviceRecvd < MaxDeviceMsgs
  /\ deviceRecvd' = deviceRecvd + 1
  /\ toClient' = Append(toClient, deviceRecvd + 1)
  /\ UNCHANGED <<clientWs, deviceWs, pending, clientRecvd, toDevice, closeCode,
                 deviceFailed,
                 deviceOpenedLate>>

\* On a failed dial the "close" handler runs before the "error" handler,
\* so the browser is told 1001 and the error handler finds it CLOSING.
OnDeviceDialFailureCloseFirst ==
  /\ deviceWs = "CONNECTING"
  /\ deviceWs' = "CLOSED"
  /\ CloseClient(1001)
  /\ deviceFailed' = TRUE
  /\ UNCHANGED <<pending, clientRecvd, toDevice, deviceRecvd, toClient,
                 deviceOpenedLate>>

\* The open handler flushes but omits `pending.length = 0`.
OnDeviceOpenKeepsBuffer ==
  /\ deviceWs = "CONNECTING"
  /\ deviceWs' = "OPEN"
  /\ toDevice' = toDevice \o pending
  /\ deviceOpenedLate' = (clientWs = "CLOSED")
  /\ UNCHANGED <<clientWs, pending, clientRecvd, deviceRecvd, toClient,
                 closeCode, deviceFailed>>

\* The open handler only registers the ttyd forwarder and never flushes.
OnDeviceOpenNoFlush ==
  /\ deviceWs = "CONNECTING"
  /\ deviceWs' = "OPEN"
  /\ deviceOpenedLate' = (clientWs = "CLOSED")
  /\ UNCHANGED <<clientWs, pending, clientRecvd, toDevice, deviceRecvd,
                 toClient, closeCode, deviceFailed>>

\* The client close handler does not close deviceWs.
OnClientCloseKeepsDevice ==
  /\ clientWs = "CLOSING"
  /\ clientWs' = "CLOSED"
  /\ UNCHANGED <<deviceWs, pending, clientRecvd, toDevice, deviceRecvd,
                 toClient, closeCode, deviceFailed, deviceOpenedLate>>

\* The device close handler does not close clientWs.
OnDeviceCloseNoTeardown ==
  /\ deviceWs = "CLOSING"
  /\ deviceWs' = "CLOSED"
  /\ UNCHANGED <<clientWs, pending, clientRecvd, toDevice, deviceRecvd,
                 toClient, closeCode, deviceFailed,
                 deviceOpenedLate>>

-----------------------------------------------------------------------------
(* Events on clientWs.                                                     *)

\* clientWs.on("message"): forward when deviceWs is OPEN, else buffer.  ws
\* keeps delivering frames while a locally initiated close is in progress.
OnClientMessage ==
  /\ clientWs \in {"OPEN", "CLOSING"}
  /\ clientRecvd < MaxClientMsgs
  /\ clientRecvd' = clientRecvd + 1
  /\ IF deviceWs = "OPEN"
       THEN /\ toDevice' = Append(toDevice, clientRecvd + 1)
            /\ UNCHANGED pending
       ELSE /\ pending' = Append(pending, clientRecvd + 1)
            /\ UNCHANGED toDevice
  /\ UNCHANGED <<clientWs, deviceWs, deviceRecvd, toClient, closeCode,
                 deviceFailed,
                 deviceOpenedLate>>

\* The browser starts the closing handshake (or its TCP connection drops):
\* ws answers and moves to CLOSING; no handler of the proxy runs yet.
ClientPeerClose ==
  /\ clientWs = "OPEN"
  /\ clientWs' = "CLOSING"
  /\ UNCHANGED <<deviceWs, pending, clientRecvd, toDevice, deviceRecvd,
                 toClient, closeCode, deviceFailed,
                 deviceOpenedLate>>

\* clientWs.on("error"): ws has already moved the socket to CLOSING; the
\* handler logs and closes deviceWs if it is OPEN.
OnClientError ==
  /\ clientWs \in {"OPEN", "CLOSING"}
  /\ clientWs' = "CLOSING"
  /\ deviceWs' = CloseIfOpen(deviceWs)
  /\ UNCHANGED <<pending, clientRecvd, toDevice, deviceRecvd, toClient,
                 closeCode, deviceFailed,
                 deviceOpenedLate>>

\* clientWs.on("close"): the socket is CLOSED; close deviceWs if OPEN.
OnClientClose ==
  /\ clientWs = "CLOSING"
  /\ clientWs' = "CLOSED"
  /\ deviceWs' = CloseIfOpen(deviceWs)
  /\ UNCHANGED <<pending, clientRecvd, toDevice, deviceRecvd, toClient,
                 closeCode, deviceFailed,
                 deviceOpenedLate>>

-----------------------------------------------------------------------------
(* Events on deviceWs.                                                     *)

\* deviceWs.on("open"): the readyState is OPEN for the whole handler, so
\* every buffered message is sent, in order, and the array is emptied; the
\* handler also registers the ttyd -> browser forwarder.
OnDeviceOpen ==
  /\ deviceWs = "CONNECTING"
  /\ deviceWs' = "OPEN"
  /\ toDevice' = toDevice \o pending
  /\ pending' = <<>>
  /\ deviceOpenedLate' = (clientWs = "CLOSED")
  /\ UNCHANGED <<clientWs, clientRecvd, deviceRecvd, toClient, closeCode,
                 deviceFailed>>

\* The dial fails (refused, unreachable, rejected handshake): ws emits
\* "error" and then "close" in the same tick.  The error handler closes
\* clientWs with 1011 if it is OPEN; the close handler then finds it CLOSING.
OnDeviceDialFailure ==
  /\ deviceWs = "CONNECTING"
  /\ deviceWs' = "CLOSED"
  /\ CloseClient(1011)
  /\ deviceFailed' = TRUE
  /\ UNCHANGED <<pending, clientRecvd, toDevice, deviceRecvd, toClient,
                 deviceOpenedLate>>

\* deviceWs.on("message") (registered in the open handler): forward to the
\* browser when clientWs is OPEN, otherwise drop.
OnDeviceMessage ==
  /\ deviceWs \in {"OPEN", "CLOSING"}
  /\ deviceRecvd < MaxDeviceMsgs
  /\ deviceRecvd' = deviceRecvd + 1
  /\ toClient' = IF clientWs = "OPEN"
                   THEN Append(toClient, deviceRecvd + 1)
                   ELSE toClient
  /\ UNCHANGED <<clientWs, deviceWs, pending, clientRecvd, toDevice, closeCode,
                 deviceFailed,
                 deviceOpenedLate>>

\* ttyd starts the closing handshake (the shell exited) or its TCP
\* connection drops.
DevicePeerClose ==
  /\ deviceWs = "OPEN"
  /\ deviceWs' = "CLOSING"
  /\ UNCHANGED <<clientWs, pending, clientRecvd, toDevice, deviceRecvd,
                 toClient, closeCode, deviceFailed,
                 deviceOpenedLate>>

\* deviceWs.on("error") on an established socket: close clientWs with 1011.
OnDeviceError ==
  /\ deviceWs \in {"OPEN", "CLOSING"}
  /\ deviceWs' = "CLOSING"
  /\ CloseClient(1011)
  /\ deviceFailed' = TRUE
  /\ UNCHANGED <<pending, clientRecvd, toDevice, deviceRecvd, toClient,
                 deviceOpenedLate>>

\* deviceWs.on("close"): close clientWs with 1001 if it is OPEN.
OnDeviceClose ==
  /\ deviceWs = "CLOSING"
  /\ deviceWs' = "CLOSED"
  /\ CloseClient(1001)
  /\ UNCHANGED <<pending, clientRecvd, toDevice, deviceRecvd, toClient,
                 deviceFailed,
                 deviceOpenedLate>>

-----------------------------------------------------------------------------

Next ==
  \/ OnClientMessage
  \/ ClientPeerClose
  \/ OnClientError
  \/ OnClientClose
  \/ OnDeviceOpen
  \/ OnDeviceDialFailure
  \/ OnDeviceMessage
  \/ DevicePeerClose
  \/ OnDeviceError
  \/ OnDeviceClose

\* A closing handshake always ends: ws destroys the socket after its close
\* timeout and then emits "close".  Nothing else is fair: the browser and
\* ttyd send, close and fail when they like, and the dial has no timeout.
Fairness ==
  /\ WF_vars(OnClientClose)
  /\ WF_vars(OnDeviceClose)

Spec == Init /\ [][Next]_vars /\ Fairness

-----------------------------------------------------------------------------
(* Properties.                                                             *)

\* Client -> device stream (spec 3, 5): every message received from the
\* browser has either been sent to ttyd or is still in the pending array,
\* the sent ones before the buffered ones, all in arrival order and none
\* twice.  Breaks if the open handler does not drain the whole array in
\* order before later messages are forwarded, or drains it twice.
RelayInOrder == toDevice \o pending = Iota(clientRecvd)

\* No message waits in the pending array while deviceWs is OPEN: the open
\* handler flushes it, and nothing is buffered afterwards until deviceWs
\* leaves OPEN.  A message stranded there would never be sent.
NoStrandedBuffer == deviceWs = "OPEN" => pending = <<>>

\* Once ttyd's socket is CLOSED, the browser's socket is eventually CLOSED
\* too (spec 4.3 step 6: every exit path closes both ends): the device close
\* and error handlers close clientWs.
DeviceEndLeadsToClientEnd == (deviceWs = "CLOSED") ~> (clientWs = "CLOSED")

\* Spec 6: the browser learns why the proxy closed it: 1011 ("Device
\* connection error") exactly when ttyd's socket failed (a refused or
\* broken dial, a transport error), 1001 ("Device disconnected") when it
\* closed cleanly.  Rests on ws emitting "error" before "close", so that
\* the error handler's close wins over the close handler's.
CloseCodeNamesCause == closeCode # 0 => (closeCode = 1011 <=> deviceFailed)

\* Each direction of the session as PrefixRelay describes it.  Browser ->
\* ttyd: the far side is deviceWs, closed once it leaves CONNECTING and
\* OPEN; ttyd -> browser: the far side is clientWs, closed once it leaves
\* OPEN.
ToDevice == INSTANCE PrefixRelay
              WITH arrived <- clientRecvd, delivered <- toDevice,
                   closed <- deviceWs \in {"CLOSING", "CLOSED"}

ToClient == INSTANCE PrefixRelay
              WITH arrived <- deviceRecvd, delivered <- toClient,
                   closed <- clientWs # "OPEN"

\* Both directions of the relay implement PrefixRelay (spec 3, 4.3 and 5):
\* each sends the first messages of its stream in order, flushes what it
\* buffered in one batch and never sends past a buffered message, and
\* sends nothing once the far socket has left OPEN, which it never
\* re-enters.  That it buffers only while ttyd's socket is connecting is
\* NoStrandedBuffer's part.  Breaks if a forwarder or the flush sends on a socket that is
\* closing, or forwards a message while older ones are still buffered.
RelayRefinesPrefix == ToDevice!Spec /\ ToClient!Spec

\* What is left of spec 4.3 step 6 in the code: ttyd's socket is OPEN
\* while the browser's is CLOSED only when the dial opened after the
\* browser's close handler had run (and found deviceWs CONNECTING).  The
\* client close and error handlers close every OPEN deviceWs, and nothing
\* reopens a socket, so the race with the dial is the only way to orphan it.
OrphanOnlyFromLateOpen ==
  (clientWs = "CLOSED" /\ deviceWs = "OPEN") => deviceOpenedLate

\* The converse (spec 4.3 step 6): ttyd's socket is never left OPEN once
\* the browser's socket is CLOSED, since the client close and error
\* handlers close deviceWs.
NoOrphanedDevice == ~(clientWs = "CLOSED" /\ deviceWs = "OPEN")

=============================================================================
