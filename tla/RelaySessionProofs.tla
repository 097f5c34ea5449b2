------------------------- MODULE RelaySessionProofs -------------------------
(***************************************************************************)
(* Proofs about the relay of one upgraded connection (RelaySession), for   *)
(* every value of the message bounds.                                      *)
(***************************************************************************)
EXTENDS RelaySession, SequenceTheorems, TLAPS

\* Appending the next arrival number to the first n arrivals gives the
\* first n + 1 arrivals.
LEMMA IotaAppend ==
  ASSUME NEW n \in Nat
  PROVE  Append(Iota(n), n + 1) = Iota(n + 1)
BY DEF Iota

\* Appending to the second part of a concatenation appends to the whole.
LEMMA ConcatAppend ==
  ASSUME NEW S, NEW s \in Seq(S), NEW t \in Seq(S), NEW x \in S
  PROVE  s \o Append(t, x) = Append(s \o t, x)
<1>1. Append(t, x) = t \o <<x>>
  BY AppendIsConcat
<1>2. Append(s \o t, x) = (s \o t) \o <<x>>
  BY AppendIsConcat, ConcatProperties
<1>3. (s \o t) \o <<x>> = s \o (t \o <<x>>)
  BY ConcatAssociative
<1>4. QED
  BY <1>1, <1>2, <1>3

-----------------------------------------------------------------------------
(* Type correctness.                                                       *)

\* Each step of the relay keeps the types.
LEMMA TypeStep == TypeOK /\ [Next]_vars => TypeOK'
<1> SUFFICES ASSUME TypeOK, [Next]_vars PROVE TypeOK'
  OBVIOUS
<1> USE DEF TypeOK, CloseIfOpen, CloseClient, WsStates
<1>1. CASE OnClientMessage
  <2>1. clientRecvd + 1 \in 1..MaxClientMsgs /\ clientRecvd' \in 0..MaxClientMsgs
    BY <1>1, BoundsAssumption DEF OnClientMessage
  <2>2. UNCHANGED <<clientWs, deviceWs, deviceRecvd, toClient, closeCode, deviceFailed,
                   deviceOpenedLate>>
    BY <1>1 DEF OnClientMessage
  <2>3. CASE deviceWs = "OPEN"
    <3>1. Append(toDevice, clientRecvd + 1) \in Seq(1..MaxClientMsgs)
      BY <2>1, AppendProperties
    <3>2. toDevice' = Append(toDevice, clientRecvd + 1) /\ pending' = pending
      BY <1>1, <2>3 DEF OnClientMessage
    <3>3. QED
      BY <2>1, <2>2, <3>1, <3>2
  <2>4. CASE deviceWs # "OPEN"
    <3>1. Append(pending, clientRecvd + 1) \in Seq(1..MaxClientMsgs)
      BY <2>1, AppendProperties
    <3>2. pending' = Append(pending, clientRecvd + 1) /\ toDevice' = toDevice
      BY <1>1, <2>4 DEF OnClientMessage
    <3>3. QED
      BY <2>1, <2>2, <3>1, <3>2
  <2>5. QED
    BY <2>3, <2>4
<1>2. CASE ClientPeerClose
  BY <1>2 DEF ClientPeerClose
<1>3. CASE OnClientError
  BY <1>3 DEF OnClientError
<1>4. CASE OnClientClose
  BY <1>4 DEF OnClientClose
<1>5. CASE OnDeviceOpen
  BY <1>5, ConcatProperties DEF OnDeviceOpen
<1>6. CASE OnDeviceDialFailure
  BY <1>6 DEF OnDeviceDialFailure
<1>7. CASE OnDeviceMessage
  <2>1. deviceRecvd + 1 \in 1..MaxDeviceMsgs /\ deviceRecvd' \in 0..MaxDeviceMsgs
    BY <1>7, BoundsAssumption DEF OnDeviceMessage
  <2>2. UNCHANGED <<clientWs, deviceWs, pending, clientRecvd, toDevice, closeCode,
                   deviceFailed, deviceOpenedLate>>
    BY <1>7 DEF OnDeviceMessage
  <2>3. toClient' \in Seq(1..MaxDeviceMsgs)
    <3>1. Append(toClient, deviceRecvd + 1) \in Seq(1..MaxDeviceMsgs)
      BY <2>1, AppendProperties
    <3>2. CASE clientWs = "OPEN"
      <4>1. toClient' = Append(toClient, deviceRecvd + 1)
        BY <1>7, <3>2 DEF OnDeviceMessage
      <4>2. QED
        BY <3>1, <4>1
    <3>3. CASE clientWs # "OPEN"
      <4>1. toClient' = toClient
        BY <1>7, <3>3 DEF OnDeviceMessage
      <4>2. QED
        BY <4>1
    <3>4. QED
      BY <3>2, <3>3
  <2>4. QED
    BY <2>1, <2>2, <2>3
<1>8. CASE DevicePeerClose
  BY <1>8 DEF DevicePeerClose
<1>9. CASE OnDeviceError
  BY <1>9 DEF OnDeviceError
<1>10. CASE OnDeviceClose
  BY <1>10 DEF OnDeviceClose
<1>11. CASE UNCHANGED vars
  BY <1>11 DEF vars
<1>12. QED
  BY <1>1, <1>2, <1>3, <1>4, <1>5, <1>6, <1>7, <1>8, <1>9, <1>10, <1>11
     DEF Next

\* The initial state has the types.
LEMMA TypeInit == Init => TypeOK
<1> SUFFICES ASSUME Init PROVE TypeOK
  OBVIOUS
<1>1. deviceFailed \in BOOLEAN /\ deviceOpenedLate \in BOOLEAN
  BY Zenon DEF Init
<1>2. QED
  BY <1>1, BoundsAssumption DEF Init, TypeOK, WsStates

\* Every reachable state has the types TypeOK states: the readyStates are
\* ws states, and the buffers and histories hold message numbers within
\* the bounds.
THEOREM TypeCorrect == Spec => []TypeOK
<1>1. Init => TypeOK
  BY TypeInit
<1>2. QED
  BY <1>1, TypeStep, PTL DEF Spec

-----------------------------------------------------------------------------
(* The client -> device stream.                                            *)

\* RelayInOrder alone is not inductive: a message forwarded directly keeps
\* the stream in order only because the pending array is empty whenever
\* deviceWs is OPEN.  The two together, with the types, are.
IInv == TypeOK /\ RelayInOrder /\ NoStrandedBuffer

LEMMA IInvInit == Init => IInv
BY TypeInit DEF Init, IInv, RelayInOrder, NoStrandedBuffer, Iota

LEMMA IInvNext == IInv /\ [Next]_vars => IInv'
<1> SUFFICES ASSUME IInv, [Next]_vars PROVE IInv'
  OBVIOUS
<1>0. TypeOK'
  BY TypeStep DEF IInv
<1> DEFINE S == 1..MaxClientMsgs
<1>a. /\ pending \in Seq(S) /\ toDevice \in Seq(S)
      /\ clientRecvd \in 0..MaxClientMsgs
  BY DEF IInv, TypeOK
<1>b. Append(Iota(clientRecvd), clientRecvd + 1) = Iota(clientRecvd + 1)
  BY <1>a, IotaAppend
<1> USE <1>0 DEF IInv
<1>1. CASE OnClientMessage
  <2>1. CASE deviceWs = "OPEN"
    <3>1. pending = <<>> /\ toDevice = Iota(clientRecvd)
      BY <2>1, <1>a, ConcatEmptySeq DEF NoStrandedBuffer, RelayInOrder
    <3>2. toDevice' = Iota(clientRecvd + 1) /\ pending' = <<>>
      BY <1>1, <2>1, <3>1, <1>b DEF OnClientMessage
    <3>3. toDevice' \o pending' = Iota(clientRecvd')
      BY <1>1, <3>2, <1>a, ConcatEmptySeq, BoundsAssumption DEF OnClientMessage, TypeOK
    <3>4. QED
      BY <1>1, <2>1, <3>2, <3>3 DEF OnClientMessage, RelayInOrder, NoStrandedBuffer
  <2>2. CASE deviceWs # "OPEN"
    <3>1. pending' = Append(pending, clientRecvd + 1) /\ toDevice' = toDevice
      BY <1>1, <2>2 DEF OnClientMessage
    <3>2. toDevice' \o pending' = Append(toDevice \o pending, clientRecvd + 1)
      BY <3>1, <1>a, ConcatAppend, BoundsAssumption DEF OnClientMessage
    <3>3. toDevice' \o pending' = Iota(clientRecvd')
      BY <1>1, <3>2, <1>b DEF OnClientMessage, RelayInOrder
    <3>4. QED
      BY <1>1, <2>2, <3>3 DEF OnClientMessage, RelayInOrder, NoStrandedBuffer
  <2>3. QED
    BY <2>1, <2>2
<1>2. CASE OnDeviceOpen
  BY <1>2, <1>a, ConcatEmptySeq, ConcatProperties
  DEF OnDeviceOpen, RelayInOrder, NoStrandedBuffer
<1>3. CASE ClientPeerClose \/ OnDeviceMessage \/ DevicePeerClose
  BY <1>3 DEF ClientPeerClose, OnDeviceMessage, DevicePeerClose,
              RelayInOrder, NoStrandedBuffer
<1>4. CASE OnClientError \/ OnClientClose
  BY <1>4 DEF OnClientError, OnClientClose, CloseIfOpen,
              RelayInOrder, NoStrandedBuffer
<1>5. CASE OnDeviceDialFailure \/ OnDeviceError \/ OnDeviceClose
  BY <1>5 DEF OnDeviceDialFailure, OnDeviceError, OnDeviceClose, CloseClient,
              RelayInOrder, NoStrandedBuffer
<1>6. CASE UNCHANGED vars
  BY <1>6 DEF vars, RelayInOrder, NoStrandedBuffer
<1>7. QED
  BY <1>1, <1>2, <1>3, <1>4, <1>5, <1>6 DEF Next

\* Every message the proxy receives from the browser is sent to ttyd or is
\* still buffered, the sent ones first, in arrival order and none twice
\* (the pending array of the upgrade callback and its flush on "open").
THEOREM RelayOrdered == Spec => []RelayInOrder
<1>1. IInv => RelayInOrder
  BY DEF IInv
<1>2. QED
  BY IInvInit, IInvNext, <1>1, PTL DEF Spec

\* No message is ever left in the pending array while deviceWs is OPEN.
THEOREM BufferNeverStranded == Spec => []NoStrandedBuffer
<1>1. IInv => NoStrandedBuffer
  BY DEF IInv
<1>2. QED
  BY IInvInit, IInvNext, <1>1, PTL DEF Spec

-----------------------------------------------------------------------------
(* Refinement of PrefixRelay, in both directions.                          *)

\* The ttyd -> browser stream has no gap while clientWs is OPEN: the
\* forwarder only drops a message once clientWs has left OPEN, and it never
\* returns there.
ClientStreamIntact == clientWs = "OPEN" => toClient = Iota(deviceRecvd)

LEMMA ClientStreamStep ==
  TypeOK /\ ClientStreamIntact /\ [Next]_vars => ClientStreamIntact'
<1> SUFFICES ASSUME TypeOK, ClientStreamIntact, [Next]_vars
             PROVE  ClientStreamIntact'
  OBVIOUS
<1>1. CASE OnDeviceMessage
  <2>1. deviceRecvd \in Nat
    BY DEF TypeOK
  <2>2. CASE clientWs = "OPEN"
    <3>1. toClient = Iota(deviceRecvd)
      BY <2>2 DEF ClientStreamIntact
    <3>2. Append(Iota(deviceRecvd), deviceRecvd + 1) = Iota(deviceRecvd + 1)
      BY <2>1, IotaAppend
    <3>3. QED
      BY <1>1, <2>2, <3>1, <3>2 DEF OnDeviceMessage, ClientStreamIntact
  <2>3. CASE clientWs # "OPEN"
    BY <1>1, <2>3 DEF OnDeviceMessage, ClientStreamIntact
  <2>4. QED
    BY <2>2, <2>3
<1>2. CASE OnClientMessage \/ OnDeviceOpen
  BY <1>2 DEF OnClientMessage, OnDeviceOpen, ClientStreamIntact
<1>3. CASE ClientPeerClose \/ OnClientError \/ OnClientClose \/ DevicePeerClose
  BY <1>3 DEF ClientPeerClose, OnClientError, OnClientClose, DevicePeerClose,
              ClientStreamIntact
<1>4. CASE OnDeviceDialFailure \/ OnDeviceError \/ OnDeviceClose
  BY <1>4 DEF OnDeviceDialFailure, OnDeviceError, OnDeviceClose, CloseClient,
              CloseIfOpen, ClientStreamIntact
<1>5. CASE UNCHANGED vars
  BY <1>5 DEF vars, ClientStreamIntact
<1>6. QED
  BY <1>1, <1>2, <1>3, <1>4, <1>5 DEF Next

\* The invariant the refinement rests on.
RInv == IInv /\ ClientStreamIntact

LEMMA RInvSpec == Spec => []RInv
<1>1. Init => RInv
  BY IInvInit DEF Init, RInv, ClientStreamIntact, Iota
<1>2. RInv /\ [Next]_vars => RInv'
  BY IInvNext, ClientStreamStep DEF RInv, IInv
<1>3. QED
  BY <1>1, <1>2, PTL DEF Spec

\* Each step of the relay is a step of the browser -> ttyd PrefixRelay or
\* leaves its state alone.
LEMMA ToDeviceStep ==
  RInv /\ [Next]_vars
    => [ToDevice!Next]_<<clientRecvd, toDevice, deviceWs \in {"CLOSING", "CLOSED"}>>
<1> SUFFICES ASSUME RInv, [Next]_vars
             PROVE  [ToDevice!Next]_<<clientRecvd, toDevice,
                                      deviceWs \in {"CLOSING", "CLOSED"}>>
  OBVIOUS
<1>a. /\ pending \in Seq(1..MaxClientMsgs) /\ toDevice \in Seq(1..MaxClientMsgs)
      /\ clientRecvd \in 0..MaxClientMsgs
  BY DEF RInv, IInv, TypeOK
<1>1. CASE OnClientMessage
  <2>1. CASE deviceWs = "OPEN"
    <3>1. toDevice = Iota(clientRecvd)
      BY <2>1, <1>a, ConcatEmptySeq DEF RInv, IInv, NoStrandedBuffer, RelayInOrder
    <3>2. QED
      BY <1>1, <2>1, <3>1 DEF OnClientMessage, ToDevice!Next, ToDevice!Pass,
                               ToDevice!Arrivals, Iota
  <2>2. CASE deviceWs # "OPEN"
    BY <1>1, <2>2 DEF OnClientMessage, ToDevice!Next, ToDevice!Hold
  <2>3. QED
    BY <2>1, <2>2
<1>2. CASE OnDeviceOpen
  <2>1. toDevice \o pending = Iota(clientRecvd)
    BY DEF RInv, IInv, RelayInOrder
  <2>2. QED
    BY <1>2, <2>1 DEF OnDeviceOpen, ToDevice!Next, ToDevice!Release,
                       ToDevice!Arrivals, Iota
<1>3. CASE OnClientError \/ OnClientClose \/ OnDeviceDialFailure
           \/ DevicePeerClose \/ OnDeviceError
  BY <1>3 DEF OnClientError, OnClientClose, OnDeviceDialFailure, DevicePeerClose,
              OnDeviceError, CloseIfOpen, CloseClient, ToDevice!Next, ToDevice!Close
<1>4. CASE ClientPeerClose \/ OnDeviceMessage \/ OnDeviceClose
  BY <1>4 DEF ClientPeerClose, OnDeviceMessage, OnDeviceClose, CloseClient
<1>5. CASE UNCHANGED vars
  BY <1>5 DEF vars
<1>6. QED
  BY <1>1, <1>2, <1>3, <1>4, <1>5 DEF Next

\* Each step of the relay is a step of the ttyd -> browser PrefixRelay or
\* leaves its state alone.
LEMMA ToClientStep ==
  RInv /\ [Next]_vars
    => [ToClient!Next]_<<deviceRecvd, toClient, clientWs # "OPEN">>
<1> SUFFICES ASSUME RInv, [Next]_vars
             PROVE  [ToClient!Next]_<<deviceRecvd, toClient, clientWs # "OPEN">>
  OBVIOUS
<1>1. CASE OnDeviceMessage
  <2>1. CASE clientWs = "OPEN"
    BY <1>1, <2>1 DEF RInv, ClientStreamIntact, OnDeviceMessage, ToClient!Next,
                      ToClient!Pass, ToClient!Arrivals, Iota
  <2>2. CASE clientWs # "OPEN"
    BY <1>1, <2>2 DEF OnDeviceMessage, ToClient!Next, ToClient!Hold
  <2>3. QED
    BY <2>1, <2>2
<1>2. CASE ClientPeerClose \/ OnClientError \/ OnDeviceDialFailure
           \/ OnDeviceError \/ OnDeviceClose
  BY <1>2 DEF ClientPeerClose, OnClientError, OnDeviceDialFailure, OnDeviceError,
              OnDeviceClose, CloseClient, CloseIfOpen, ToClient!Next, ToClient!Close
<1>3. CASE OnClientMessage \/ OnClientClose \/ OnDeviceOpen \/ DevicePeerClose
  BY <1>3 DEF OnClientMessage, OnClientClose, OnDeviceOpen, DevicePeerClose
<1>4. CASE UNCHANGED vars
  BY <1>4 DEF vars
<1>5. QED
  BY <1>1, <1>2, <1>3, <1>4 DEF Next

\* The relay implements PrefixRelay in both directions, for every bound:
\* the handlers of the upgrade callback send each stream's first messages
\* in order, flush the buffer in one batch on "open", never send past a
\* buffered message, and send nothing on a socket that has left OPEN.
THEOREM RelayRefinement == Spec => RelayRefinesPrefix
<1>1. Init => ToDevice!Init /\ ToClient!Init
  BY DEF Init, ToDevice!Init, ToClient!Init
<1>2. QED
  BY <1>1, RInvSpec, ToDeviceStep, ToClientStep, PTL
  DEF Spec, RelayRefinesPrefix, ToDevice!Spec, ToClient!Spec

-----------------------------------------------------------------------------
(* Close codes.                                                            *)

\* CloseCodeNamesCause is not inductive: a clean close of ttyd's socket
\* tells the browser 1001 only because a failed one has already closed the
\* browser's socket, and 1001 can only be overtaken by a device error
\* while ttyd's socket is still open.
CodeInv ==
  /\ CloseCodeNamesCause
  /\ closeCode = 1001 => deviceWs = "CLOSED"
  /\ deviceFailed => clientWs # "OPEN"

LEMMA CodeStep == TypeOK /\ CodeInv /\ [Next]_vars => CodeInv'
<1> SUFFICES ASSUME TypeOK, CodeInv, [Next]_vars PROVE CodeInv'
  OBVIOUS
<1> USE DEF CodeInv, CloseCodeNamesCause
<1>1. CASE OnDeviceDialFailure \/ OnDeviceError
  <2>1. deviceFailed' /\ clientWs' # "OPEN" /\ deviceWs # "CLOSED"
    BY <1>1 DEF OnDeviceDialFailure, OnDeviceError, CloseClient, CloseIfOpen
  <2>2. closeCode' \in {closeCode, 1011}
    BY <1>1 DEF OnDeviceDialFailure, OnDeviceError, CloseClient
  <2>3. closeCode' \in {0, 1011}
    BY <2>1, <2>2 DEF TypeOK
  <2>4. QED
    BY <2>1, <2>3
<1>2. CASE OnDeviceClose
  <2>1. deviceWs' = "CLOSED" /\ deviceFailed' = deviceFailed
    BY <1>2 DEF OnDeviceClose
  <2>2. clientWs = "OPEN" => closeCode' = 1001 /\ ~deviceFailed /\ clientWs' # "OPEN"
    BY <1>2 DEF OnDeviceClose, CloseClient, CloseIfOpen
  <2>3. clientWs # "OPEN" => closeCode' = closeCode /\ clientWs' = clientWs
    BY <1>2 DEF OnDeviceClose, CloseClient, CloseIfOpen
  <2>4. closeCode # 1001
    BY <1>2 DEF OnDeviceClose
  <2>5. QED
    BY <2>1, <2>2, <2>3, <2>4
<1>3. CASE OnClientError \/ OnClientClose
  BY <1>3 DEF OnClientError, OnClientClose, CloseIfOpen
<1>4. CASE OnClientMessage \/ ClientPeerClose \/ OnDeviceOpen
           \/ OnDeviceMessage \/ DevicePeerClose
  BY <1>4 DEF OnClientMessage, ClientPeerClose, OnDeviceOpen, OnDeviceMessage,
              DevicePeerClose
<1>5. CASE UNCHANGED vars
  BY <1>5 DEF vars
<1>6. QED
  BY <1>1, <1>2, <1>3, <1>4, <1>5 DEF Next

\* The browser is closed with 1011 exactly when ttyd's socket failed and
\* with 1001 when it closed cleanly (the error and close handlers of
\* deviceWs, with ws emitting "error" before "close").
THEOREM CloseCodesDistinct == Spec => []CloseCodeNamesCause
<1>1. Init => TypeOK /\ CodeInv
  BY TypeInit DEF Init, CodeInv, CloseCodeNamesCause
<1>2. TypeOK /\ CodeInv /\ [Next]_vars => TypeOK' /\ CodeInv'
  BY TypeStep, CodeStep
<1>3. QED
  BY <1>1, <1>2, PTL DEF Spec, CodeInv


-----------------------------------------------------------------------------
(* The orphaned device socket.                                             *)

\* Each step keeps OrphanOnlyFromLateOpen: only the client close handler
\* makes clientWs CLOSED, and it closes an OPEN deviceWs; only the open
\* handler makes deviceWs OPEN, and it records whether clientWs was CLOSED.
LEMMA OrphanStep ==
  TypeOK /\ OrphanOnlyFromLateOpen /\ [Next]_vars => OrphanOnlyFromLateOpen'
<1> SUFFICES ASSUME TypeOK, OrphanOnlyFromLateOpen, [Next]_vars
             PROVE  OrphanOnlyFromLateOpen'
  OBVIOUS
<1> USE DEF OrphanOnlyFromLateOpen
<1>1. CASE OnClientClose
  BY <1>1 DEF OnClientClose, CloseIfOpen
<1>2. CASE OnDeviceOpen
  BY <1>2 DEF OnDeviceOpen
<1>3. CASE OnClientError
  BY <1>3 DEF OnClientError, CloseIfOpen
<1>4. CASE OnDeviceDialFailure \/ OnDeviceError \/ OnDeviceClose
  BY <1>4 DEF OnDeviceDialFailure, OnDeviceError, OnDeviceClose, CloseClient,
              CloseIfOpen
<1>5. CASE OnClientMessage \/ ClientPeerClose \/ OnDeviceMessage
           \/ DevicePeerClose
  BY <1>5 DEF OnClientMessage, ClientPeerClose, OnDeviceMessage,
              DevicePeerClose
<1>6. CASE UNCHANGED vars
  BY <1>6 DEF vars
<1>7. QED
  BY <1>1, <1>2, <1>3, <1>4, <1>5, <1>6 DEF Next

\* ttyd's socket is left OPEN beside a CLOSED browser socket only when the
\* dial opened after the browser's close handler had run: the client close
\* and error handlers close every OPEN deviceWs, so the race with the dial
\* (finding relay_orphan) is the only way the device end is orphaned.
THEOREM OrphanOnlyLate == Spec => []OrphanOnlyFromLateOpen
<1>1. Init => OrphanOnlyFromLateOpen
  BY DEF Init, OrphanOnlyFromLateOpen
<1>2. QED
  BY <1>1, TypeCorrect, OrphanStep, PTL DEF Spec

=============================================================================
