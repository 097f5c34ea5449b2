\* Relay of one upgraded connection: ordering of the buffered stream and
\* teardown of the browser side.  A session ends with both sockets CLOSED,
\* a state with no further event, so deadlock is not checked.
CONSTANTS
  MaxClientMsgs <- MCMaxClientMsgs
  MaxDeviceMsgs <- MCMaxDeviceMsgs
SPECIFICATION Spec
INVARIANTS
  TypeOK
  RelayInOrder
  NoStrandedBuffer
  CloseCodeNamesCause
  OrphanOnlyFromLateOpen
PROPERTIES
  DeviceEndLeadsToClientEnd
  RelayRefinesPrefix
CHECK_DEADLOCK FALSE
