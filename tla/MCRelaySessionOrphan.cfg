\* The browser closes while the dial to ttyd is still in progress.
CONSTANTS
  MaxClientMsgs <- MCMaxClientMsgs
  MaxDeviceMsgs <- MCMaxDeviceMsgs
SPECIFICATION Spec
INVARIANTS
  NoOrphanedDevice
CHECK_DEADLOCK FALSE
