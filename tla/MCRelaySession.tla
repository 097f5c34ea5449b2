--------------------------- MODULE MCRelaySession ---------------------------
(* Model-checking instance of RelaySession: three browser messages are     *)
(* enough to have one forwarded, one buffered before the device opens and  *)
(* one arriving after a teardown; two ttyd messages let one reach the      *)
(* browser and one be dropped.                                             *)
EXTENDS RelaySession

MCMaxClientMsgs == 3
MCMaxDeviceMsgs == 2

=============================================================================
