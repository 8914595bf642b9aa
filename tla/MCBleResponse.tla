---------------------------- MODULE MCBleResponse ----------------------------
(* Constants for checking BleResponse with TLC.                            *)
EXTENDS BleResponse
=============================================================================
