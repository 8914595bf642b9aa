----------------------------- MODULE MCWifiLink -----------------------------
(* Constants for checking WifiLink with TLC.                               *)
EXTENDS WifiLink
=============================================================================
