----------------------------- MODULE MCPushButton ----------------------------
(* Constants for checking PushButton with TLC.                             *)
EXTENDS PushButton
=============================================================================
