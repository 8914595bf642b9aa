---------------------------- MODULE MCMqttSession ----------------------------
(* Constants for checking MqttSession with TLC.                            *)
EXTENDS MqttSession
=============================================================================
