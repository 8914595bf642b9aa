--------------------------- MODULE MCMqttRxQueue ---------------------------
(* Constants for checking MqttRxQueue with TLC are in the .cfg files.      *)
EXTENDS MqttRxQueue
=============================================================================
