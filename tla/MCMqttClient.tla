---------------------------- MODULE MCMqttClient ---------------------------
(* Instance of MqttClient for TLC: a buffer with room for three messages.  *)
EXTENDS MqttClient
=============================================================================
