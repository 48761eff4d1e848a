---------------------------- MODULE MCMqttSession ----------------------------
(* Instance of MqttSession: two prefixes and devices, the clock wraps. *)
EXTENDS MqttSession

CONSTANTS p1, p2, d1, d2

MCPrefixes == {p1, p2}
MCDevices == {d1, d2}
=============================================================================
