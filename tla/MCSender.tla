------------------------------ MODULE MCSender ------------------------------
(* Instances of SenderSession for TLC. *)
EXTENDS SenderProperties

AllModes == {"tcp-client", "tcp-server", "udp", "serial"}
=============================================================================
