----------------------------- MODULE MCTcpProxy -----------------------------
(* Instances of TcpProxySession for TLC. *)
EXTENDS TcpProxyProperties
=============================================================================
