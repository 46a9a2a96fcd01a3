------------------------------ MODULE MCTunnel ------------------------------
(* Tunnel with the small values the MCTunnel*.cfg files give its constants. *)
EXTENDS Tunnel
=============================================================================
