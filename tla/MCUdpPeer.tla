----------------------------- MODULE MCUdpPeer -----------------------------
(* Peers, channels and the loop on a small instance. *)
EXTENDS UdpPeer

=============================================================================
