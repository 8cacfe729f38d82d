----------------------------- MODULE MCPeerLink -----------------------------
(* Instances of PeerLink: two ends, and sequence numbers modulo 4.          *)
EXTENDS PeerLink

CONSTANTS a, b
=============================================================================
