--------------------------- MODULE MCChannelState ---------------------------
(* Small instances of ChannelState: sequence numbers modulo 2 * HalfRange.  *)
EXTENDS ChannelState
=============================================================================
