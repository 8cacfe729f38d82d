------------------------- MODULE MCUnsequencedState -------------------------
(* Instances of UnsequencedState: windows of a few words of a few bits.     *)
EXTENDS UnsequencedState
=============================================================================
