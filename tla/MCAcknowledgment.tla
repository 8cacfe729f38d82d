-------------------------- MODULE MCAcknowledgment --------------------------
(* A small instance of Acknowledgment: sequence numbers modulo              *)
(* 2 * HalfRange and Redundant + 1 slots.                                   *)
EXTENDS Acknowledgment, TLC

CONSTANTS a, b

(* When both ends send, no definition tells one from the other.             *)
PeerSymmetry == Permutations(Peers)
=============================================================================
