-------------------------- MODULE MCFragmentation --------------------------
(* Small instances of Fragmentation: keys modulo 2 * HalfRange.             *)
EXTENDS Fragmentation
=============================================================================
