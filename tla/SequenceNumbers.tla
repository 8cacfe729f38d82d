--------------------------- MODULE SequenceNumbers ---------------------------
(***************************************************************************)
(* Wrapping sequence numbers of bitfold (the u16 type SequenceNumber).     *)
(* The width is a parameter: HalfRange is 32768 in the code, so Modulus is *)
(* 2^16; the small instances that TLC checks keep the same arithmetic.     *)
(* The operators take arguments in 0 .. Modulus-1 and are written without  *)
(* the % operator, which is equal on that range and linear for a prover.   *)
(***************************************************************************)
EXTENDS Integers

CONSTANT HalfRange

ASSUME HalfRangeAssumption == HalfRange \in Nat \ {0}

Modulus == 2 * HalfRange

SequenceNumber == 0 .. Modulus - 1

(* u16::wrapping_add and u16::wrapping_sub. *)
WrappingAdd(a, b) == IF a + b < Modulus THEN a + b ELSE a + b - Modulus

WrappingSub(a, b) == IF a >= b THEN a - b ELSE a - b + Modulus

(* s1 is after s2 going round the circle; at distance HalfRange exactly the *)
(* numerically larger one counts as later.                                  *)
SequenceGreaterThan(s1, s2) ==
    \/ s1 > s2 /\ s1 - s2 <= HalfRange
    \/ s1 < s2 /\ s2 - s1 > HalfRange

SequenceLessThan(s1, s2) == SequenceGreaterThan(s2, s1)

=============================================================================
