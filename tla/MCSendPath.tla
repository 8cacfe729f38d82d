----------------------------- MODULE MCSendPath -----------------------------
(* Instances of SendPath: the sizes are scaled down from 1024-byte          *)
(* fragments, keeping which command fits where.                             *)
EXTENDS SendPath

WholeHeaders == [k \in Kinds |-> 1]
FragmentHeaders == [k \in Kinds |-> 2]
=============================================================================
