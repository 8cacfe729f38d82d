--------------------------- MODULE OrderedStream ----------------------------
(***************************************************************************)
(* What an ordered channel promises: the receiving application gets the    *)
(* payloads of the sending one in the order they were sent, each at most   *)
(* once and none before it was sent; one arrival may release any number of *)
(* payloads.  A payload is the number of payloads sent before it.          *)
(***************************************************************************)
EXTENDS Naturals, Sequences

VARIABLES
    sent,     \* number of payloads sent so far
    received  \* payloads handed to the receiving application

Submit == sent' = sent + 1 /\ UNCHANGED received

NextPayloads(k) == [i \in 1 .. k |-> Len(received) + i - 1]

Release(k) ==
    /\ Len(received) + k <= sent
    /\ received' = received \o NextPayloads(k)
    /\ UNCHANGED sent

Init == sent = 0 /\ received = << >>

Next == Submit \/ \E k \in 0 .. sent : Release(k)

Spec == Init /\ [][Next]_<<sent, received>>
=============================================================================
