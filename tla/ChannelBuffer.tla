---------------------------- MODULE ChannelBuffer ----------------------------
(***************************************************************************)
(* What ChannelState of bitfold-peer computes on one packet: the buffer of *)
(* ordered packets, a HashMap from sequence number to payload, the loop    *)
(* that drains it, and the test that accepts a sequenced packet.           *)
(***************************************************************************)
EXTENDS SequenceNumbers

(* ChannelState::process_ordered. *)

(* self.buffered_packets.insert(sequence, data): a later arrival with the   *)
(* same number replaces the earlier one.                                    *)
BufferInsert(buffer, p) ==
    [s \in DOMAIN buffer \cup {p.sequence} |->
        IF s = p.sequence THEN p.data ELSE buffer[s]]

(* The while-let loop removes k consecutive packets and then finds none.    *)
DrainsAtMostOne(buffer, expected, k) ==
    IF expected \in DOMAIN buffer THEN k = 1 ELSE k = 0

DrainsExactly(buffer, expected, k) ==
    /\ \A i \in 0 .. k - 1 : WrappingAdd(expected, i) \in DOMAIN buffer
    /\ k < Modulus => WrappingAdd(expected, k) \notin DOMAIN buffer

ReadyReversed(buffer, expected, k) ==
    [i \in 1 .. k |-> buffer[WrappingAdd(expected, k - i)]]

ReadyPackets(buffer, expected, k) ==
    [i \in 1 .. k |-> buffer[WrappingAdd(expected, i - 1)]]

Drained(buffer, expected, k) ==
    LET removed == {WrappingAdd(expected, i) : i \in 0 .. k - 1}
    IN  [s \in DOMAIN buffer \ removed |-> buffer[s]]

-----------------------------------------------------------------------------
(* ChannelState::process_sequenced. *)

IsNewerShort(sequence, latest) == WrappingSub(sequence, latest) < HalfRange - 1

IsNewer(sequence, latest) == WrappingSub(sequence, latest) < HalfRange

Accepts(sequence, latest) == IsNewer(sequence, latest) \/ sequence = 0

=============================================================================
