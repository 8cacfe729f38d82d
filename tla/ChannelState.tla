---------------------------- MODULE ChannelState ----------------------------
(***************************************************************************)
(* One ChannelState of bitfold-peer: the receiver's half of ordered and    *)
(* sequenced delivery on a channel.  process_ordered and process_sequenced *)
(* are driven by a remote that numbers its packets 0, 1, 2, ... with       *)
(* wrapping u16 arithmetic, over a network that reorders and loses them    *)
(* and may deliver a packet more than once.  process_ordered buffers a     *)
(* repeated packet again, under a number that a later turn reuses: what is *)
(* proved of a stream that meets duplicates is proved of one that ends     *)
(* before its numbers wrap, MaxRepeated < Modulus.                         *)
(* The payload of a packet is its absolute number (how many were sent      *)
(* before it), so that the order of delivery can be stated.                *)
(***************************************************************************)
EXTENDS ChannelBuffer, Sequences

CONSTANTS
    MaxOrdered,    \* bound: how many ordered packets the remote sends
    MaxRepeated,   \* bound: how many of them if the network repeats packets
    OrderedWindow, \* the remote's limit on undelivered ordered packets
    MaxSequenced,  \* bound: how many sequenced packets the remote sends
    MaxLag         \* a sequenced packet MaxLag sends old is gone from the network

ASSUME ChannelAssumption ==
    /\ MaxOrdered \in Nat /\ MaxRepeated \in Nat /\ MaxSequenced \in Nat
    /\ OrderedWindow \in 1 .. Modulus
    /\ MaxLag \in 1 .. HalfRange

VARIABLES
    expected_sequence, \* next sequence number of the ordered stream
    buffered_packets,  \* the HashMap of early packets: sequence number -> data
    latest_sequence,   \* latest sequence number of the sequenced stream
    ordered_sent,      \* remote: ordered packets sent so far
    ordered_next,      \* remote: sequence number of the next ordered packet
    ordered_wire,      \* network: ordered packets in flight
    duplicates,        \* network: does it repeat ordered packets in this session?
    delivered,         \* application: ordered payloads, in order of delivery
    sequenced_sent, sequenced_next, sequenced_wire,
    newest             \* application: the sequenced payload delivered last; -1 if none

channel == <<expected_sequence, buffered_packets, latest_sequence>>
orderedEnv == <<ordered_sent, ordered_next, ordered_wire, delivered, duplicates>>
sequencedEnv == <<sequenced_sent, sequenced_next, sequenced_wire, newest>>
vars == <<channel, orderedEnv, sequencedEnv>>

Data == Nat
PacketRecord == [sequence : SequenceNumber, data : Data]

-----------------------------------------------------------------------------
(* ChannelState::process_ordered. *)

ProcessOrdered(p) ==
    /\ p \in ordered_wire
    /\ LET buffer == BufferInsert(buffered_packets, p)
       IN  \E k \in 0 .. Modulus :
              /\ DrainsExactly(buffer, expected_sequence, k)
              /\ delivered' = delivered \o ReadyPackets(buffer, expected_sequence, k)
              /\ buffered_packets' = Drained(buffer, expected_sequence, k)
              /\ expected_sequence' = WrappingAdd(expected_sequence, k)
    /\ \/ ordered_wire' = ordered_wire \ {p}
       \/ duplicates /\ ordered_wire' = ordered_wire
    /\ UNCHANGED <<latest_sequence, ordered_sent, ordered_next, duplicates, sequencedEnv>>

-----------------------------------------------------------------------------
(* ChannelState::process_sequenced. *)

ProcessSequenced(p) ==
    /\ p \in sequenced_wire
    /\ IF Accepts(p.sequence, latest_sequence)
       THEN /\ latest_sequence' = p.sequence
            /\ newest' = p.data
       ELSE UNCHANGED <<latest_sequence, newest>>
    /\ \/ sequenced_wire' = sequenced_wire \ {p}
       \/ UNCHANGED sequenced_wire            \* the network keeps a copy
    /\ UNCHANGED <<expected_sequence, buffered_packets, orderedEnv,
                   sequenced_sent, sequenced_next>>

-----------------------------------------------------------------------------
(* The remote and the network. *)

SendOrdered ==
    /\ ordered_sent < MaxOrdered
    /\ ordered_sent - Len(delivered) < OrderedWindow
    /\ duplicates => ordered_sent < MaxRepeated
    /\ ordered_wire' = ordered_wire \cup
                         {[sequence |-> ordered_next, data |-> ordered_sent]}
    /\ ordered_sent' = ordered_sent + 1
    /\ ordered_next' = WrappingAdd(ordered_next, 1)
    /\ UNCHANGED <<channel, delivered, duplicates, sequencedEnv>>

LoseOrdered(p) ==
    /\ p \in ordered_wire
    /\ ordered_wire' = ordered_wire \ {p}
    /\ UNCHANGED <<channel, ordered_sent, ordered_next, delivered, duplicates, sequencedEnv>>

(* A new sequenced packet; those MaxLag sends old leave the network, and    *)
(* the application is fewer than MaxLag packets behind.                     *)
SendSequenced ==
    /\ sequenced_sent < MaxSequenced
    /\ sequenced_sent - newest < MaxLag
    /\ sequenced_wire' =
         {p \in sequenced_wire \cup
                  {[sequence |-> sequenced_next, data |-> sequenced_sent]} :
              sequenced_sent - p.data < MaxLag}
    /\ sequenced_sent' = sequenced_sent + 1
    /\ sequenced_next' = WrappingAdd(sequenced_next, 1)
    /\ UNCHANGED <<channel, orderedEnv, newest>>

LoseSequenced(p) ==
    /\ p \in sequenced_wire
    /\ sequenced_wire' = sequenced_wire \ {p}
    /\ UNCHANGED <<channel, orderedEnv, sequenced_sent, sequenced_next, newest>>

Init ==
    /\ expected_sequence = 0
    /\ buffered_packets = [s \in {} |-> 0]
    /\ latest_sequence = 0
    /\ ordered_sent = 0 /\ ordered_next = 0 /\ ordered_wire = {}
    /\ delivered = << >> /\ duplicates \in BOOLEAN
    /\ sequenced_sent = 0 /\ sequenced_next = 0 /\ sequenced_wire = {}
    /\ newest = -1

Next ==
    \/ SendOrdered
    \/ SendSequenced
    \/ \E p \in ordered_wire : ProcessOrdered(p) \/ LoseOrdered(p)
    \/ \E p \in sequenced_wire : ProcessSequenced(p) \/ LoseSequenced(p)

Spec == Init /\ [][Next]_vars

-----------------------------------------------------------------------------
TypeOK ==
    /\ expected_sequence \in SequenceNumber
    /\ DOMAIN buffered_packets \subseteq SequenceNumber
    /\ \A s \in DOMAIN buffered_packets : buffered_packets[s] \in Data
    /\ latest_sequence \in SequenceNumber
    /\ ordered_sent \in 0 .. MaxOrdered
    /\ ordered_next \in SequenceNumber
    /\ ordered_wire \in SUBSET PacketRecord
    /\ delivered \in Seq(Data)
    /\ duplicates \in BOOLEAN
    /\ sequenced_sent \in 0 .. MaxSequenced
    /\ sequenced_next \in SequenceNumber
    /\ sequenced_wire \in SUBSET PacketRecord
    /\ newest \in Data \cup {-1}

(* process_ordered hands the application the remote's payloads in the order *)
(* they were sent: no gap, no repetition, no swap, whatever the network did *)
(* and however often the u16 sequence number wrapped.  It fails where the   *)
(* network repeats packets of a stream that wraps.                          *)
OrderedDelivery == \A i \in 1 .. Len(delivered) : delivered[i] = i - 1

(* process_ordered buffers only what is ahead: its loop never leaves behind *)
(* the packet the application waits for, and without duplicates every       *)
(* buffered packet is still to be delivered, so that the HashMap holds no   *)
(* leftovers and is bounded by the remote's window.                         *)
BufferIsAhead ==
    \A s \in DOMAIN buffered_packets :
        /\ buffered_packets[s] # Len(delivered)
        /\ duplicates \/ buffered_packets[s] \in Len(delivered) + 1 .. ordered_sent - 1

(* What process_ordered promises its caller, whatever the network did: the  *)
(* stream of OrderedStream, which knows nothing of numbers or buffers.      *)
Promise == INSTANCE OrderedStream WITH sent <- ordered_sent, received <- delivered
ImplementsOrderedStream == Promise!Spec

(* process_sequenced delivers what is newer than the packet delivered last, *)
(* also across the wrap of the sequence number, while fewer than HalfRange  *)
(* packets in a row are missed; and it goes back to an older packet in one  *)
(* case only: the packet that carries sequence number 0.                    *)
SequencedDelivery ==
    [][\A p \in sequenced_wire :
          ProcessSequenced(p) =>
              /\ p.data > newest => newest' = p.data
              /\ newest' < newest => latest_sequence' = 0]_vars

=============================================================================
