--------------------------- MODULE Acknowledgment ---------------------------
(***************************************************************************)
(* AcknowledgmentHandler of bitfold-protocol, one at each end of a         *)
(* connection, driven the way Peer::process_command drives it: data is     *)
(* recorded with process_incoming(s, s, 0) and answered with an            *)
(* acknowledgement that carries the newest sequence number recorded and    *)
(* the bitfield of those before it, and an acknowledgement is recorded     *)
(* with process_incoming(s, s, mask).  So each end keeps the numbers of    *)
(* the data it receives and those of its own that were acknowledged in one *)
(* buffer, and takes incoming data for an acknowledgement of its number.   *)
(* Sent packets are tracked with process_outgoing and given up with        *)
(* dropped_packets.                                                        *)
(*                                                                         *)
(* A packet carries its absolute number, to tell apart two uses of a       *)
(* sequence number; a bitfield is the set of the offsets whose bits are    *)
(* set.                                                                    *)
(***************************************************************************)
EXTENDS SequenceBuffer, FiniteSets, FiniteSetsExt

CONSTANTS
    Peers,   \* the two ends
    Senders, \* the ends that send data
    Starts,  \* the numbers at which the observed part of a stream may start
    Ends,    \* bound: the numbers at which it ends
    MaxLag,  \* what is MaxLag numbers behind the stream further ahead is gone
             \* from the network, dropped_packets is called before a packet in
             \* flight gets older, and a stream that far behind sends no more
    MaxAcks  \* bound: acknowledgements in flight

ASSUME AcknowledgmentAssumption ==
    /\ IsFiniteSet(Peers) /\ Cardinality(Peers) = 2
    /\ Senders \subseteq Peers /\ Senders # {}
    /\ Starts \subseteq Nat /\ Ends \subseteq Nat /\ MaxAcks \in Nat
    /\ MaxLag \in 1 .. HalfRange - Size

VARIABLES
    handler,   \* the AcknowledgmentHandler of each end
    data_wire, \* data packets in flight
    ack_wire,  \* acknowledgements in flight, with the newest number they name
    next,      \* absolute number of each end's next packet
    arrived,   \* numbers of the packets that reached each end
    noted,     \* numbers each end recorded as received
    newest,    \* the newest of them, -1 if there is none
    acked,     \* numbers of the packets each end removed as acknowledged
    dropped    \* numbers of those dropped_packets returned

vars == <<handler, data_wire, ack_wire, next, arrived, noted, newest, acked, dropped>>

Other(p) == CHOOSE q \in Peers : q # p

-----------------------------------------------------------------------------
(* AcknowledgmentHandler. *)

RemoteSequenceNum(h) == WrappingSub(h.received_packets.sequence_num, 1)

AckBitfieldShifted(h) ==
    {i \in 1 .. Redundant :
        Exists(h.received_packets, WrappingSub(RemoteSequenceNum(h), i - 1))}

(* ack_bitfield.                                                            *)
AckBitfield(h) ==
    {i \in 1 .. Redundant : Exists(h.received_packets, WrappingSub(RemoteSequenceNum(h), i))}

(* process_incoming: what it acknowledges, the number itself and those the  *)
(* bitfield names, and the handler after it.                                *)
AckedSequences(ack_seq, mask) == {ack_seq} \cup {WrappingSub(ack_seq, i) : i \in mask}

ProcessIncoming(h, seq, ack_seq, mask) ==
    [h EXCEPT
       !.remote_ack_sequence_num = IF SequenceGreaterThan(ack_seq, @) THEN ack_seq ELSE @,
       !.received_packets = Insert(@, seq),
       !.sent_packets = [s \in DOMAIN @ \ AckedSequences(ack_seq, mask) |-> @[s]]]

ProcessOutgoingInPlace(h, n) ==
    [h EXCEPT !.sent_packets = [s \in DOMAIN @ \cup {h.sequence_number} |->
                                   IF s = h.sequence_number THEN n ELSE @[s]]]

(* process_outgoing.                                                        *)
ProcessOutgoing(h, n) ==
    [h EXCEPT
       !.sent_packets = [s \in DOMAIN @ \cup {h.sequence_number} |->
                            IF s = h.sequence_number THEN n ELSE @[s]],
       !.sequence_number = WrappingAdd(@, 1)]

GivesUpAtEdge(h, s) ==
    /\ SequenceLessThan(s, h.remote_ack_sequence_num)
    /\ WrappingSub(h.remote_ack_sequence_num, s) >= Redundant

(* dropped_packets: what lies more than Redundant behind the newest         *)
(* acknowledged number.                                                     *)
GivesUp(h, s) ==
    /\ SequenceLessThan(s, h.remote_ack_sequence_num)
    /\ WrappingSub(h.remote_ack_sequence_num, s) > Redundant

DroppedSequences(h) == {s \in DOMAIN h.sent_packets : GivesUp(h, s)}

WithoutDropped(h) ==
    [h EXCEPT !.sent_packets = [s \in DOMAIN @ \ DroppedSequences(h) |-> @[s]]]

InFlight(h) == {h.sent_packets[s] : s \in DOMAIN h.sent_packets}

-----------------------------------------------------------------------------
(* Neither stream is more than MaxLag ahead of n after the step.            *)
Recent(n) == \A p \in Peers : next'[p] - n <= MaxLag

(* process_outgoing, when a packet is sent.                                 *)
Send(p) ==
    /\ p \in Senders /\ next[p] \notin Ends
    /\ next' = [next EXCEPT ![p] = @ + 1]
    /\ handler' = [handler EXCEPT ![p] = ProcessOutgoing(@, next[p])]
    /\ \A q \in Peers : \A n \in InFlight(handler'[q]) : Recent(n)
    /\ data_wire' = {d \in data_wire : Recent(d.number)}
                      \cup {[to |-> Other(p), sequence |-> handler[p].sequence_number,
                             number |-> next[p]]}
    /\ ack_wire' = {a \in ack_wire : Recent(a.number)}
    /\ UNCHANGED <<arrived, noted, newest, acked, dropped>>

(* process_incoming at end p, and which packets it was about.               *)
Record(p, sequence, mask, number) ==
    /\ handler' = [handler EXCEPT ![p] = ProcessIncoming(@, sequence, sequence, mask)]
    /\ noted' = [noted EXCEPT ![p] = @ \cup {number}]
    /\ newest' = [newest EXCEPT ![p] = IF number > @ THEN number ELSE @]
    /\ acked' = [acked EXCEPT ![p] = @ \cup (InFlight(handler[p]) \ InFlight(handler'[p]))]

(* The SendReliable arm, with enqueue_ack_command.  The SendFragment arm    *)
(* differs in that only the last fragment to arrive is acknowledged: the    *)
(* acknowledgement of another may as well be lost.                          *)
ReceiveData(d) ==
    /\ Record(d.to, d.sequence, {}, d.number)
    /\ arrived' = [arrived EXCEPT ![d.to] = @ \cup {d.number}]
    /\ ack_wire' = ack_wire \cup
                     {[to |-> Other(d.to), sequence |-> RemoteSequenceNum(handler'[d.to]),
                       mask |-> AckBitfield(handler'[d.to]), number |-> newest'[d.to]]}
    /\ Cardinality(ack_wire') <= MaxAcks
    /\ data_wire' \in {data_wire, data_wire \ {d}}
    /\ UNCHANGED <<next, dropped>>

(* The Acknowledge arm.                                                     *)
ReceiveAck(a) ==
    /\ Record(a.to, a.sequence, a.mask, a.number)
    /\ ack_wire' \in {ack_wire, ack_wire \ {a}}
    /\ UNCHANGED <<data_wire, next, arrived, dropped>>

(* Peer::gather_dropped_packets.                                            *)
GatherDroppedPackets(p) ==
    /\ DroppedSequences(handler[p]) # {}
    /\ handler' = [handler EXCEPT ![p] = WithoutDropped(@)]
    /\ dropped' = [dropped EXCEPT ![p] = @ \cup (InFlight(handler[p]) \ InFlight(handler'[p]))]
    /\ UNCHANGED <<data_wire, ack_wire, next, arrived, noted, newest, acked>>

LoseData(d) ==
    /\ data_wire' = data_wire \ {d}
    /\ UNCHANGED <<handler, ack_wire, next, arrived, noted, newest, acked, dropped>>

LoseAck(a) ==
    /\ ack_wire' = ack_wire \ {a}
    /\ UNCHANGED <<handler, data_wire, next, arrived, noted, newest, acked, dropped>>

(* The state after the packets 0 .. n-1 of every sender were sent, received *)
(* and acknowledged, one after the other.                                   *)
LastReceived(n) ==
    [i \in 0 .. Size - 1 |->
        LET latest == {m \in Max({0, n - Size}) .. n - 1 : Index(m % Modulus) = i}
        IN  IF latest = {} THEN Empty ELSE Max(latest) % Modulus]

SentBefore(p, n) == IF p \in Senders THEN n ELSE 0

HandlerAt(p, n) ==
    [sequence_number |-> SentBefore(p, n) % Modulus,
     remote_ack_sequence_num |-> (n + Modulus - 1) % Modulus,
     sent_packets |-> [s \in {} |-> 0],
     received_packets |-> [NewBuffer EXCEPT !.sequence_num = n % Modulus,
                                            !.entry_sequences = LastReceived(n)]]

Init ==
    \E n \in Starts :
        /\ handler = [p \in Peers |-> HandlerAt(p, n)]
        /\ next = [p \in Peers |-> SentBefore(p, n)]
        /\ arrived = [p \in Peers |-> 0 .. SentBefore(Other(p), n) - 1]
        /\ acked = [p \in Peers |-> 0 .. SentBefore(p, n) - 1]
        /\ noted = [p \in Peers |-> 0 .. n - 1] /\ newest = [p \in Peers |-> n - 1]
        /\ dropped = [p \in Peers |-> {}]
        /\ data_wire = {} /\ ack_wire = {}

Next ==
    \/ \E p \in Peers : Send(p) \/ GatherDroppedPackets(p)
    \/ \E d \in data_wire : ReceiveData(d) \/ LoseData(d)
    \/ \E a \in ack_wire : ReceiveAck(a) \/ LoseAck(a)

Spec == Init /\ [][Next]_vars

-----------------------------------------------------------------------------
TypeOK ==
    \A p \in Peers :
        /\ handler[p].sequence_number \in SequenceNumber
        /\ handler[p].remote_ack_sequence_num \in SequenceNumber
        /\ handler[p].received_packets.sequence_num \in SequenceNumber
        /\ \A i \in 0 .. Size - 1 :
              handler[p].received_packets.entry_sequences[i] \in SequenceNumber \cup {Empty}
        /\ acked[p] \cup dropped[p] \subseteq 0 .. next[p] - 1
        /\ arrived[p] \subseteq 0 .. next[Other(p)] - 1

(* The numbers under which data reached this end or the other.              *)
Exchanged == UNION {arrived[p] : p \in Peers}

(* A packet leaves sent_packets as acknowledged only if that very packet    *)
(* reached the other end, or the other end's packet with the same number    *)
(* reached this one, which process_command takes for an acknowledgement;    *)
(* never because of a packet a turn of the sequence number earlier, and     *)
(* whatever is lost, repeated or reordered.  When data goes one way nothing *)
(* reaches the sender, and the packet itself was received.                  *)
AckedWasReceived == \A p \in Peers : acked[p] \subseteq Exchanged

(* dropped_packets gives up no packet while it could still be acknowledged  *)
(* by the newest acknowledgement: data more than Redundant after it has     *)
(* reached one of the ends.                                                 *)
DroppedIsPastTheWindow ==
    \A p \in Peers : \A n \in dropped[p] : \E m \in Exchanged : m > n + Redundant

(* Every sent packet is in flight, acknowledged or dropped, and no two of   *)
(* these: none is forgotten when its sequence number comes round again.     *)
EveryPacketAccounted ==
    \A p \in Peers :
        /\ InFlight(handler[p]) \cup acked[p] \cup dropped[p] = 0 .. next[p] - 1
        /\ acked[p] \cap dropped[p] = {}
        /\ InFlight(handler[p]) \cap (acked[p] \cup dropped[p]) = {}

(* The slots of the ring collide for 2 * Redundant packets after a wrap,    *)
(* because Size does not divide Modulus.                                    *)
AwayFromWrap(p) == newest[p] < Modulus \/ newest[p] % Modulus >= 2 * Redundant

(* The bitfield names only numbers that process_incoming was given, always, *)
(* and away from the wrap of the sequence number all of them; they are      *)
(* numbers under which data was received at one of the ends.                *)
BitfieldIsExact ==
    \A p \in Peers :
        LET seen == {i \in 1 .. Redundant : newest[p] - i \in noted[p]}
        IN  /\ noted[p] \subseteq Exchanged
            /\ AckBitfield(handler[p]) \subseteq seen
            /\ AwayFromWrap(p) => AckBitfield(handler[p]) = seen

(* The bookkeeping of AcknowledgmentHandler: every packet sent is in one    *)
(* place.                                                                   *)
HandlerInv == TypeOK /\ EveryPacketAccounted

(* "Returns the number of sent packets not yet acknowledged": what left     *)
(* sent_packets otherwise than dropped was received by the other end.  It   *)
(* holds where one end sends; with data both ways incoming data removes the *)
(* receiver's own packet of the same number, and AckedWasReceived is what   *)
(* is left.                                                                 *)
InFlightUntilReceived == \A p \in Peers : acked[p] \subseteq arrived[Other(p)]

=============================================================================
