-------------------------- MODULE UnsequencedState --------------------------
(***************************************************************************)
(* UnsequencedState of bitfold-peer: the sliding window of received group  *)
(* numbers that filters duplicates of unsequenced packets.  The window is  *)
(* an array of words; a word is the set of the bits that are set in it     *)
(* (32 words of 32 bits in the code).                                      *)
(*                                                                         *)
(* The remote numbers its packets with a wrapping counter; a packet stays  *)
(* in the network for MaxDelay sends and may arrive in that time never,    *)
(* once or several times.  The payload is the packet's absolute number.    *)
(***************************************************************************)
EXTENDS SequenceNumbers, FiniteSets

CONSTANTS
    WordBits,    \* bits in a word: 32
    Words,       \* words in the window: 32
    FirstGroup,  \* the remote's counter when this session was created
    MaxSent,     \* bound: packets the remote sends
    MaxDelay,    \* how many sends a packet can stay in the network
    MaxGap       \* how far the remote runs ahead of the last packet received

WindowSize == Words * WordBits

ASSUME UnsequencedAssumption ==
    /\ WordBits \in Nat /\ WordBits >= 2 /\ Words \in Nat /\ Words >= 2
    /\ WindowSize < HalfRange
    /\ FirstGroup \in SequenceNumber
    /\ MaxSent \in Nat
    /\ MaxDelay \in 1 .. HalfRange
    /\ MaxGap \in 1 .. HalfRange

VARIABLES
    incoming_unsequenced_group,  \* base of the window
    unsequenced_window,          \* the words
    outgoing_unsequenced_group,  \* the remote's counter
    sent,                        \* absolute number of the next packet
    wire,                        \* packets in the network
    delivered,                   \* those of the last MaxDelay packets that were delivered
    highest,                     \* the greatest absolute number delivered
    repeated                     \* was some packet delivered twice?

unsequenced_vars ==
    <<incoming_unsequenced_group, unsequenced_window,
      outgoing_unsequenced_group, sent, wire, delivered, highest, repeated>>

EmptyWindow == [i \in 0 .. Words - 1 |-> {}]

BitIsSet(window, offset) == offset % WordBits \in window[offset \div WordBits]

-----------------------------------------------------------------------------
NeverOld(offset) == FALSE

(* More than half the circle ahead is behind. *)
IsOld(offset) == offset > HalfRange

IsDuplicate(group) ==
    LET offset == WrappingSub(group, incoming_unsequenced_group)
    IN  /\ unsequenced_window # EmptyWindow
        /\ IF offset < WindowSize THEN BitIsSet(unsequenced_window, offset) ELSE IsOld(offset)

-----------------------------------------------------------------------------
(* mark_received: the two loops that shift the window.                      *)

ShiftWords(window, shift) ==
    [i \in 0 .. Words - 1 |-> IF i + shift < Words THEN window[i + shift] ELSE {}]

ShiftBitsNoCarry(window, shift) ==
    [i \in 0 .. Words - 1 |-> {b - shift : b \in {x \in window[i] : x >= shift}}]

(* Each word takes the low bits of the next one in at its top.              *)
ShiftBits(window, shift) ==
    [i \in 0 .. Words - 1 |->
        {b - shift : b \in {x \in window[i] : x >= shift}}
          \cup (IF i + 1 < Words
                THEN {b + WordBits - shift : b \in {x \in window[i + 1] : x < shift}}
                ELSE {})]

(* A reset window skips the second loop, which would change nothing in it.  *)
Shifted(window, advance) ==
    ShiftBits(ShiftWords(window, advance \div WordBits), advance % WordBits)

AdvanceToGroup(offset) == IF offset >= WindowSize /\ ~IsOld(offset) THEN offset ELSE 0

(* How far the base moves: the new packet ends up in the middle.            *)
Advance(offset) ==
    IF offset >= WindowSize /\ ~IsOld(offset) THEN offset - WindowSize \div 2 ELSE 0

SetBit(window, offset) ==
    IF offset < WindowSize
    THEN [window EXCEPT ![offset \div WordBits] = @ \cup {offset % WordBits}]
    ELSE window

MarkReceived(group) ==
    LET advance == Advance(WrappingSub(group, incoming_unsequenced_group))
        base == WrappingAdd(incoming_unsequenced_group, advance)
    IN  /\ incoming_unsequenced_group' = base
        /\ unsequenced_window' =
              SetBit(Shifted(unsequenced_window, advance), WrappingSub(group, base))

-----------------------------------------------------------------------------
(* The SEND_UNSEQUENCED arm of process_command.                             *)
ReceiveGroup(p) ==
    /\ p \in wire
    /\ IF IsDuplicate(p.group)
       THEN UNCHANGED <<incoming_unsequenced_group, unsequenced_window,
                        delivered, highest, repeated>>
       ELSE /\ MarkReceived(p.group)
            /\ repeated' = (repeated \/ p.data \in delivered)
            /\ delivered' = delivered \cup {p.data}
            /\ highest' = IF p.data > highest THEN p.data ELSE highest
    /\ UNCHANGED <<outgoing_unsequenced_group, sent, wire>>

InNetwork(n) == sent - n < MaxDelay

(* next_outgoing_group, and a packet with that number.                      *)
SendGroup ==
    /\ sent < FirstGroup + MaxSent
    /\ sent - highest <= MaxGap
    /\ wire' = {p \in wire : InNetwork(p.data)}
                 \cup {[group |-> outgoing_unsequenced_group, data |-> sent]}
    /\ delivered' = {n \in delivered : InNetwork(n)}
    /\ outgoing_unsequenced_group' = WrappingAdd(outgoing_unsequenced_group, 1)
    /\ sent' = sent + 1
    /\ UNCHANGED <<incoming_unsequenced_group, unsequenced_window, highest, repeated>>

UnsequencedInit ==
    /\ incoming_unsequenced_group = 0
    /\ unsequenced_window = EmptyWindow
    /\ outgoing_unsequenced_group = FirstGroup
    /\ sent = FirstGroup
    /\ wire = {} /\ delivered = {}
    /\ highest = FirstGroup - 1
    /\ repeated = FALSE

UnsequencedNext == SendGroup \/ \E p \in wire : ReceiveGroup(p)

UnsequencedSpec == UnsequencedInit /\ [][UnsequencedNext]_unsequenced_vars

-----------------------------------------------------------------------------
UnsequencedTypeOK ==
    /\ incoming_unsequenced_group \in SequenceNumber
    /\ unsequenced_window \in [0 .. Words - 1 -> SUBSET (0 .. WordBits - 1)]
    /\ outgoing_unsequenced_group \in SequenceNumber
    /\ sent \in FirstGroup .. FirstGroup + MaxSent
    /\ \A p \in wire : p.group \in SequenceNumber /\ p.data \in FirstGroup .. sent - 1
    /\ delivered \subseteq FirstGroup .. sent - 1
    /\ highest \in FirstGroup - 1 .. sent - 1
    /\ repeated \in BOOLEAN

(* "No duplicates": is_duplicate and mark_received together let no packet   *)
(* through twice, whatever order packets and their copies come in, across   *)
(* slides of the window and the wrap of the group number.                   *)
DeliveredAtMostOnce == ~repeated

(* The window is exact: for a packet in the network whose number falls into *)
(* the window, the bit mark_received maintains by shifting words and bits   *)
(* is set if and only if the packet was delivered.                          *)
WindowIsExact ==
    \A p \in wire :
        LET offset == WrappingSub(p.group, incoming_unsequenced_group)
        IN  offset < WindowSize =>
              (BitIsSet(unsequenced_window, offset) <=> p.data \in delivered)

(* Filtering duplicates costs no packet that is ahead of the others or at   *)
(* most half a window late: is_duplicate lets the first copy of it through. *)
LatePacketIsAccepted ==
    \A p \in wire :
        p.data \notin delivered /\ highest - p.data <= WindowSize \div 2
            => ~IsDuplicate(p.group)

(* The state of mark_received: words of bits that are exactly the packets   *)
(* delivered within the window.                                             *)
WindowInv == UnsequencedTypeOK /\ WindowIsExact

=============================================================================
