---------------------------- MODULE Fragmentation ----------------------------
(***************************************************************************)
(* Large messages of bitfold: the sender cuts a message into fragment      *)
(* commands (fragmenter.rs), the receiver collects them in one             *)
(* CommandFragmentBuffer per sequence number and puts the message together *)
(* (command_processor.rs, fragment_buffer.rs).  The sequence number is the *)
(* key: reliable messages take local_sequence_num(), which stays 0 because *)
(* nothing in the send path advances it, and unreliable ones take a        *)
(* wrapping counter of their own, so that keys are shared between messages *)
(* of both kinds.  The network reorders, loses and, within a bound,        *)
(* repeats commands one by one.                                            *)
(*                                                                         *)
(* A message is its position in `sent'; its payload is the sequence of its *)
(* pieces <<message, piece>>.                                              *)
(***************************************************************************)
EXTENDS ChannelBuffer, Sequences, FiniteSets, SequencesExt

CONSTANTS
    Channels,         \* channel ids
    Kinds,            \* subset of {"ordered", "unordered", "unreliable"}
    PieceCounts,      \* sizes of messages, in pieces; 1 fits one command whole
    MaxFragments,     \* config.max_fragments
    FragmentCountMax, \* u8::MAX
    MaxWaitingData,   \* config.max_waiting_data in pieces; 0 is unlimited
    FragmentTimeout,  \* FRAGMENT_TIMEOUT in ticks
    MaxMessages,      \* bound: messages the sender's application sends
    MaxFaults         \* bound: commands the network loses or delivers a second time

ASSUME FragmentationAssumption ==
    /\ Kinds \subseteq {"ordered", "unordered", "unreliable"}
    /\ PieceCounts \subseteq Nat \ {0}
    /\ MaxFragments \in 1 .. FragmentCountMax /\ FragmentCountMax \in Nat
    /\ MaxWaitingData \in Nat /\ FragmentTimeout \in Nat
    /\ MaxMessages \in Nat /\ MaxFaults \in Nat

VARIABLES
    next_unreliable_sequence, \* sender: key of the next unreliable message
    queue,     \* sender: commands waiting in the command queue
    wire,      \* network: commands in flight
    command_fragments, \* receiver: key -> CommandFragmentBuffer
    channel,   \* receiver: ChannelState of each channel
    delivered, \* receiver: payloads handed to the application
    acked,     \* receiver: payloads for which an ACK was enqueued
    sent,      \* messages sent so far: kind, channel, pieces and key
    spoiled,   \* messages a command of which was dropped, lost, repeated or cleaned up
    shared,    \* keys taken by a message while another one was using them
    faults

receiver == <<command_fragments, channel, delivered, acked>>
history == <<sent, spoiled, shared, faults>>
vars == <<next_unreliable_sequence, queue, wire, receiver, history>>

-----------------------------------------------------------------------------
(* The sender. *)

(* local_sequence_num() for reliable messages.                              *)
KeyOf(kind) == IF kind = "unreliable" THEN next_unreliable_sequence ELSE 0

WholeCommand(m, kind, c, key) ==
    [type |-> "Whole", kind |-> kind, channel |-> c, sequence |-> key,
     fragment_id |-> 0, fragment_count |-> 1, last |-> TRUE, data |-> <<m, 0>>]

Fragment(m, kind, c, key, id, count, last) ==
    [type |-> "Fragment", kind |-> kind, channel |-> c, sequence |-> key,
     fragment_id |-> id, fragment_count |-> count, last |-> last, data |-> <<m, id>>]

(* How many pieces are sent of a message of n: none beyond a u8 count, only *)
(* the first beyond max_fragments, under the count 1.                       *)
PiecesSent(n) ==
    IF n > FragmentCountMax THEN 0 ELSE IF n > MaxFragments THEN 1 ELSE n

(* enqueue_reliable_data and enqueue_unreliable_data.                       *)
CommandsOf(m, kind, c, key, n) ==
    IF n = 1 THEN <<WholeCommand(m, kind, c, key)>>
    ELSE [i \in 1 .. PiecesSent(n) |->
             Fragment(m, kind, c, key, i - 1, PiecesSent(n), i = n)]

(* command_data_size: the last fragment is shorter than the others, and may *)
(* fit under the limit when one before it did not.                          *)
CommandDataSize(c) == IF c.last THEN 1 ELSE 2

TotalWaitingData(q) == FoldLeft(LAMBDA total, c : total + CommandDataSize(c), 0, q)

EnqueueCommand(q, c) ==
    IF MaxWaitingData > 0 /\ TotalWaitingData(q) + CommandDataSize(c) > MaxWaitingData
    THEN q ELSE Append(q, c)

(* enqueue_command for each of them; the caller does not look at the result.*)
EnqueueAll(commands) == FoldLeft(EnqueueCommand, queue, commands)

InUse(key) ==
    \/ \E c \in wire \cup ToSet(queue) : c.type = "Fragment" /\ c.sequence = key
    \/ key \in DOMAIN command_fragments

Send(kind, c, n) ==
    /\ Len(sent) < MaxMessages
    /\ LET m == Len(sent) + 1
           key == KeyOf(kind)
           commands == CommandsOf(m, kind, c, key, n)
       IN  /\ sent' = Append(sent, [kind |-> kind, channel |-> c, pieces |-> n,
                                    sequence |-> key])
           /\ queue' = EnqueueAll(commands)
           /\ spoiled' = IF commands # << >> /\ Len(queue') = Len(queue) + Len(commands)
                         THEN spoiled ELSE spoiled \cup {m}
           /\ shared' = IF n > 1 /\ InUse(key) THEN shared \cup {key} ELSE shared
    /\ next_unreliable_sequence' =
         IF kind = "unreliable" THEN WrappingAdd(next_unreliable_sequence, 1)
         ELSE next_unreliable_sequence
    /\ UNCHANGED <<wire, receiver, faults>>

(* The bandwidth allows the queue to be sent.                               *)
Flush ==
    /\ queue # << >>
    /\ wire' = wire \cup ToSet(queue)
    /\ queue' = << >>
    /\ UNCHANGED <<next_unreliable_sequence, receiver, history>>

-----------------------------------------------------------------------------
(* CommandFragmentBuffer. *)

(* entry(sequence).or_insert_with: the first fragment of a key fixes        *)
(* channel, count and ordering of what is collected under it.               *)
BufferOf(c) ==
    IF c.sequence \in DOMAIN command_fragments THEN command_fragments[c.sequence]
    ELSE [channel |-> c.channel, fragment_count |-> c.fragment_count,
          ordered |-> c.kind = "ordered", fragments |-> [i \in {} |-> 0], age |-> 0]

(* add_fragment: an insert into a HashMap.                                  *)
AddFragment(b, c) ==
    [b EXCEPT !.fragments = [i \in DOMAIN @ \cup {c.fragment_id} |->
                                IF i = c.fragment_id THEN c.data ELSE @[i]]]

IsCompleteBeyond(b) == Cardinality(DOMAIN b.fragments) > b.fragment_count

IsComplete(b) == Cardinality(DOMAIN b.fragments) = b.fragment_count

(* reassemble: None when an id below the count is missing.                  *)
Reassembles(b) == DOMAIN b.fragments = 0 .. b.fragment_count - 1

ReassembleReversed(b) ==
    [i \in 1 .. b.fragment_count |-> b.fragments[b.fragment_count - i]]

Reassemble(b) == [i \in 1 .. b.fragment_count |-> b.fragments[i - 1]]

Without(f, key) == [k \in DOMAIN f \ {key} |-> f[k]]

-----------------------------------------------------------------------------
(* The receiver. *)

Payload(c, ch, data) == [channel |-> ch, sequence |-> c.sequence, data |-> data]

(* An ordered payload goes through the channel, any other straight to the   *)
(* application.                                                             *)
DeliverOrdered(c, ch, data) ==
    LET buffer == BufferInsert(channel[ch].buffered,
                               [sequence |-> c.sequence, data |-> Payload(c, ch, data)])
        expected == channel[ch].expected
        k == CHOOSE j \in 0 .. Modulus : DrainsExactly(buffer, expected, j)
    IN  /\ delivered' = delivered \cup ToSet(ReadyPackets(buffer, expected, k))
        /\ channel' = [channel EXCEPT ![ch] =
                         [expected |-> WrappingAdd(expected, k),
                          buffered |-> Drained(buffer, expected, k)]]

DeliverAtOnce(c, ch, data) ==
    /\ delivered' = delivered \cup {Payload(c, ch, data)}
    /\ UNCHANGED channel

Deliver(c, ch, ordered, data) ==
    IF ordered THEN DeliverOrdered(c, ch, data) ELSE DeliverAtOnce(c, ch, data)

(* enqueue_ack_command, for reliable data only.                             *)
AckIfReliable(c, ch, data) ==
    acked' = IF c.kind = "unreliable" THEN acked
             ELSE acked \cup {Payload(c, ch, data)}

(* The SendReliable and SendUnreliable arms.                                *)
ProcessWhole(c) ==
    /\ c.type = "Whole"
    /\ AckIfReliable(c, c.channel, <<c.data>>)
    /\ Deliver(c, c.channel, c.kind = "ordered", <<c.data>>)
    /\ UNCHANGED command_fragments

(* The SendFragment and SendUnreliableFragment arms: the fragment is kept,  *)
(* or it completes its buffer, which is then removed and yields a payload   *)
(* unless an id is missing.  An unreliable fragment never goes through the  *)
(* channel, whatever the buffer says.                                       *)
KeepFragment(c) ==
    /\ c.type = "Fragment"
    /\ LET b == AddFragment(BufferOf(c), c)
       IN  /\ ~IsComplete(b)
           /\ command_fragments' = [k \in DOMAIN command_fragments \cup {c.sequence} |->
                                       IF k = c.sequence THEN b ELSE command_fragments[k]]
    /\ UNCHANGED <<channel, delivered, acked>>

CompleteMessage(c) ==
    /\ c.type = "Fragment"
    /\ LET b == AddFragment(BufferOf(c), c)
       IN  /\ IsComplete(b)
           /\ command_fragments' = Without(command_fragments, c.sequence)
           /\ IF Reassembles(b)
              THEN /\ AckIfReliable(c, b.channel, Reassemble(b))
                   /\ Deliver(c, b.channel, c.kind # "unreliable" /\ b.ordered, Reassemble(b))
              ELSE UNCHANGED <<channel, delivered, acked>>

Receive(c) ==
    /\ ProcessWhole(c) \/ KeepFragment(c) \/ CompleteMessage(c)
    /\ \/ wire' = wire \ {c} /\ UNCHANGED <<faults, spoiled>>
       \/ /\ faults < MaxFaults
          /\ faults' = faults + 1
          /\ spoiled' = spoiled \cup {c.data[1]}
          /\ UNCHANGED wire
    /\ UNCHANGED <<next_unreliable_sequence, queue, sent, shared>>

Lose(c) ==
    /\ faults < MaxFaults
    /\ faults' = faults + 1
    /\ wire' = wire \ {c}
    /\ spoiled' = spoiled \cup {c.data[1]}
    /\ UNCHANGED <<next_unreliable_sequence, queue, receiver, sent, shared>>

MessagesIn(b) == {b.fragments[i][1] : i \in DOMAIN b.fragments}

(* A second of the clock; ages beyond the timeout are alike.                *)
Tick ==
    /\ \E k \in DOMAIN command_fragments : command_fragments[k].age <= FragmentTimeout
    /\ command_fragments' =
         [k \in DOMAIN command_fragments |->
             [command_fragments[k] EXCEPT !.age = IF @ > FragmentTimeout THEN @ ELSE @ + 1]]
    /\ UNCHANGED <<next_unreliable_sequence, queue, wire, channel, delivered, acked, history>>

(* Peer::cleanup_stale_fragments, for the user of a Peer to call: the poll  *)
(* of the host does not.                                                    *)
CleanupStaleFragments ==
    LET stale == {k \in DOMAIN command_fragments : command_fragments[k].age > FragmentTimeout}
    IN  /\ stale # {}
        /\ command_fragments' = [k \in DOMAIN command_fragments \ stale |-> command_fragments[k]]
        /\ spoiled' = spoiled \cup UNION {MessagesIn(command_fragments[k]) : k \in stale}
        /\ UNCHANGED <<next_unreliable_sequence, queue, wire, channel, delivered, acked,
                       sent, shared, faults>>

Init ==
    /\ next_unreliable_sequence = 0
    /\ queue = << >> /\ wire = {}
    /\ command_fragments = [k \in {} |-> 0]
    /\ channel = [c \in Channels |-> [expected |-> 0, buffered |-> [s \in {} |-> 0]]]
    /\ delivered = {} /\ acked = {}
    /\ sent = << >> /\ spoiled = {} /\ shared = {} /\ faults = 0

Next ==
    \/ \E kind \in Kinds, c \in Channels, n \in PieceCounts : Send(kind, c, n)
    \/ Flush
    \/ \E c \in wire : Receive(c) \/ Lose(c)
    \/ Tick
    \/ CleanupStaleFragments

Spec == Init /\ [][Next]_vars

(* The sender is polled again and again, and a command that is not lost     *)
(* arrives.                                                                 *)
FairSpec == Spec /\ WF_vars(Flush) /\ WF_vars(\E c \in wire : Receive(c))

-----------------------------------------------------------------------------
TypeOK ==
    /\ next_unreliable_sequence \in SequenceNumber
    /\ Len(queue) <= MaxMessages * MaxFragments
    /\ \A k \in DOMAIN command_fragments :
          /\ k \in SequenceNumber
          /\ DOMAIN command_fragments[k].fragments \subseteq 0 .. FragmentCountMax - 1
          /\ command_fragments[k].fragment_count \in 1 .. MaxFragments
    /\ \A c \in Channels : channel[c].expected \in SequenceNumber
    /\ spoiled \subseteq 1 .. Len(sent)
    /\ shared \subseteq SequenceNumber
    /\ faults \in 0 .. MaxFaults

(* What the sender puts on the wire of message m: all of it, or its first   *)
(* piece when it needs more than max_fragments.                             *)
Content(m) == [i \in 1 .. PiecesSent(sent[m].pieces) |-> <<m, i - 1>>]

IsMessage(p, kinds) ==
    \E m \in 1 .. Len(sent) :
        p.data = Content(m) /\ p.channel = sent[m].channel /\ sent[m].kind \in kinds

(* Reassembly yields what one message was cut into, in the right order and  *)
(* on the right channel, and what is acknowledged is a reliable message     *)
(* that arrived in full, unless two messages used the same sequence number  *)
(* at the same time.                                                        *)
IntactUnlessShared ==
    /\ \A p \in delivered : IsMessage(p, Kinds) \/ p.sequence \in shared
    /\ \A p \in acked : IsMessage(p, Kinds \ {"unreliable"}) \/ p.sequence \in shared

(* A fragment buffer that stays behind has a cause: unless its key was      *)
(* shared, a message in it still has a fragment under way, or one of its    *)
(* commands was dropped at the waiting-data limit, lost, repeated or        *)
(* cleaned up.                                                              *)
LeftoverHasCause ==
    \A k \in DOMAIN command_fragments \ shared :
        \A m \in MessagesIn(command_fragments[k]) :
            \/ m \in spoiled
            \/ \E c \in wire \cup ToSet(queue) : c.data[1] = m

(* A message the network and the limits leave alone, on a key of its own,   *)
(* reaches the application: at least one of the ordered ones of a channel,  *)
(* all of which have sequence number 0, and every other one.                *)
Arrived(m) ==
    \E p \in delivered :
        \/ p.data = Content(m)
        \/ LET other == sent[p.data[1][1]]
           IN  sent[m].kind = "ordered" /\ other.kind = "ordered" /\ other.channel = sent[m].channel

UndisturbedArrives ==
    \A m \in 1 .. MaxMessages :
        m \in 1 .. Len(sent) ~>
            /\ m \in 1 .. Len(sent)
            /\ Arrived(m) \/ m \in spoiled \/ sent[m].sequence \in shared

(* The buffers of the two fragment arms: well formed, and none left behind  *)
(* without a cause.                                                         *)
BufferInv == TypeOK /\ LeftoverHasCause

=============================================================================
