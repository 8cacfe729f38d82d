------------------------- MODULE FragmentationProofs -------------------------
(***************************************************************************)
(* Reassembly for every width of the sequence number, every limit, any     *)
(* number of messages and any faults of the network: what is delivered and *)
(* acknowledged is a message, and a buffer left behind has a cause, unless *)
(* two messages used the same key at the same time.                        *)
(***************************************************************************)
EXTENDS Fragmentation, FiniteSetTheorems, SequenceTheorems, TLAPS

Queues == INSTANCE SequenceFold WITH Op <- EnqueueCommand

-----------------------------------------------------------------------------
(* Messages and the commands made of them. *)

MessageRecord ==
    [kind : Kinds, channel : Channels, pieces : PieceCounts, sequence : SequenceNumber]

Count(m) == PiecesSent(sent[m].pieces)

Ids(m) == 0 .. Count(m) - 1

Fragmented(m) == sent[m].pieces > 1

(* The command that carries piece id of message m.                          *)
Piece(m, id) ==
    IF Fragmented(m)
    THEN Fragment(m, sent[m].kind, sent[m].channel, sent[m].sequence, id, Count(m),
                  id + 1 = sent[m].pieces)
    ELSE WholeCommand(m, sent[m].kind, sent[m].channel, sent[m].sequence)

PieceSet == UNION {{Piece(m, id) : id \in Ids(m)} : m \in 1 .. Len(sent)}

InTransit == wire \cup ToSet(queue)

(* The pieces of m on their way, and those in the buffer of its key.        *)
Out(m) == {id \in Ids(m) : Piece(m, id) \in InTransit}

In(m) ==
    {id \in Ids(m) :
        /\ sent[m].sequence \in DOMAIN command_fragments
        /\ id \in DOMAIN command_fragments[sent[m].sequence].fragments
        /\ command_fragments[sent[m].sequence].fragments[id] = <<m, id>>}

-----------------------------------------------------------------------------
(* The inductive invariant. *)

TransitOK ==
    /\ sent \in Seq(MessageRecord) /\ Len(sent) <= MaxMessages
    /\ wire \subseteq PieceSet /\ queue \in Seq(PieceSet)
    /\ wire \cap ToSet(queue) = {}
    /\ Len(queue) <= Len(sent) * MaxFragments
    /\ next_unreliable_sequence \in SequenceNumber
    /\ spoiled \subseteq 1 .. Len(sent) /\ shared \subseteq SequenceNumber
    /\ faults \in 0 .. MaxFaults

(* A buffer holds something, and only pieces of messages of its key.        *)
BufferRecord(k, b) ==
    /\ b = [channel |-> b.channel, fragment_count |-> b.fragment_count,
            ordered |-> b.ordered, fragments |-> b.fragments, age |-> b.age]
    /\ b.channel \in Channels /\ b.fragment_count \in 1 .. MaxFragments
    /\ b.ordered \in BOOLEAN
    /\ DOMAIN b.fragments # {}
    /\ \A i \in DOMAIN b.fragments : \E m \in 1 .. Len(sent) :
          /\ Fragmented(m) /\ sent[m].sequence = k /\ i \in Ids(m)
          /\ b.fragments[i] = <<m, i>>

BuffersOK ==
    \A k \in DOMAIN command_fragments :
        k \in SequenceNumber /\ BufferRecord(k, command_fragments[k])

(* A key that was never shared belongs to one message at a time, and its    *)
(* buffer was set up by that message.                                       *)
Using(k) ==
    {m \in 1 .. Len(sent) :
        Fragmented(m) /\ sent[m].sequence = k /\ (Out(m) # {} \/ In(m) # {})}

SetUpBy(b, m) ==
    /\ b.channel = sent[m].channel /\ b.fragment_count = Count(m)
    /\ b.ordered = (sent[m].kind = "ordered")

OneOwner ==
    \A k \in SequenceNumber \ shared :
        /\ \A m, n \in Using(k) : m = n
        /\ k \in DOMAIN command_fragments =>
              \A m \in Using(k) : SetUpBy(command_fragments[k], m)

(* Of a message nothing was done to, every piece is on its way or buffered, *)
(* not both, and one is still on its way; or all of it is through.          *)
Tracked ==
    \A m \in 1 .. Len(sent) :
        Fragmented(m) /\ m \notin spoiled /\ sent[m].sequence \notin shared =>
            \/ Out(m) = {} /\ In(m) = {}
            \/ Out(m) # {} /\ Out(m) \cup In(m) = Ids(m) /\ Out(m) \cap In(m) = {}

(* What is delivered, now or once the channel gets to it.                   *)
IntactIn(p, kinds) == IsMessage(p, kinds) \/ p.sequence \in shared

ChannelsOK ==
    /\ DOMAIN channel = Channels
    /\ \A c \in Channels :
          /\ channel[c].expected \in SequenceNumber
          /\ DOMAIN channel[c].buffered \subseteq SequenceNumber
          /\ \A s \in DOMAIN channel[c].buffered : IntactIn(channel[c].buffered[s], Kinds)

FragmentInv ==
    TransitOK /\ BuffersOK /\ OneOwner /\ Tracked /\ ChannelsOK /\ IntactUnlessShared

-----------------------------------------------------------------------------
(* Constants and operators. *)

LEMMA Limits ==
    /\ MaxFragments \in Nat \ {0} /\ FragmentCountMax \in Nat /\ MaxFragments <= FragmentCountMax
    /\ MaxMessages \in Nat /\ MaxFaults \in Nat
    /\ PieceCounts \subseteq Nat \ {0}
    /\ Modulus \in Nat \ {0} /\ SequenceNumber = 0 .. Modulus - 1
BY FragmentationAssumption, HalfRangeAssumption DEF FragmentationAssumption, Modulus, SequenceNumber

LEMMA WrappingAddType ==
    ASSUME NEW a \in SequenceNumber, NEW b \in 0 .. Modulus
    PROVE  WrappingAdd(a, b) \in SequenceNumber
BY Limits DEF WrappingAdd

LEMMA PiecesSentType ==
    ASSUME NEW n \in Nat \ {0}
    PROVE  PiecesSent(n) \in 0 .. MaxFragments /\ PiecesSent(1) = 1
BY Limits DEF PiecesSent

(* The count and the ids of a message.                                      *)
LEMMA CountType ==
    ASSUME sent \in Seq(MessageRecord), NEW m \in 1 .. Len(sent)
    PROVE  /\ sent[m] \in MessageRecord /\ sent[m].pieces \in Nat \ {0}
           /\ Count(m) \in 0 .. MaxFragments
           /\ ~Fragmented(m) => sent[m].pieces = 1 /\ Count(m) = 1 /\ Ids(m) = {0}
           /\ Ids(m) \subseteq 0 .. MaxFragments - 1
           /\ \A id \in Ids(m) : id \in Nat
<1>1. sent[m] \in MessageRecord
  OBVIOUS
<1>2. sent[m].pieces \in Nat \ {0}
  BY <1>1, Limits DEF MessageRecord
<1>3. Count(m) \in 0 .. MaxFragments
  BY <1>2, PiecesSentType DEF Count
<1>4. ~Fragmented(m) => sent[m].pieces = 1
  BY <1>2 DEF Fragmented
<1>5. ~Fragmented(m) => Count(m) = 1
  BY <1>4, PiecesSentType DEF Count
<1>. QED
  BY <1>1, <1>2, <1>3, <1>4, <1>5, Limits DEF Ids

(* What a command says of its message.                                      *)
LEMMA PieceFields ==
    ASSUME sent \in Seq(MessageRecord), NEW m \in 1 .. Len(sent), NEW id \in Ids(m)
    PROVE  LET c == Piece(m, id)
           IN  /\ c.type = IF Fragmented(m) THEN "Fragment" ELSE "Whole"
               /\ c.kind = sent[m].kind /\ c.channel = sent[m].channel
               /\ c.sequence = sent[m].sequence
               /\ c.data = <<m, id>> /\ c.data[1] = m
               /\ c.fragment_id = id /\ c.fragment_count = Count(m)
<1>1. CASE Fragmented(m)
  BY <1>1 DEF Piece, Fragment
<1>2. CASE ~Fragmented(m)
  <2>1. id = 0 /\ Count(m) = 1
    BY <1>2, CountType
  <2>. QED
    BY <1>2, <2>1 DEF Piece, WholeCommand
<1>. QED
  BY <1>1, <1>2

(* A command belongs to one piece of one message.                           *)
LEMMA PieceIsUnique ==
    ASSUME sent \in Seq(MessageRecord),
           NEW m \in 1 .. Len(sent), NEW i \in Ids(m), NEW n \in 1 .. Len(sent), NEW j \in Ids(n),
           Piece(m, i) = Piece(n, j)
    PROVE  m = n /\ i = j
<1>1. Piece(m, i).data = <<m, i>> /\ Piece(n, j).data = <<n, j>>
  BY PieceFields
<1>. QED
  BY <1>1

LEMMA PieceOfSet ==
    ASSUME NEW c \in PieceSet
    PROVE  \E m \in 1 .. Len(sent) : \E id \in Ids(m) : c = Piece(m, id)
BY DEF PieceSet

LEMMA PieceInSet ==
    ASSUME NEW m \in 1 .. Len(sent), NEW id \in Ids(m)
    PROVE  Piece(m, id) \in PieceSet
BY DEF PieceSet

-----------------------------------------------------------------------------
(* The command queue. *)

LEMMA ToSetOfAppend ==
    ASSUME NEW S, NEW q \in Seq(S), NEW c \in S
    PROVE  /\ Append(q, c) \in Seq(S) /\ Len(Append(q, c)) = Len(q) + 1
           /\ ToSet(Append(q, c)) = ToSet(q) \cup {c}
<1>. DEFINE s == Append(q, c)
<1>1. /\ s \in Seq(S) /\ Len(s) = Len(q) + 1 /\ s[Len(q) + 1] = c
      /\ \A i \in 1 .. Len(q) : s[i] = q[i]
      /\ Len(q) \in Nat
  OBVIOUS
<1>2. DOMAIN s = 1 .. Len(q) + 1 /\ DOMAIN q = 1 .. Len(q)
  BY <1>1
<1>. HIDE DEF s
<1>3. DOMAIN s = DOMAIN q \cup {Len(q) + 1}
  BY <1>1, <1>2
<1>4. ToSet(s) = ToSet(q) \cup {c}
  BY <1>1, <1>2, <1>3 DEF ToSet
<1>. QED
  BY <1>1, <1>4 DEF s

(* The fold of enqueue_reliable_data is the one whose facts are known.      *)
LEMMA QueuesIsFold ==
    ASSUME NEW q, NEW cs
    PROVE  FoldLeft(EnqueueCommand, q, cs) = Queues!Folded(q, cs)
BY DEF Queues!Folded, FoldLeft, MapThenFoldSet, Max, Queues!Largest

(* Each command is queued or left out.                                      *)
LEMMA EnqueueAllFacts ==
    ASSUME NEW S, queue \in Seq(S), NEW cs \in Seq(S)
    PROVE  /\ EnqueueAll(cs) \in Seq(S)
           /\ ToSet(queue) \subseteq ToSet(EnqueueAll(cs))
           /\ ToSet(EnqueueAll(cs)) \subseteq ToSet(queue) \cup ToSet(cs)
           /\ Len(EnqueueAll(cs)) \in Nat /\ Len(EnqueueAll(cs)) <= Len(queue) + Len(cs)
           /\ Len(EnqueueAll(cs)) = Len(queue) + Len(cs) => ToSet(cs) \subseteq ToSet(EnqueueAll(cs))
<1>. DEFINE n == Len(cs)
            part(i) == {cs[j] : j \in 1 .. i}
<1>1. n \in Nat /\ DOMAIN cs = 1 .. n /\ ToSet(cs) = part(n) /\ \A i \in 1 .. n : cs[i] \in S
  BY DEF ToSet
<1>2. EnqueueAll(cs) = Queues!Folded(queue, cs)
  BY QueuesIsFold DEF EnqueueAll
<1>3. PICK f : /\ f[0] = queue
               /\ \A i \in 0 .. n - 1 : f[i + 1] = EnqueueCommand(f[i], cs[i + 1])
               /\ EnqueueAll(cs) = f[n]
  BY <1>1, <1>2, Queues!FoldPrefixes
<1>. DEFINE Holds(q, i) ==
                /\ q \in Seq(S) /\ ToSet(queue) \subseteq ToSet(q)
                /\ ToSet(q) \subseteq ToSet(queue) \cup part(i)
                /\ Len(q) <= Len(queue) + i
                /\ Len(q) = Len(queue) + i => part(i) \subseteq ToSet(q)
            T == {i \in Nat : i <= n => Holds(f[i], i)}
<1>4. 0 \in T
  BY <1>3
<1>5. ASSUME NEW i \in Nat, i \in T PROVE i + 1 \in T
  <2>. SUFFICES ASSUME i + 1 <= n PROVE Holds(f[i + 1], i + 1)
    OBVIOUS
  <2>1. i \in 0 .. n - 1 /\ i + 1 \in 1 .. n /\ Holds(f[i], i)
    BY <1>1, <1>5
  <2>2. part(i + 1) = part(i) \cup {cs[i + 1]}
    <3>1. 1 .. i + 1 = (1 .. i) \cup {i + 1}
      OBVIOUS
    <3>. QED
      BY <3>1
  <2>. HIDE DEF part
  <2>3. f[i + 1] = f[i] \/ f[i + 1] = Append(f[i], cs[i + 1])
    BY <1>3, <2>1 DEF EnqueueCommand
  <2>4. CASE f[i + 1] = f[i]
    BY <2>1, <2>2, <2>4
  <2>5. CASE f[i + 1] = Append(f[i], cs[i + 1])
    <3>1. /\ f[i + 1] \in Seq(S) /\ Len(f[i + 1]) = Len(f[i]) + 1
          /\ ToSet(f[i + 1]) = ToSet(f[i]) \cup {cs[i + 1]}
      BY <1>1, <2>1, <2>5, ToSetOfAppend
    <3>. DEFINE l == Len(f[i])
                k == Len(queue)
    <3>2. l \in Nat /\ k \in Nat /\ l <= k + i /\ Len(f[i + 1]) = l + 1
      BY <2>1, <3>1
    <3>. HIDE DEF l, k
    <3>3. Len(f[i + 1]) <= k + (i + 1) /\ (Len(f[i + 1]) = k + (i + 1) => l = k + i)
      BY <3>2
    <3>4. Len(f[i + 1]) = k + (i + 1) => part(i) \subseteq ToSet(f[i])
      BY <2>1, <3>3 DEF l, k
    <3>. QED
      BY <2>1, <2>2, <3>1, <3>3, <3>4 DEF k
  <2>. QED
    BY <2>3, <2>4, <2>5
<1>6. n \in T
  <2>1. Nat \subseteq T
    <3>. HIDE DEF T
    <3>. QED
      BY <1>4, <1>5, Queues!SetInduction
  <2>. QED
    BY <1>1, <2>1
<1>7. Holds(f[n], n)
  BY <1>1, <1>6
<1>8. Len(f[n]) \in Nat
  BY <1>7
<1>. QED
  BY <1>1, <1>3, <1>7, <1>8

-----------------------------------------------------------------------------
(* The channels. *)

(* The loop that drains a channel stops, at the latest after one turn.      *)
LEMMA DrainStops ==
    ASSUME NEW buffer, NEW expected \in SequenceNumber
    PROVE  \E k \in 0 .. Modulus : DrainsExactly(buffer, expected, k)
<1>. DEFINE T == {k \in 0 .. Modulus : k < Modulus => WrappingAdd(expected, k) \notin DOMAIN buffer}
<1>1. T \subseteq Nat /\ Modulus \in T
  BY Limits
<1>2. PICK k \in T : \A j \in T : k <= j
  BY <1>1, Queues!LeastNatural
<1>3. k \in 0 .. Modulus /\ \A i \in 0 .. k - 1 : i \notin T /\ i \in 0 .. Modulus /\ i < Modulus
  BY <1>1, <1>2, Limits
<1>. QED
  BY <1>2, <1>3 DEF DrainsExactly

(* What a channel hands out was buffered, and what it keeps too.            *)
LEMMA DrainedWasBuffered ==
    ASSUME NEW buffer, NEW expected \in SequenceNumber,
           DOMAIN buffer \subseteq SequenceNumber, NEW k \in 0 .. Modulus,
           DrainsExactly(buffer, expected, k)
    PROVE  /\ \A p \in ToSet(ReadyPackets(buffer, expected, k)) :
                 \E s \in DOMAIN buffer : p = buffer[s]
           /\ DOMAIN Drained(buffer, expected, k) \subseteq DOMAIN buffer
           /\ \A s \in DOMAIN Drained(buffer, expected, k) :
                 Drained(buffer, expected, k)[s] = buffer[s]
<1>1. ASSUME NEW p \in ToSet(ReadyPackets(buffer, expected, k))
      PROVE  \E s \in DOMAIN buffer : p = buffer[s]
  <2>1. PICK i \in 1 .. k : p = buffer[WrappingAdd(expected, i - 1)]
    BY DEF ToSet, ReadyPackets
  <2>2. i - 1 \in 0 .. k - 1
    BY Limits
  <2>3. WrappingAdd(expected, i - 1) \in DOMAIN buffer
    BY <2>2 DEF DrainsExactly
  <2>. QED
    BY <2>1, <2>3
<1>2. /\ DOMAIN Drained(buffer, expected, k) \subseteq DOMAIN buffer
      /\ \A s \in DOMAIN Drained(buffer, expected, k) :
            Drained(buffer, expected, k)[s] = buffer[s]
  BY DEF Drained
<1>. QED
  BY <1>1, <1>2

(* A payload that is intact leaves the channels and what they delivered so. *)
LEMMA DeliverKeeps ==
    ASSUME ChannelsOK, IntactUnlessShared, UNCHANGED <<sent, shared>>,
           NEW c, c.sequence \in SequenceNumber, NEW ch \in Channels, NEW ordered \in BOOLEAN, NEW data,
           IntactIn(Payload(c, ch, data), Kinds), Deliver(c, ch, ordered, data)
    PROVE  ChannelsOK' /\ \A p \in delivered' : IntactIn(p, Kinds)
<1>. DEFINE pay == Payload(c, ch, data)
<1>1. \A p \in delivered : IntactIn(p, Kinds)
  BY DEF IntactUnlessShared, IntactIn
<1>2. CASE ordered
  <2>. DEFINE old == channel[ch].buffered
              e == channel[ch].expected
              buffer == BufferInsert(old, [sequence |-> c.sequence, data |-> pay])
              k == CHOOSE j \in 0 .. Modulus : DrainsExactly(buffer, e, j)
  <2>1. /\ delivered' = delivered \cup ToSet(ReadyPackets(buffer, e, k))
        /\ channel' = [channel EXCEPT ![ch] =
                         [expected |-> WrappingAdd(e, k), buffered |-> Drained(buffer, e, k)]]
    BY <1>2 DEF Deliver, DeliverOrdered
  <2>2. /\ e \in SequenceNumber /\ DOMAIN old \subseteq SequenceNumber /\ ch \in DOMAIN channel
        /\ \A s \in DOMAIN old : IntactIn(old[s], Kinds)
    BY DEF ChannelsOK
  <2>3. /\ DOMAIN buffer \subseteq SequenceNumber
        /\ \A s \in DOMAIN buffer : IntactIn(buffer[s], Kinds)
    <3>1. /\ DOMAIN buffer = DOMAIN old \cup {c.sequence}
          /\ \A s \in DOMAIN buffer : buffer[s] = IF s = c.sequence THEN pay ELSE old[s]
      BY DEF BufferInsert
    <3>. HIDE DEF buffer, pay, old
    <3>2. ASSUME NEW s \in DOMAIN buffer PROVE IntactIn(buffer[s], Kinds)
      <4>1. CASE s = c.sequence
        BY <3>1, <4>1 DEF pay
      <4>2. CASE s # c.sequence
        BY <2>2, <3>1, <4>2
      <4>. QED
        BY <4>1, <4>2
    <3>. QED
      BY <2>2, <3>1, <3>2
  <2>. HIDE DEF buffer, e
  <2>4. k \in 0 .. Modulus /\ DrainsExactly(buffer, e, k)
    BY <2>2, DrainStops
  <2>. HIDE DEF k
  <2>5. /\ \A p \in ToSet(ReadyPackets(buffer, e, k)) : \E s \in DOMAIN buffer : p = buffer[s]
        /\ DOMAIN Drained(buffer, e, k) \subseteq DOMAIN buffer
        /\ \A s \in DOMAIN Drained(buffer, e, k) : Drained(buffer, e, k)[s] = buffer[s]
    BY <2>2, <2>3, <2>4, DrainedWasBuffered
  <2>6. \A p \in delivered' : IntactIn(p, Kinds)
    BY <1>1, <2>1, <2>3, <2>5
  <2>7. WrappingAdd(e, k) \in SequenceNumber
    BY <2>2, <2>4, WrappingAddType
  <2>8. ChannelsOK'
    <3>1. DOMAIN channel' = Channels
      BY <2>1 DEF ChannelsOK
    <3>2. ASSUME NEW d \in Channels
          PROVE  /\ channel'[d].expected \in SequenceNumber
                 /\ DOMAIN channel'[d].buffered \subseteq SequenceNumber
                 /\ \A s \in DOMAIN channel'[d].buffered : IntactIn(channel'[d].buffered[s], Kinds)
      <4>1. CASE d = ch
        <5>1. channel'[d].expected = WrappingAdd(e, k) /\ channel'[d].buffered = Drained(buffer, e, k)
          BY <2>1, <2>2, <4>1
        <5>. QED
          BY <2>3, <2>5, <2>7, <5>1
      <4>2. CASE d # ch
        <5>1. channel'[d] = channel[d]
          BY <2>1, <4>2 DEF ChannelsOK
        <5>. QED
          BY <5>1 DEF ChannelsOK
      <4>. QED
        BY <4>1, <4>2
    <3>3. \A d \in Channels : \A s \in DOMAIN channel'[d].buffered :
             IntactIn(channel[d].buffered[s], Kinds)'
      BY <3>2 DEF IntactIn, IsMessage, Content
    <3>. QED
      BY <3>1, <3>2, <3>3 DEF ChannelsOK
  <2>. QED
    BY <2>6, <2>8
<1>3. CASE ~ordered
  <2>1. delivered' = delivered \cup {pay} /\ channel' = channel
    BY <1>3 DEF Deliver, DeliverAtOnce
  <2>2. \A p \in delivered' : IntactIn(p, Kinds)
    BY <1>1, <2>1
  <2>3. ChannelsOK'
    BY <2>1 DEF ChannelsOK, IntactIn, IsMessage, Content
  <2>. QED
    BY <2>2, <2>3
<1>. QED
  BY <1>2, <1>3

-----------------------------------------------------------------------------
(* What the invariant says. *)

(* What a buffer holds are pieces of messages that use its key.             *)
LEMMA HeldIsUsing ==
    ASSUME BuffersOK, NEW k \in DOMAIN command_fragments,
           NEW i \in DOMAIN command_fragments[k].fragments
    PROVE  \E m \in Using(k) :
              /\ m \in 1 .. Len(sent) /\ Fragmented(m) /\ sent[m].sequence = k
              /\ i \in In(m) /\ command_fragments[k].fragments[i] = <<m, i>>
<1>1. PICK m \in 1 .. Len(sent) :
        /\ Fragmented(m) /\ sent[m].sequence = k /\ i \in Ids(m)
        /\ command_fragments[k].fragments[i] = <<m, i>>
  BY DEF BuffersOK, BufferRecord
<1>2. i \in In(m)
  BY <1>1 DEF In
<1>3. m \in Using(k)
  BY <1>1, <1>2 DEF Using
<1>. QED
  BY <1>1, <1>2, <1>3

LEMMA InvImpliesTypes ==
    ASSUME FragmentInv
    PROVE  TypeOK
<1>1. Len(queue) <= MaxMessages * MaxFragments
  <2>1. /\ Len(sent) \in Nat /\ Len(queue) \in Nat /\ Len(sent) <= MaxMessages
        /\ Len(queue) <= Len(sent) * MaxFragments
    BY DEF FragmentInv, TransitOK
  <2>. DEFINE d == MaxMessages - Len(sent)
              l == Len(sent)
              q == Len(queue)
  <2>2. d \in Nat /\ MaxMessages = l + d
    BY <2>1, Limits
  <2>. HIDE DEF d, l, q
  <2>3. (l + d) * MaxFragments = l * MaxFragments + d * MaxFragments
    BY <2>1, <2>2, Limits DEF l
  <2>4. d * MaxFragments \in Nat /\ l * MaxFragments \in Nat
    BY <2>1, <2>2, Limits DEF l
  <2>. QED
    BY <2>1, <2>2, <2>3, <2>4 DEF l
<1>2. ASSUME NEW k \in DOMAIN command_fragments
      PROVE  /\ k \in SequenceNumber
             /\ DOMAIN command_fragments[k].fragments \subseteq 0 .. FragmentCountMax - 1
             /\ command_fragments[k].fragment_count \in 1 .. MaxFragments
  <2>1. k \in SequenceNumber /\ command_fragments[k].fragment_count \in 1 .. MaxFragments
    BY DEF FragmentInv, BuffersOK, BufferRecord
  <2>2. ASSUME NEW i \in DOMAIN command_fragments[k].fragments PROVE i \in 0 .. FragmentCountMax - 1
    <3>1. PICK m \in 1 .. Len(sent) : i \in Ids(m)
      BY DEF FragmentInv, BuffersOK, BufferRecord
    <3>2. Ids(m) \subseteq 0 .. MaxFragments - 1
      BY CountType DEF FragmentInv, TransitOK
    <3>. QED
      BY <3>1, <3>2, Limits
  <2>. QED
    BY <2>1, <2>2
<1>. QED
  BY <1>1, <1>2 DEF FragmentInv, TransitOK, ChannelsOK, TypeOK

LEMMA InvImpliesCause ==
    ASSUME FragmentInv
    PROVE  LeftoverHasCause
<1>. SUFFICES ASSUME NEW k \in DOMAIN command_fragments \ shared,
                     NEW m \in MessagesIn(command_fragments[k]), m \notin spoiled
              PROVE  \E c \in wire \cup ToSet(queue) : c.data[1] = m
  BY DEF LeftoverHasCause
<1>1. PICK i \in DOMAIN command_fragments[k].fragments : command_fragments[k].fragments[i][1] = m
  BY DEF MessagesIn
<1>2. PICK n \in Using(k) : /\ n \in 1 .. Len(sent) /\ Fragmented(n) /\ sent[n].sequence = k
                            /\ i \in In(n) /\ command_fragments[k].fragments[i] = <<n, i>>
  BY HeldIsUsing DEF FragmentInv
<1>3. m = n
  BY <1>1, <1>2
<1>4. Out(m) # {}
  BY <1>2, <1>3 DEF FragmentInv, Tracked
<1>5. PICK id \in Ids(m) : Piece(m, id) \in wire \cup ToSet(queue)
  BY <1>4 DEF Out, InTransit
<1>6. Piece(m, id).data[1] = m
  BY <1>2, <1>3, PieceFields DEF FragmentInv, TransitOK
<1>. QED
  BY <1>5, <1>6

LEMMA InitFragmentInv ==
    ASSUME Init
    PROVE  FragmentInv
<1>. USE DEF Init
<1>1. Len(sent) = 0 /\ sent \in Seq(MessageRecord) /\ 1 .. Len(sent) = {}
  OBVIOUS
<1>2. ToSet(queue) = {} /\ queue \in Seq(PieceSet) /\ Len(queue) = 0
  BY DEF ToSet
<1>3. TransitOK
  BY <1>1, <1>2, Limits DEF TransitOK
<1>4. BuffersOK
  BY DEF BuffersOK
<1>5. OneOwner /\ Tracked
  BY <1>1 DEF OneOwner, Tracked, Using
<1>6. ChannelsOK
  BY Limits DEF ChannelsOK
<1>7. IntactUnlessShared
  BY DEF IntactUnlessShared
<1>. QED
  BY <1>3, <1>4, <1>5, <1>6, <1>7 DEF FragmentInv

-----------------------------------------------------------------------------
(* Receiving a command: the network's part. *)

LEMMA ReceiveNetwork ==
    ASSUME TransitOK, NEW m \in 1 .. Len(sent), NEW id \in Ids(m), Piece(m, id) \in wire,
           Receive(Piece(m, id))
    PROVE  /\ TransitOK' /\ UNCHANGED <<sent, shared>> /\ spoiled \subseteq spoiled'
           /\ id \in Out(m)
           /\ \A n \in 1 .. Len(sent) : n # m => Out(n)' = Out(n)
           /\ Out(m)' \subseteq Out(m)
           /\ m \notin spoiled' => Out(m)' = Out(m) \ {id}
<1>. DEFINE c == Piece(m, id)
<1>1. /\ UNCHANGED <<sent, shared, queue, next_unreliable_sequence>>
      /\ \/ wire' = wire \ {c} /\ UNCHANGED <<faults, spoiled>>
         \/ faults < MaxFaults /\ faults' = faults + 1 /\ spoiled' = spoiled \cup {c.data[1]} /\ wire' = wire
  BY DEF Receive
<1>2. c.data[1] = m
  BY PieceFields DEF TransitOK
<1>3. /\ \A n, i : Piece(n, i)' = Piece(n, i)
      /\ \A n : Ids(n)' = Ids(n)
      /\ PieceSet' = PieceSet
  BY <1>1 DEF Piece, Ids, Count, PieceSet, Fragmented
<1>4. TransitOK'
  <2>1. wire' \subseteq wire /\ faults' \in 0 .. MaxFaults /\ spoiled' \subseteq 1 .. Len(sent)
    <3>1. faults \in 0 .. MaxFaults /\ spoiled \subseteq 1 .. Len(sent)
      BY DEF TransitOK
    <3>. HIDE DEF c
    <3>2. /\ wire' \subseteq wire /\ spoiled' \subseteq spoiled \cup {m}
          /\ \/ faults' = faults
             \/ faults < MaxFaults /\ faults' = faults + 1
      BY <1>1, <1>2
    <3>. QED
      BY <3>1, <3>2, Limits
  <2>2. queue' \in Seq(PieceSet')
    BY <1>1, <1>3 DEF TransitOK
  <2>. QED
    BY <1>1, <1>3, <2>1, <2>2 DEF TransitOK
<1>5. id \in Out(m)
  BY DEF Out, InTransit
<1>6. c \notin ToSet(queue)
  BY DEF TransitOK
<1>7. \A n \in 1 .. Len(sent) : \A i \in Ids(n) : Piece(n, i) = c => n = m /\ i = id
  BY PieceIsUnique DEF TransitOK
<1>8. \A n : Out(n)' = {i \in Ids(n) : Piece(n, i) \in InTransit'}
  BY <1>3 DEF Out
<1>. HIDE DEF c
<1>9. CASE wire' = wire \ {c} /\ UNCHANGED <<faults, spoiled>>
  <2>1. InTransit' = InTransit \ {c}
    BY <1>1, <1>6, <1>9 DEF InTransit
  <2>2. ASSUME NEW n \in 1 .. Len(sent), n # m PROVE Out(n)' = Out(n)
    BY <1>7, <1>8, <2>1, <2>2 DEF Out
  <2>3. Out(m)' = Out(m) \ {id}
    BY <1>7, <1>8, <2>1 DEF Out, c
  <2>. QED
    BY <1>1, <1>4, <1>5, <1>9, <2>2, <2>3
<1>10. CASE spoiled' = spoiled \cup {c.data[1]} /\ wire' = wire
  <2>1. InTransit' = InTransit
    BY <1>1, <1>10 DEF InTransit
  <2>2. \A n : Out(n)' = Out(n)
    BY <1>8, <2>1 DEF Out
  <2>. QED
    BY <1>1, <1>2, <1>4, <1>5, <1>10, <2>2
<1>. QED
  BY <1>1, <1>9, <1>10

-----------------------------------------------------------------------------
(* Receiving a command: the buffer a fragment is added to. *)

LEMMA AddedBuffer ==
    ASSUME TransitOK, BuffersOK, OneOwner,
           NEW m \in 1 .. Len(sent), NEW id \in Ids(m), Fragmented(m), Piece(m, id) \in InTransit,
           NEW b, b = AddFragment(BufferOf(Piece(m, id)), Piece(m, id))
    PROVE  /\ sent[m].sequence \in SequenceNumber
           /\ BufferRecord(sent[m].sequence, b)
           /\ id \in DOMAIN b.fragments /\ b.fragments[id] = <<m, id>>
           /\ \A i \in DOMAIN b.fragments : i # id =>
                 /\ sent[m].sequence \in DOMAIN command_fragments
                 /\ i \in DOMAIN command_fragments[sent[m].sequence].fragments
                 /\ b.fragments[i] = command_fragments[sent[m].sequence].fragments[i]
           /\ sent[m].sequence \notin shared =>
                 /\ SetUpBy(b, m) /\ DOMAIN b.fragments = In(m) \cup {id}
                 /\ \A i \in DOMAIN b.fragments : b.fragments[i] = <<m, i>>
<1>. DEFINE k == sent[m].sequence
            c == Piece(m, id)
            a == BufferOf(c)
            old == command_fragments[k]
<1>1. /\ c.kind = sent[m].kind /\ c.channel = sent[m].channel /\ c.sequence = k
      /\ c.data = <<m, id>> /\ c.fragment_id = id /\ c.fragment_count = Count(m)
  BY PieceFields DEF TransitOK
<1>2. k \in SequenceNumber /\ sent[m].channel \in Channels /\ Count(m) \in 1 .. MaxFragments
  <2>1. sent[m] \in MessageRecord /\ Count(m) \in 0 .. MaxFragments
    BY CountType DEF TransitOK
  <2>2. Count(m) # 0
    BY <2>1, Limits DEF Ids
  <2>. QED
    BY <2>1, <2>2, Limits DEF MessageRecord
<1>. HIDE DEF c, k
<1>3. /\ a = [channel |-> a.channel, fragment_count |-> a.fragment_count,
              ordered |-> a.ordered, fragments |-> a.fragments, age |-> a.age]
      /\ a.channel \in Channels /\ a.fragment_count \in 1 .. MaxFragments
      /\ a.ordered \in BOOLEAN
      /\ k \in DOMAIN command_fragments => a = old
      /\ k \notin DOMAIN command_fragments =>
            DOMAIN a.fragments = {} /\ SetUpBy(a, m)
  <2>1. CASE k \in DOMAIN command_fragments
    <3>1. a = old
      BY <1>1, <2>1 DEF BufferOf
    <3>2. BufferRecord(k, old)
      BY <2>1 DEF BuffersOK
    <3>. QED
      BY <2>1, <3>1, <3>2 DEF BufferRecord
  <2>2. CASE k \notin DOMAIN command_fragments
    <3>1. a = [channel |-> c.channel, fragment_count |-> c.fragment_count,
               ordered |-> c.kind = "ordered", fragments |-> [i \in {} |-> 0], age |-> 0]
      BY <1>1, <2>2 DEF BufferOf
    <3>. HIDE DEF a
    <3>2. /\ a.channel = c.channel /\ a.fragment_count = c.fragment_count
          /\ a.ordered = (c.kind = "ordered") /\ DOMAIN a.fragments = {}
      BY <3>1
    <3>. QED
      BY <1>1, <1>2, <2>2, <3>1, <3>2 DEF SetUpBy
  <2>. QED
    BY <2>1, <2>2
<1>. HIDE DEF a
<1>4. b = [a EXCEPT !.fragments = [i \in DOMAIN @ \cup {id} |-> IF i = id THEN <<m, id>> ELSE @[i]]]
  BY <1>1 DEF AddFragment, a, c
<1>5. /\ b = [channel |-> b.channel, fragment_count |-> b.fragment_count,
              ordered |-> b.ordered, fragments |-> b.fragments, age |-> b.age]
      /\ b.channel = a.channel /\ b.fragment_count = a.fragment_count /\ b.ordered = a.ordered
      /\ b.fragments = [i \in DOMAIN a.fragments \cup {id} |->
                           IF i = id THEN <<m, id>> ELSE a.fragments[i]]
  BY <1>3, <1>4
<1>6. /\ DOMAIN b.fragments = DOMAIN a.fragments \cup {id}
      /\ b.fragments[id] = <<m, id>>
      /\ \A i \in DOMAIN b.fragments : i # id => b.fragments[i] = a.fragments[i]
  BY <1>5
<1>7. \A i \in DOMAIN b.fragments : i # id =>
         k \in DOMAIN command_fragments /\ i \in DOMAIN old.fragments /\ b.fragments[i] = old.fragments[i]
  BY <1>3, <1>6
<1>8. ASSUME NEW i \in DOMAIN b.fragments
      PROVE  \E n \in 1 .. Len(sent) :
                /\ Fragmented(n) /\ sent[n].sequence = k /\ i \in Ids(n)
                /\ b.fragments[i] = <<n, i>>
  <2>1. CASE i = id
    BY <1>6, <2>1 DEF k
  <2>2. CASE i # id
    <3>1. k \in DOMAIN command_fragments /\ i \in DOMAIN old.fragments /\ b.fragments[i] = old.fragments[i]
      BY <1>7, <2>2
    <3>2. BufferRecord(k, old)
      BY <3>1 DEF BuffersOK
    <3>. QED
      BY <3>1, <3>2 DEF BufferRecord
  <2>. QED
    BY <2>1, <2>2
<1>9. BufferRecord(k, b)
  <2>1. DOMAIN b.fragments # {}
    BY <1>6
  <2>. QED
    BY <1>3, <1>5, <1>8, <2>1 DEF BufferRecord
<1>10. m \in Using(k)
  <2>1. id \in Out(m)
    BY DEF Out
  <2>. QED
    BY <2>1 DEF Using, k
<1>11. ASSUME k \notin shared
       PROVE  /\ SetUpBy(b, m) /\ DOMAIN b.fragments = In(m) \cup {id}
              /\ \A i \in DOMAIN b.fragments : b.fragments[i] = <<m, i>>
  <2>1. \A n \in Using(k) : n = m
    BY <1>2, <1>10, <1>11 DEF OneOwner
  <2>2. SetUpBy(a, m)
    <3>1. k \in DOMAIN command_fragments => SetUpBy(old, m)
      BY <1>2, <1>10, <1>11 DEF OneOwner
    <3>. QED
      BY <1>3, <3>1
  <2>3. SetUpBy(b, m)
    BY <1>5, <2>2 DEF SetUpBy
  <2>4. ASSUME NEW i \in DOMAIN b.fragments, i # id
        PROVE  i \in In(m) /\ b.fragments[i] = <<m, i>>
    <3>1. k \in DOMAIN command_fragments /\ i \in DOMAIN old.fragments /\ b.fragments[i] = old.fragments[i]
      BY <1>7, <2>4
    <3>2. PICK n \in Using(k) : i \in In(n) /\ old.fragments[i] = <<n, i>>
      BY <3>1, HeldIsUsing
    <3>. QED
      BY <2>1, <3>1, <3>2
  <2>5. ASSUME NEW i \in In(m) PROVE i \in DOMAIN b.fragments
    <3>1. k \in DOMAIN command_fragments /\ i \in DOMAIN old.fragments
      BY DEF In, k
    <3>. QED
      BY <1>3, <1>6, <3>1
  <2>. QED
    BY <1>6, <2>3, <2>4, <2>5
<1>. QED
  BY <1>2, <1>6, <1>7, <1>9, <1>11 DEF k

-----------------------------------------------------------------------------
(* Receiving a command: buffers, owners and what is on its way. *)

(* A set of ids of m is all of them when it has as many.                    *)
LEMMA FragmentCompletes ==
    ASSUME sent \in Seq(MessageRecord), NEW m \in 1 .. Len(sent), NEW S \in SUBSET Ids(m)
    PROVE  IsFiniteSet(S) /\ (Cardinality(S) = Count(m) <=> S = Ids(m))
<1>1. Count(m) \in Nat
  BY CountType
<1>2. IsFiniteSet(Ids(m)) /\ Cardinality(Ids(m)) = Count(m)
  <2>1. IsFiniteSet(0 .. Count(m) - 1)
    BY <1>1, FS_Interval
  <2>2. Cardinality(0 .. Count(m) - 1) = Count(m)
    BY <1>1, FS_Interval
  <2>. QED
    BY <2>1, <2>2 DEF Ids
<1>3. IsFiniteSet(S)
  BY <1>2, FS_Subset
<1>4. Cardinality(S) = Cardinality(Ids(m)) => S = Ids(m)
  BY <1>2, FS_Subset
<1>. QED
  BY <1>2, <1>3, <1>4

(* A key other than the one of the command keeps its buffer; under the      *)
(* command's key, b with the fragment or nothing is left.                   *)
BufferStep(k, b) ==
    \/ command_fragments' = Without(command_fragments, k)
    \/ command_fragments' = [j \in DOMAIN command_fragments \cup {k} |->
                                IF j = k THEN b ELSE command_fragments[j]]

LEMMA BufferStepDomains ==
    ASSUME NEW k, NEW b, BufferStep(k, b)
    PROVE  /\ \A j : j # k => (j \in DOMAIN command_fragments' <=> j \in DOMAIN command_fragments)
           /\ \A j \in DOMAIN command_fragments' :
                 command_fragments'[j] = IF j = k THEN b ELSE command_fragments[j]
BY DEF BufferStep, Without

LEMMA BufferStepInside ==
    ASSUME TransitOK, BuffersOK, OneOwner, UNCHANGED sent,
           NEW m \in 1 .. Len(sent), NEW id \in Ids(m), Fragmented(m), Piece(m, id) \in InTransit,
           NEW b, b = AddFragment(BufferOf(Piece(m, id)), Piece(m, id)),
           BufferStep(sent[m].sequence, b)
    PROVE  /\ \A n \in 1 .. Len(sent) : n # m => In(n)' \subseteq In(n)
           /\ \A n \in 1 .. Len(sent) : sent[n].sequence # sent[m].sequence => In(n)' = In(n)
           /\ sent[m].sequence \notin DOMAIN command_fragments' => In(m)' = {}
           /\ sent[m].sequence \notin shared /\ sent[m].sequence \in DOMAIN command_fragments' =>
                 In(m)' = In(m) \cup {id}
<1>. DEFINE k == sent[m].sequence
            cf == command_fragments
<1>1. /\ id \in DOMAIN b.fragments /\ b.fragments[id] = <<m, id>>
      /\ \A i \in DOMAIN b.fragments : i # id =>
            k \in DOMAIN cf /\ i \in DOMAIN cf[k].fragments /\ b.fragments[i] = cf[k].fragments[i]
      /\ k \notin shared =>
            DOMAIN b.fragments = In(m) \cup {id} /\ \A i \in DOMAIN b.fragments : b.fragments[i] = <<m, i>>
  BY AddedBuffer
<1>2. /\ \A j : j # k => (j \in DOMAIN cf' <=> j \in DOMAIN cf)
      /\ \A j \in DOMAIN cf' : cf'[j] = IF j = k THEN b ELSE cf[j]
  BY BufferStepDomains
<1>3. \A n : In(n)' = {i \in Ids(n) :
                          /\ sent[n].sequence \in DOMAIN cf'
                          /\ i \in DOMAIN cf'[sent[n].sequence].fragments
                          /\ cf'[sent[n].sequence].fragments[i] = <<n, i>>}
  BY DEF In, Ids, Count
<1>. HIDE DEF k
<1>4. ASSUME NEW n \in 1 .. Len(sent), n # m, NEW i \in In(n)' PROVE i \in In(n)
  <2>1. CASE sent[n].sequence = k
    <3>1. i \in Ids(n) /\ k \in DOMAIN cf' /\ i \in DOMAIN b.fragments /\ b.fragments[i] = <<n, i>>
      BY <1>2, <1>3, <2>1
    <3>2. i # id
      BY <1>1, <1>4, <3>1
    <3>. QED
      BY <1>1, <2>1, <3>1, <3>2 DEF In
  <2>2. CASE sent[n].sequence # k
    BY <1>2, <1>3, <2>2 DEF In
  <2>. QED
    BY <2>1, <2>2
<1>5. ASSUME NEW n \in 1 .. Len(sent), sent[n].sequence # k PROVE In(n)' = In(n)
  BY <1>2, <1>3, <1>5 DEF In
<1>6. k \notin DOMAIN cf' => In(m)' = {}
  BY <1>3 DEF k
<1>7. ASSUME k \notin shared, k \in DOMAIN cf' PROVE In(m)' = In(m) \cup {id}
  <2>1. cf'[k] = b
    BY <1>2, <1>7
  <2>2. In(m)' = {i \in Ids(m) : i \in DOMAIN b.fragments /\ b.fragments[i] = <<m, i>>}
    BY <1>3, <1>7, <2>1 DEF k
  <2>3. In(m) \cup {id} \subseteq Ids(m)
    BY DEF In
  <2>. QED
    BY <1>1, <1>7, <2>2, <2>3
<1>. QED
  BY <1>4, <1>5, <1>6, <1>7 DEF k

(* The fragment is kept or the buffer goes, as KeepFragment and             *)
(* CompleteMessage decide.                                                  *)
FragmentStep(m, id, b) ==
    /\ b = AddFragment(BufferOf(Piece(m, id)), Piece(m, id))
    /\ BufferStep(sent[m].sequence, b)
    /\ IsComplete(b) <=> sent[m].sequence \notin DOMAIN command_fragments'

LEMMA FragmentStepKeeps ==
    ASSUME TransitOK, BuffersOK, OneOwner, Tracked,
           NEW m \in 1 .. Len(sent), NEW id \in Ids(m), Fragmented(m), Piece(m, id) \in wire,
           Receive(Piece(m, id)), NEW b, FragmentStep(m, id, b)
    PROVE  BuffersOK' /\ OneOwner' /\ Tracked'
<1>. DEFINE k == sent[m].sequence
            cf == command_fragments
<1>1. /\ UNCHANGED <<sent, shared>> /\ spoiled \subseteq spoiled' /\ id \in Out(m)
      /\ \A n \in 1 .. Len(sent) : n # m => Out(n)' = Out(n)
      /\ Out(m)' \subseteq Out(m)
      /\ m \notin spoiled' => Out(m)' = Out(m) \ {id}
  BY ReceiveNetwork
<1>2. Piece(m, id) \in InTransit
  BY DEF InTransit
<1>3. /\ k \in SequenceNumber /\ BufferRecord(k, b)
      /\ k \notin shared =>
            /\ SetUpBy(b, m) /\ DOMAIN b.fragments = In(m) \cup {id}
            /\ \A i \in DOMAIN b.fragments : b.fragments[i] = <<m, i>>
  BY <1>2, AddedBuffer DEF FragmentStep
<1>4. /\ \A j : j # k => (j \in DOMAIN cf' <=> j \in DOMAIN cf)
      /\ \A j \in DOMAIN cf' : cf'[j] = IF j = k THEN b ELSE cf[j]
  BY BufferStepDomains DEF FragmentStep
<1>5. /\ \A n \in 1 .. Len(sent) : n # m => In(n)' \subseteq In(n)
      /\ \A n \in 1 .. Len(sent) : sent[n].sequence # k => In(n)' = In(n)
      /\ k \notin DOMAIN cf' => In(m)' = {}
      /\ k \notin shared /\ k \in DOMAIN cf' => In(m)' = In(m) \cup {id}
  BY <1>1, <1>2, BufferStepInside DEF FragmentStep
<1>6. /\ \A j, x : BufferRecord(j, x)' <=> BufferRecord(j, x)
      /\ \A n : Ids(n)' = Ids(n)
      /\ \A n : Fragmented(n)' <=> Fragmented(n)
      /\ \A n, x : SetUpBy(x, n)' <=> SetUpBy(x, n)
  BY <1>1 DEF BufferRecord, Fragmented, Ids, Count, SetUpBy
<1>7. m \in Using(k)
  BY <1>1 DEF Using
<1>8. \A j : Using(j)' = {n \in 1 .. Len(sent) :
                             Fragmented(n) /\ sent[n].sequence = j /\ (Out(n)' # {} \/ In(n)' # {})}
  BY <1>1, <1>6 DEF Using
<1>. HIDE DEF k
<1>9. ASSUME NEW j PROVE Using(j)' \subseteq Using(j)
  <2>. SUFFICES ASSUME NEW n \in Using(j)' PROVE n \in Using(j)
    OBVIOUS
  <2>1. /\ n \in 1 .. Len(sent) /\ Fragmented(n) /\ sent[n].sequence = j
        /\ Out(n)' # {} \/ In(n)' # {}
    BY <1>8
  <2>2. CASE n = m
    BY <1>7, <2>1, <2>2 DEF k
  <2>3. CASE n # m
    BY <1>1, <1>5, <2>1, <2>3 DEF Using
  <2>. QED
    BY <2>2, <2>3
<1>10. BuffersOK'
  <2>1. ASSUME NEW j \in DOMAIN cf' PROVE j \in SequenceNumber /\ BufferRecord(j, cf'[j])
    <3>1. CASE j = k
      BY <1>3, <1>4, <3>1
    <3>2. CASE j # k
      BY <1>4, <3>2 DEF BuffersOK
    <3>. QED
      BY <3>1, <3>2
  <2>. QED
    BY <1>6, <2>1 DEF BuffersOK
<1>11. OneOwner'
  <2>1. ASSUME NEW j \in SequenceNumber \ shared
        PROVE  /\ \A p, q \in Using(j)' : p = q
               /\ j \in DOMAIN cf' => \A p \in Using(j)' : SetUpBy(cf'[j], p)
    <3>1. \A p, q \in Using(j) : p = q
      BY DEF OneOwner
    <3>2. CASE j = k
      <4>1. \A p \in Using(j)' : p = m
        BY <1>7, <1>9, <3>1, <3>2
      <4>2. j \in DOMAIN cf' => SetUpBy(cf'[j], m)
        BY <1>3, <1>4, <3>2
      <4>. QED
        BY <4>1, <4>2
    <3>3. CASE j # k
      <4>1. j \in DOMAIN cf' => j \in DOMAIN cf /\ cf'[j] = cf[j]
        BY <1>4, <3>3
      <4>2. j \in DOMAIN cf => \A p \in Using(j) : SetUpBy(cf[j], p)
        BY DEF OneOwner
      <4>. QED
        BY <1>9, <3>1, <4>1, <4>2
    <3>. QED
      BY <3>2, <3>3
  <2>. QED
    BY <1>1, <1>6, <2>1 DEF OneOwner
<1>12. ASSUME m \notin spoiled', k \notin shared
       PROVE  \/ Out(m)' = {} /\ In(m)' = {}
              \/ Out(m)' # {} /\ Out(m)' \cup In(m)' = Ids(m) /\ Out(m)' \cap In(m)' = {}
  <2>1. Out(m) \cup In(m) = Ids(m) /\ Out(m) \cap In(m) = {} /\ Out(m)' = Out(m) \ {id}
    BY <1>1, <1>12 DEF Tracked, k
  <2>2. b.fragment_count = Count(m) /\ DOMAIN b.fragments = In(m) \cup {id}
    BY <1>3, <1>12 DEF SetUpBy
  <2>3. In(m) \cup {id} \subseteq Ids(m)
    BY DEF In
  <2>4. IsComplete(b) <=> In(m) \cup {id} = Ids(m)
    BY <2>2, <2>3, FragmentCompletes DEF IsComplete, TransitOK
  <2>5. CASE k \in DOMAIN cf'
    <3>1. In(m) \cup {id} # Ids(m)
      BY <2>4, <2>5 DEF FragmentStep, k
    <3>. QED
      BY <1>5, <1>12, <2>1, <2>3, <2>5, <3>1
  <2>6. CASE k \notin DOMAIN cf'
    <3>1. In(m) \cup {id} = Ids(m)
      BY <2>4, <2>6 DEF FragmentStep, k
    <3>. QED
      BY <1>5, <2>1, <2>6, <3>1
  <2>. QED
    BY <2>5, <2>6
<1>13. ASSUME NEW n \in 1 .. Len(sent), n # m, Fragmented(n), n \notin spoiled', sent[n].sequence \notin shared
       PROVE  Out(n)' = Out(n) /\ In(n)' = In(n)
  <2>1. CASE sent[n].sequence # k
    BY <1>1, <1>5, <1>13, <2>1
  <2>2. CASE sent[n].sequence = k
    <3>1. n \notin Using(k)
      BY <1>3, <1>7, <1>13, <2>2 DEF OneOwner
    <3>2. In(n) = {}
      BY <1>13, <2>2, <3>1 DEF Using
    <3>. QED
      BY <1>1, <1>5, <1>13, <3>2
  <2>. QED
    BY <2>1, <2>2
<1>14. Tracked'
  <2>1. ASSUME NEW n \in 1 .. Len(sent), Fragmented(n), n \notin spoiled', sent[n].sequence \notin shared
        PROVE  \/ Out(n)' = {} /\ In(n)' = {}
               \/ Out(n)' # {} /\ Out(n)' \cup In(n)' = Ids(n) /\ Out(n)' \cap In(n)' = {}
    <3>1. CASE n = m
      BY <1>12, <2>1, <3>1 DEF k
    <3>2. CASE n # m
      <4>1. n \notin spoiled
        BY <1>1, <2>1
      <4>2. Out(n)' = Out(n) /\ In(n)' = In(n)
        BY <1>13, <2>1, <3>2
      <4>. QED
        BY <2>1, <4>1, <4>2 DEF Tracked
    <3>. QED
      BY <3>1, <3>2
  <2>. QED
    BY <1>1, <1>6, <2>1 DEF Tracked
<1>. QED
  BY <1>10, <1>11, <1>14

-----------------------------------------------------------------------------
(* Receiving a command: what is delivered and acknowledged. *)

(* The payload of a command and its acknowledgement, for either arm.        *)
LEMMA PayloadKeeps ==
    ASSUME TransitOK, ChannelsOK, IntactUnlessShared, UNCHANGED <<sent, shared>>,
           NEW m \in 1 .. Len(sent), NEW id \in Ids(m), NEW c, c = Piece(m, id),
           NEW ch \in Channels, NEW ordered \in BOOLEAN, NEW data,
           sent[m].sequence \in shared \/ (data = Content(m) /\ ch = sent[m].channel),
           AckIfReliable(c, ch, data), Deliver(c, ch, ordered, data)
    PROVE  ChannelsOK' /\ IntactUnlessShared'
<1>. DEFINE pay == Payload(c, ch, data)
<1>1. c.sequence = sent[m].sequence /\ c.kind = sent[m].kind
  BY PieceFields DEF TransitOK
<1>2. sent[m].kind \in Kinds /\ sent[m].sequence \in SequenceNumber
  <2>1. sent[m] \in MessageRecord
    BY CountType DEF TransitOK
  <2>. QED
    BY <2>1 DEF MessageRecord
<1>3. pay.sequence = sent[m].sequence /\ pay.data = data /\ pay.channel = ch
  BY <1>1 DEF Payload
<1>4. ASSUME NEW kinds, sent[m].kind \in kinds PROVE IntactIn(pay, kinds)
  <2>. HIDE DEF pay
  <2>. QED
    BY <1>3, <1>4 DEF IntactIn, IsMessage
<1>5. ChannelsOK' /\ \A p \in delivered' : IntactIn(p, Kinds)
  BY <1>1, <1>2, <1>4, DeliverKeeps
<1>6. \A p \in acked' : IntactIn(p, Kinds \ {"unreliable"})
  <2>1. \A p \in acked : IntactIn(p, Kinds \ {"unreliable"})
    BY DEF IntactUnlessShared, IntactIn
  <2>2. CASE c.kind = "unreliable"
    BY <2>1, <2>2 DEF AckIfReliable
  <2>3. CASE c.kind # "unreliable"
    <3>1. acked' = acked \cup {pay}
      BY <2>3 DEF AckIfReliable
    <3>2. IntactIn(pay, Kinds \ {"unreliable"})
      BY <1>1, <1>2, <1>4, <2>3
    <3>. QED
      BY <2>1, <3>1, <3>2
  <2>. QED
    BY <2>2, <2>3
<1>7. IntactUnlessShared'
  BY <1>5, <1>6 DEF IntactUnlessShared, IntactIn, IsMessage, Content
<1>. QED
  BY <1>5, <1>7

LEMMA WholeKeeps ==
    ASSUME FragmentInv, NEW m \in 1 .. Len(sent), NEW id \in Ids(m), Piece(m, id) \in wire,
           Receive(Piece(m, id)), ProcessWhole(Piece(m, id))
    PROVE  FragmentInv'
<1>. DEFINE c == Piece(m, id)
<1>. USE DEF FragmentInv
<1>1. /\ TransitOK' /\ UNCHANGED <<sent, shared>> /\ spoiled \subseteq spoiled'
      /\ \A n \in 1 .. Len(sent) : n # m => Out(n)' = Out(n)
  BY ReceiveNetwork
<1>2. c.type = (IF Fragmented(m) THEN "Fragment" ELSE "Whole") /\ c.channel = sent[m].channel /\ c.data = <<m, id>>
  BY PieceFields DEF TransitOK
<1>3. /\ c.type = "Whole" /\ UNCHANGED command_fragments
      /\ AckIfReliable(c, c.channel, <<c.data>>) /\ Deliver(c, c.channel, c.kind = "ordered", <<c.data>>)
  BY DEF ProcessWhole
<1>4. /\ ~Fragmented(m) /\ sent[m] \in MessageRecord /\ Count(m) = 1 /\ id = 0
  BY <1>2, <1>3, CountType DEF TransitOK
<1>5. /\ \A j, x : BufferRecord(j, x)' <=> BufferRecord(j, x)
      /\ \A n : In(n)' = In(n)
      /\ \A n : Ids(n)' = Ids(n)
      /\ \A n : Fragmented(n)' <=> Fragmented(n)
      /\ \A n, x : SetUpBy(x, n)' <=> SetUpBy(x, n)
  BY <1>1, <1>3 DEF BufferRecord, Fragmented, Ids, Count, SetUpBy, In
<1>6. \A n \in 1 .. Len(sent) : Fragmented(n) => Out(n)' = Out(n)
  BY <1>1, <1>4
<1>7. \A j : Using(j)' = Using(j)
  BY <1>1, <1>5, <1>6 DEF Using
<1>8. BuffersOK'
  BY <1>3, <1>5 DEF BuffersOK
<1>9. OneOwner'
  BY <1>1, <1>3, <1>5, <1>7 DEF OneOwner
<1>10. Tracked'
  BY <1>1, <1>5, <1>6 DEF Tracked
<1>11. <<c.data>> = Content(m)
  <2>1. Content(m) = [i \in 1 .. 1 |-> <<m, i - 1>>]
    BY <1>4 DEF Content, Count
  <2>2. [i \in 1 .. 1 |-> <<m, i - 1>>] = << <<m, 0>> >>
    OBVIOUS
  <2>. QED
    BY <1>2, <1>4, <2>1, <2>2
<1>12. sent[m].channel \in Channels /\ (c.kind = "ordered") \in BOOLEAN
  BY <1>4 DEF MessageRecord
<1>. HIDE DEF c, FragmentInv
<1>13. ChannelsOK' /\ IntactUnlessShared'
  <2>1. TransitOK /\ ChannelsOK /\ IntactUnlessShared /\ c = Piece(m, id)
    BY DEF FragmentInv, c
  <2>. QED
    BY <1>1, <1>2, <1>3, <1>11, <1>12, <2>1, PayloadKeeps
<1>. QED
  BY <1>1, <1>8, <1>9, <1>10, <1>13 DEF FragmentInv

LEMMA KeepKeeps ==
    ASSUME FragmentInv, NEW m \in 1 .. Len(sent), NEW id \in Ids(m), Piece(m, id) \in wire,
           Receive(Piece(m, id)), KeepFragment(Piece(m, id))
    PROVE  FragmentInv'
<1>. DEFINE c == Piece(m, id)
            b == AddFragment(BufferOf(c), c)
<1>1. TransitOK' /\ UNCHANGED <<sent, shared>>
  BY ReceiveNetwork DEF FragmentInv
<1>2. /\ c.type = IF Fragmented(m) THEN "Fragment" ELSE "Whole"
      /\ c.sequence = sent[m].sequence
  BY PieceFields DEF FragmentInv, TransitOK
<1>3. /\ Fragmented(m) /\ ~IsComplete(b) /\ UNCHANGED <<channel, delivered, acked>>
      /\ command_fragments' = [k \in DOMAIN command_fragments \cup {c.sequence} |->
                                       IF k = c.sequence THEN b ELSE command_fragments[k]]
  BY <1>2 DEF KeepFragment
<1>4. FragmentStep(m, id, b)
  <2>. HIDE DEF b
  <2>1. sent[m].sequence \in DOMAIN command_fragments'
    BY <1>2, <1>3
  <2>2. BufferStep(sent[m].sequence, b)
    BY <1>2, <1>3 DEF BufferStep
  <2>. QED
    BY <1>3, <2>1, <2>2 DEF FragmentStep, b
<1>. HIDE DEF b, c
<1>5. BuffersOK' /\ OneOwner' /\ Tracked'
  BY <1>3, <1>4, FragmentStepKeeps DEF FragmentInv
<1>6. ChannelsOK' /\ IntactUnlessShared'
  BY <1>1, <1>3 DEF FragmentInv, ChannelsOK, IntactUnlessShared, IntactIn, IsMessage, Content
<1>. QED
  BY <1>1, <1>5, <1>6 DEF FragmentInv

LEMMA CompleteKeeps ==
    ASSUME FragmentInv, NEW m \in 1 .. Len(sent), NEW id \in Ids(m), Piece(m, id) \in wire,
           Receive(Piece(m, id)), CompleteMessage(Piece(m, id))
    PROVE  FragmentInv'
<1>. DEFINE c == Piece(m, id)
            b == AddFragment(BufferOf(c), c)
<1>1. TransitOK' /\ UNCHANGED <<sent, shared>>
  BY ReceiveNetwork DEF FragmentInv
<1>2. /\ c.type = IF Fragmented(m) THEN "Fragment" ELSE "Whole"
      /\ c.sequence = sent[m].sequence
  BY PieceFields DEF FragmentInv, TransitOK
<1>3. /\ Fragmented(m) /\ IsComplete(b)
      /\ command_fragments' = Without(command_fragments, c.sequence)
      /\ IF Reassembles(b)
         THEN /\ AckIfReliable(c, b.channel, Reassemble(b))
              /\ Deliver(c, b.channel, c.kind # "unreliable" /\ b.ordered, Reassemble(b))
         ELSE UNCHANGED <<channel, delivered, acked>>
  BY <1>2 DEF CompleteMessage
<1>4. FragmentStep(m, id, b)
  <2>. HIDE DEF b
  <2>1. sent[m].sequence \notin DOMAIN command_fragments'
    BY <1>2, <1>3 DEF Without
  <2>2. BufferStep(sent[m].sequence, b)
    BY <1>2, <1>3 DEF BufferStep
  <2>. QED
    BY <1>3, <2>1, <2>2 DEF FragmentStep, b
<1>5. /\ BufferRecord(sent[m].sequence, b)
      /\ sent[m].sequence \notin shared =>
            SetUpBy(b, m) /\ \A i \in DOMAIN b.fragments : b.fragments[i] = <<m, i>>
  <2>1. Piece(m, id) \in InTransit
    BY DEF InTransit
  <2>. QED
    BY <1>3, <2>1, AddedBuffer DEF FragmentInv
<1>. HIDE DEF b, c
<1>6. BuffersOK' /\ OneOwner' /\ Tracked'
  BY <1>3, <1>4, FragmentStepKeeps DEF FragmentInv
<1>7. CASE Reassembles(b)
  <2>1. b.channel \in Channels /\ (c.kind # "unreliable" /\ b.ordered) \in BOOLEAN
    BY <1>5 DEF BufferRecord
  <2>2. ASSUME sent[m].sequence \notin shared
        PROVE  Reassemble(b) = Content(m) /\ b.channel = sent[m].channel
    <3>1. /\ b.fragment_count = Count(m) /\ b.channel = sent[m].channel
          /\ \A i \in 0 .. Count(m) - 1 : b.fragments[i] = <<m, i>>
      BY <1>5, <1>7, <2>2 DEF SetUpBy, Reassembles
    <3>2. Count(m) \in Nat
      BY CountType DEF FragmentInv, TransitOK
    <3>3. \A i \in 1 .. Count(m) : i - 1 \in 0 .. Count(m) - 1
      BY <3>2
    <3>. QED
      BY <3>1, <3>3 DEF Reassemble, Content, Count
  <2>3. AckIfReliable(c, b.channel, Reassemble(b))
    BY <1>3, <1>7
  <2>4. Deliver(c, b.channel, c.kind # "unreliable" /\ b.ordered, Reassemble(b))
    BY <1>3, <1>7
  <2>5. TransitOK /\ ChannelsOK /\ IntactUnlessShared /\ c = Piece(m, id)
    BY DEF FragmentInv, c
  <2>6. ChannelsOK' /\ IntactUnlessShared'
    BY <1>1, <2>1, <2>2, <2>3, <2>4, <2>5, PayloadKeeps
  <2>. QED
    BY <1>1, <1>6, <2>6 DEF FragmentInv
<1>8. CASE ~Reassembles(b)
  <2>1. ChannelsOK' /\ IntactUnlessShared'
    BY <1>1, <1>3, <1>8 DEF FragmentInv, ChannelsOK, IntactUnlessShared, IntactIn, IsMessage, Content
  <2>. QED
    BY <1>1, <1>6, <2>1 DEF FragmentInv
<1>. QED
  BY <1>7, <1>8

LEMMA ReceiveKeepsInv ==
    ASSUME FragmentInv, NEW c \in wire, Receive(c)
    PROVE  FragmentInv'
<1>1. PICK m \in 1 .. Len(sent) : \E id \in Ids(m) : c = Piece(m, id)
  BY PieceOfSet DEF FragmentInv, TransitOK
<1>2. PICK id \in Ids(m) : c = Piece(m, id)
  BY <1>1
<1>3. ProcessWhole(c) \/ KeepFragment(c) \/ CompleteMessage(c)
  BY DEF Receive
<1>. QED
  BY <1>2, <1>3, WholeKeeps, KeepKeeps, CompleteKeeps

-----------------------------------------------------------------------------
(* The steps that only take away: flushing, losing, ageing, cleaning up. *)

(* Two buffers that differ in their age at most.                            *)
SameButAge(x, y) ==
    /\ x = [channel |-> y.channel, fragment_count |-> y.fragment_count,
            ordered |-> y.ordered, fragments |-> y.fragments, age |-> x.age]
    /\ x.channel = y.channel /\ x.fragment_count = y.fragment_count
    /\ x.ordered = y.ordered /\ x.fragments = y.fragments

LEMMA ShrinkKeeps ==
    ASSUME BuffersOK, OneOwner, Tracked, UNCHANGED <<sent, shared>>, spoiled \subseteq spoiled',
           DOMAIN command_fragments' \subseteq DOMAIN command_fragments,
           \A k \in DOMAIN command_fragments' : SameButAge(command_fragments'[k], command_fragments[k]),
           \A n \in 1 .. Len(sent) : Out(n)' \subseteq Out(n),
           \A n \in 1 .. Len(sent) : Fragmented(n) /\ n \notin spoiled' =>
              /\ Out(n)' = Out(n)
              /\ sent[n].sequence \in DOMAIN command_fragments /\ In(n) # {} =>
                    sent[n].sequence \in DOMAIN command_fragments'
    PROVE  BuffersOK' /\ OneOwner' /\ Tracked'
<1>. DEFINE cf == command_fragments
<1>1. /\ \A j, x : BufferRecord(j, x)' <=> BufferRecord(j, x)
      /\ \A n : Ids(n)' = Ids(n)
      /\ \A n : Fragmented(n)' <=> Fragmented(n)
      /\ \A n, x : SetUpBy(x, n)' <=> SetUpBy(x, n)
  BY DEF BufferRecord, Fragmented, Ids, Count, SetUpBy
<1>2. \A n : In(n)' = {i \in Ids(n) :
                          /\ sent[n].sequence \in DOMAIN cf'
                          /\ i \in DOMAIN cf'[sent[n].sequence].fragments
                          /\ cf'[sent[n].sequence].fragments[i] = <<n, i>>}
  BY <1>1 DEF In
<1>3. \A n : In(n)' \subseteq In(n)
  BY <1>2 DEF In, SameButAge
<1>4. \A n : sent[n].sequence \in DOMAIN cf' => In(n)' = In(n)
  BY <1>2 DEF In, SameButAge
<1>5. \A n : sent[n].sequence \notin DOMAIN cf => In(n) = {}
  BY DEF In
<1>6. \A j : Using(j)' \subseteq Using(j)
  <2>1. \A j : Using(j)' = {n \in 1 .. Len(sent) :
                              Fragmented(n) /\ sent[n].sequence = j /\ (Out(n)' # {} \/ In(n)' # {})}
    BY <1>1 DEF Using
  <2>. QED
    BY <1>3, <2>1 DEF Using
<1>7. BuffersOK'
  <2>1. ASSUME NEW k \in DOMAIN cf' PROVE k \in SequenceNumber /\ BufferRecord(k, cf'[k])
    <3>. DEFINE x == cf'[k]
                y == cf[k]
    <3>1. k \in SequenceNumber /\ BufferRecord(k, y) /\ SameButAge(x, y)
      BY DEF BuffersOK
    <3>. HIDE DEF x, y
    <3>2. x = [channel |-> x.channel, fragment_count |-> x.fragment_count,
               ordered |-> x.ordered, fragments |-> x.fragments, age |-> x.age]
      BY <3>1 DEF SameButAge
    <3>3. BufferRecord(k, x)
      BY <3>1, <3>2 DEF BufferRecord, SameButAge
    <3>. QED
      BY <3>1, <3>3 DEF x
  <2>. QED
    BY <1>1, <2>1 DEF BuffersOK
<1>8. OneOwner'
  <2>1. ASSUME NEW j \in SequenceNumber \ shared
        PROVE  /\ \A p, q \in Using(j)' : p = q
               /\ j \in DOMAIN cf' => \A p \in Using(j)' : SetUpBy(cf'[j], p)
    <3>1. /\ \A p, q \in Using(j) : p = q
          /\ j \in DOMAIN cf => \A p \in Using(j) : SetUpBy(cf[j], p)
      BY DEF OneOwner
    <3>2. ASSUME j \in DOMAIN cf', NEW p \in Using(j)' PROVE SetUpBy(cf'[j], p)
      <4>1. SetUpBy(cf[j], p) /\ SameButAge(cf'[j], cf[j])
        BY <1>6, <3>1, <3>2
      <4>. QED
        BY <4>1 DEF SetUpBy, SameButAge
    <3>. QED
      BY <1>6, <3>1, <3>2
  <2>. QED
    BY <1>1, <2>1 DEF OneOwner
<1>9. Tracked'
  <2>1. ASSUME NEW n \in 1 .. Len(sent), Fragmented(n), n \notin spoiled', sent[n].sequence \notin shared
        PROVE  \/ Out(n)' = {} /\ In(n)' = {}
               \/ Out(n)' # {} /\ Out(n)' \cup In(n)' = Ids(n) /\ Out(n)' \cap In(n)' = {}
    <3>1. Out(n)' = Out(n) /\ In(n)' = In(n) /\ n \notin spoiled
      BY <1>3, <1>4, <1>5, <2>1
    <3>. QED
      BY <2>1, <3>1 DEF Tracked
  <2>. QED
    BY <1>1, <2>1 DEF Tracked
<1>. QED
  BY <1>7, <1>8, <1>9

(* A buffer is the same as itself.                                          *)
LEMMA BuffersSame ==
    ASSUME BuffersOK, NEW k \in DOMAIN command_fragments
    PROVE  SameButAge(command_fragments[k], command_fragments[k])
BY DEF BuffersOK, BufferRecord, SameButAge

(* Without a step of the receiver what it delivered is as intact as before. *)
LEMMA ChannelsUntouched ==
    ASSUME ChannelsOK, IntactUnlessShared, UNCHANGED <<sent, shared, channel, delivered, acked>>
    PROVE  ChannelsOK' /\ IntactUnlessShared'
BY DEF ChannelsOK, IntactUnlessShared, IntactIn, IsMessage, Content

(* The pieces of the messages do not change unless one is sent.             *)
LEMMA PiecesUntouched ==
    ASSUME UNCHANGED sent
    PROVE  /\ PieceSet' = PieceSet
           /\ \A n : Out(n)' = {i \in Ids(n) : Piece(n, i) \in InTransit'}
<1>1. /\ \A n, i : Piece(n, i)' = Piece(n, i)
      /\ \A n : Ids(n)' = Ids(n)
  BY DEF Piece, Ids, Count, Fragmented
<1>. QED
  BY <1>1 DEF PieceSet, Out

LEMMA FlushKeepsInv ==
    ASSUME FragmentInv, Flush
    PROVE  FragmentInv'
<1>. USE DEF FragmentInv
<1>1. /\ wire' = wire \cup ToSet(queue) /\ queue' = << >>
      /\ UNCHANGED <<next_unreliable_sequence, command_fragments, channel, delivered, acked,
                     sent, spoiled, shared, faults>>
  BY DEF Flush, receiver, history
<1>2. ToSet(queue') = {} /\ Len(queue') = 0 /\ queue' \in Seq(PieceSet)
  BY <1>1 DEF ToSet
<1>3. InTransit' = InTransit
  BY <1>1, <1>2 DEF InTransit
<1>4. PieceSet' = PieceSet /\ \A n : Out(n)' = Out(n)
  BY <1>1, <1>3, PiecesUntouched DEF Out
<1>5. TransitOK'
  <2>1. ToSet(queue) \subseteq PieceSet
    BY DEF TransitOK, ToSet
  <2>2. 0 <= Len(sent) * MaxFragments
    BY Limits DEF TransitOK
  <2>. QED
    BY <1>1, <1>2, <1>4, <2>1, <2>2 DEF TransitOK
<1>6. BuffersOK' /\ OneOwner' /\ Tracked'
  BY <1>1, <1>4, BuffersSame, ShrinkKeeps
<1>7. ChannelsOK' /\ IntactUnlessShared'
  BY <1>1, ChannelsUntouched
<1>. QED
  BY <1>5, <1>6, <1>7

LEMMA LoseKeepsInv ==
    ASSUME FragmentInv, NEW c \in wire, Lose(c)
    PROVE  FragmentInv'
<1>1. PICK m \in 1 .. Len(sent) : \E id \in Ids(m) : c = Piece(m, id)
  BY PieceOfSet DEF FragmentInv, TransitOK
<1>2. PICK id \in Ids(m) : c = Piece(m, id)
  BY <1>1
<1>3. /\ faults < MaxFaults /\ faults' = faults + 1 /\ wire' = wire \ {c}
      /\ spoiled' = spoiled \cup {c.data[1]}
      /\ UNCHANGED <<next_unreliable_sequence, queue, command_fragments, channel, delivered, acked,
                     sent, shared>>
  BY DEF Lose, receiver
<1>4. c.data[1] = m
  BY <1>2, PieceFields DEF FragmentInv, TransitOK
<1>5. PieceSet' = PieceSet /\ \A n : Out(n)' = {i \in Ids(n) : Piece(n, i) \in InTransit'}
  BY <1>3, PiecesUntouched
<1>6. TransitOK'
  <2>1. faults' \in 0 .. MaxFaults /\ spoiled' \subseteq 1 .. Len(sent)
    BY <1>3, <1>4, Limits DEF FragmentInv, TransitOK
  <2>2. queue' \in Seq(PieceSet')
    BY <1>3, <1>5 DEF FragmentInv, TransitOK
  <2>. QED
    BY <1>3, <1>5, <2>1, <2>2 DEF FragmentInv, TransitOK
<1>7. InTransit' = InTransit \ {c}
  BY <1>3 DEF FragmentInv, TransitOK, InTransit
<1>8. ASSUME NEW n \in 1 .. Len(sent) PROVE Out(n)' \subseteq Out(n) /\ (n # m => Out(n)' = Out(n))
  <2>1. n # m => \A i \in Ids(n) : Piece(n, i) # c
    BY <1>2, PieceIsUnique DEF FragmentInv, TransitOK
  <2>. QED
    BY <1>5, <1>7, <2>1 DEF Out
<1>9. BuffersOK' /\ OneOwner' /\ Tracked'
  <2>1. \A n \in 1 .. Len(sent) : n \notin spoiled' => Out(n)' = Out(n)
    BY <1>3, <1>4, <1>8
  <2>2. \A k \in DOMAIN command_fragments' : SameButAge(command_fragments'[k], command_fragments[k])
    BY <1>3, BuffersSame DEF FragmentInv
  <2>. QED
    BY <1>3, <1>8, <2>1, <2>2, ShrinkKeeps DEF FragmentInv
<1>10. ChannelsOK' /\ IntactUnlessShared'
  BY <1>3, ChannelsUntouched DEF FragmentInv
<1>. QED
  BY <1>6, <1>9, <1>10 DEF FragmentInv

(* The sender and the network see nothing of the clock.                     *)
LEMMA NetworkUntouched ==
    ASSUME TransitOK, UNCHANGED <<next_unreliable_sequence, queue, wire, sent, shared, faults>>,
           spoiled' \subseteq 1 .. Len(sent)
    PROVE  TransitOK' /\ \A n : Out(n)' = Out(n)
<1>1. InTransit' = InTransit
  BY DEF InTransit
<1>2. PieceSet' = PieceSet /\ \A n : Out(n)' = Out(n)
  BY <1>1, PiecesUntouched DEF Out
<1>. QED
  BY <1>2 DEF TransitOK

LEMMA TickKeepsInv ==
    ASSUME FragmentInv, Tick
    PROVE  FragmentInv'
<1>. DEFINE cf == command_fragments
<1>1. /\ cf' = [k \in DOMAIN cf |->
                  [cf[k] EXCEPT !.age = IF @ > FragmentTimeout THEN @ ELSE @ + 1]]
      /\ UNCHANGED <<next_unreliable_sequence, queue, wire, channel, delivered, acked,
                     sent, spoiled, shared, faults>>
  BY DEF Tick, history
<1>2. ASSUME NEW k \in DOMAIN cf' PROVE SameButAge(cf'[k], cf[k])
  <2>1. cf[k] = [channel |-> cf[k].channel, fragment_count |-> cf[k].fragment_count,
                 ordered |-> cf[k].ordered, fragments |-> cf[k].fragments, age |-> cf[k].age]
    BY <1>1 DEF FragmentInv, BuffersOK, BufferRecord
  <2>2. PICK a : cf'[k] = [cf[k] EXCEPT !.age = a]
    BY <1>1
  <2>. QED
    BY <2>1, <2>2 DEF SameButAge
<1>3. TransitOK' /\ \A n : Out(n)' = Out(n)
  <2>1. TransitOK /\ spoiled' \subseteq 1 .. Len(sent)
    BY <1>1 DEF FragmentInv, TransitOK
  <2>. QED
    BY <1>1, <2>1, NetworkUntouched
<1>4. BuffersOK' /\ OneOwner' /\ Tracked'
  <2>1. DOMAIN cf' = DOMAIN cf
    BY <1>1
  <2>. QED
    BY <1>1, <1>2, <1>3, <2>1, ShrinkKeeps DEF FragmentInv
<1>5. ChannelsOK' /\ IntactUnlessShared'
  BY <1>1, ChannelsUntouched DEF FragmentInv
<1>. QED
  BY <1>3, <1>4, <1>5 DEF FragmentInv

LEMMA CleanupKeepsInv ==
    ASSUME FragmentInv, CleanupStaleFragments
    PROVE  FragmentInv'
<1>. DEFINE cf == command_fragments
            stale == {k \in DOMAIN cf : cf[k].age > FragmentTimeout}
<1>1. /\ cf' = [k \in DOMAIN cf \ stale |-> cf[k]]
      /\ spoiled' = spoiled \cup UNION {MessagesIn(cf[k]) : k \in stale}
      /\ UNCHANGED <<next_unreliable_sequence, queue, wire, channel, delivered, acked,
                     sent, shared, faults>>
  BY DEF CleanupStaleFragments
<1>. HIDE DEF stale
<1>2. stale \subseteq DOMAIN cf
  BY DEF stale
<1>3. ASSUME NEW k \in stale PROVE MessagesIn(cf[k]) \subseteq 1 .. Len(sent)
  <2>. SUFFICES ASSUME NEW i \in DOMAIN cf[k].fragments PROVE cf[k].fragments[i][1] \in 1 .. Len(sent)
    BY DEF MessagesIn
  <2>1. PICK m \in 1 .. Len(sent) : cf[k].fragments[i] = <<m, i>>
    BY <1>2 DEF FragmentInv, BuffersOK, BufferRecord
  <2>. QED
    BY <2>1
<1>4. spoiled' \subseteq 1 .. Len(sent) /\ spoiled \subseteq spoiled'
  BY <1>1, <1>3 DEF FragmentInv, TransitOK
<1>5. TransitOK' /\ \A n : Out(n)' = Out(n)
  BY <1>1, <1>4, NetworkUntouched DEF FragmentInv
<1>6. ASSUME NEW n \in 1 .. Len(sent), n \notin spoiled', In(n) # {} PROVE sent[n].sequence \in DOMAIN cf'
  <2>1. PICK i : i \in In(n)
    BY <1>6
  <2>. DEFINE k == sent[n].sequence
  <2>2. k \in DOMAIN cf /\ i \in DOMAIN cf[k].fragments /\ cf[k].fragments[i] = <<n, i>>
    BY <2>1 DEF In
  <2>. HIDE DEF k
  <2>3. n \in MessagesIn(cf[k])
    <3>1. cf[k].fragments[i][1] = n
      BY <2>2
    <3>. QED
      BY <2>2, <3>1 DEF MessagesIn
  <2>4. k \notin stale
    BY <1>1, <1>6, <2>3
  <2>5. k \in DOMAIN cf'
    BY <1>1, <2>2, <2>4
  <2>. QED
    BY <2>5 DEF k
<1>7. BuffersOK' /\ OneOwner' /\ Tracked'
  <2>1. DOMAIN cf' \subseteq DOMAIN cf /\ \A k \in DOMAIN cf' : cf'[k] = cf[k]
    BY <1>1
  <2>2. \A k \in DOMAIN cf' : SameButAge(cf'[k], cf[k])
    BY <2>1, BuffersSame DEF FragmentInv
  <2>. QED
    BY <1>1, <1>4, <1>5, <1>6, <2>1, <2>2, ShrinkKeeps DEF FragmentInv
<1>8. ChannelsOK' /\ IntactUnlessShared'
  BY <1>1, ChannelsUntouched DEF FragmentInv
<1>. QED
  BY <1>5, <1>7, <1>8 DEF FragmentInv

-----------------------------------------------------------------------------
(* Sending a message. *)

(* A message is added: those before it are what they were.                  *)
MessageAdded(m, r) ==
    /\ m = Len(sent) + 1 /\ sent' = Append(sent, r) /\ r \in MessageRecord
    /\ sent \in Seq(MessageRecord)

LEMMA OldMessages ==
    ASSUME NEW m, NEW r, MessageAdded(m, r)
    PROVE  /\ m \in Nat \ {0} /\ sent' \in Seq(MessageRecord)
           /\ Len(sent') = m /\ 1 .. m = (1 .. Len(sent)) \cup {m} /\ m \notin 1 .. Len(sent)
           /\ sent'[m] = r
           /\ \A j \in 1 .. Len(sent) :
                 /\ sent'[j] = sent[j] /\ Content(j)' = Content(j) /\ Ids(j)' = Ids(j)
                 /\ Fragmented(j)' <=> Fragmented(j)
                 /\ \A i : Piece(j, i)' = Piece(j, i)
                 /\ \A x : SetUpBy(x, j)' <=> SetUpBy(x, j)
<1>1. /\ Len(sent) \in Nat /\ m = Len(sent) + 1 /\ sent' \in Seq(MessageRecord) /\ Len(sent') = m
      /\ sent'[m] = r /\ \A j \in 1 .. Len(sent) : sent'[j] = sent[j]
  BY DEF MessageAdded
<1>2. 1 .. m = (1 .. Len(sent)) \cup {m} /\ m \notin 1 .. Len(sent) /\ m \in Nat \ {0}
  BY <1>1
<1>3. ASSUME NEW j \in 1 .. Len(sent)
      PROVE  /\ sent'[j] = sent[j] /\ Content(j)' = Content(j) /\ Ids(j)' = Ids(j)
             /\ Fragmented(j)' <=> Fragmented(j)
             /\ \A i : Piece(j, i)' = Piece(j, i)
             /\ \A x : SetUpBy(x, j)' <=> SetUpBy(x, j)
  <2>1. sent'[j] = sent[j]
    BY <1>1
  <2>. QED
    BY <2>1 DEF Content, Ids, Count, Fragmented, Piece, SetUpBy
<1>. QED
  BY <1>1, <1>2, <1>3

(* The commands of the message are its pieces.                              *)
LEMMA CommandsArePieces ==
    ASSUME NEW kind, NEW c, NEW n \in Nat \ {0}, NEW key, NEW m,
           sent'[m] = [kind |-> kind, channel |-> c, pieces |-> n, sequence |-> key],
           m \in 1 .. Len(sent')
    PROVE  LET cs == CommandsOf(m, kind, c, key, n)
           IN  /\ cs \in Seq(PieceSet') /\ Len(cs) = Count(m)' /\ Len(cs) \in 0 .. MaxFragments
               /\ ToSet(cs) = {Piece(m, id)' : id \in Ids(m)'}
               /\ \A x \in ToSet(cs) : x.data[1] = m
<1>. DEFINE cs == CommandsOf(m, kind, c, key, n)
            p == PiecesSent(n)
<1>1. p \in 0 .. MaxFragments /\ PiecesSent(1) = 1 /\ p \in Nat
  BY PiecesSentType, Limits
<1>2. /\ sent'[m].kind = kind /\ sent'[m].channel = c /\ sent'[m].pieces = n
      /\ sent'[m].sequence = key
  OBVIOUS
<1>3. Count(m)' = p /\ Ids(m)' = 0 .. p - 1 /\ (Fragmented(m)' <=> n > 1)
  BY <1>2 DEF Count, Ids, Fragmented
<1>4. /\ Len(cs) = p /\ DOMAIN cs = 1 .. p
      /\ \A i \in 1 .. p : cs[i] = Piece(m, i - 1)'
  <2>1. CASE n = 1
    <3>1. cs = <<WholeCommand(m, kind, c, key)>> /\ p = 1
      BY <1>1, <2>1 DEF CommandsOf
    <3>2. Piece(m, 0)' = WholeCommand(m, kind, c, key)
      BY <1>2, <1>3, <2>1 DEF Piece
    <3>3. Len(cs) = 1 /\ DOMAIN cs = 1 .. 1 /\ cs[1] = Piece(m, 0)'
      BY <3>1, <3>2
    <3>. HIDE DEF cs, p
    <3>4. \A i \in 1 .. p : i = 1 /\ i - 1 = 0
      BY <3>1
    <3>. QED
      BY <3>1, <3>3, <3>4
  <2>2. CASE n # 1
    <3>. HIDE DEF p
    <3>1. cs = [i \in 1 .. p |-> Fragment(m, kind, c, key, i - 1, p, i = n)]
      BY <2>2 DEF CommandsOf, p
    <3>. HIDE DEF cs
    <3>2. DOMAIN cs = 1 .. p /\ Len(cs) = p
      BY <1>1, <3>1
    <3>3. ASSUME NEW i \in 1 .. p PROVE cs[i] = Piece(m, i - 1)'
      <4>1. cs[i] = Fragment(m, kind, c, key, i - 1, p, i = n)
        BY <3>1
      <4>2. Piece(m, i - 1)' = Fragment(m, kind, c, key, i - 1, p, (i - 1) + 1 = n)
        BY <1>2, <1>3, <2>2 DEF Piece
      <4>3. (i - 1) + 1 = i
        BY <1>1
      <4>. QED
        BY <4>1, <4>2, <4>3
    <3>. QED
      BY <3>2, <3>3
  <2>. QED
    BY <2>1, <2>2
<1>. HIDE DEF cs, p
<1>5. \A i \in 1 .. p : i - 1 \in Ids(m)'
  BY <1>1, <1>3
<1>6. \A id \in Ids(m)' : id + 1 \in 1 .. p /\ (id + 1) - 1 = id
  BY <1>1, <1>3
<1>7. \A i \in 1 .. p : cs[i] \in PieceSet'
  BY <1>4, <1>5 DEF PieceSet
<1>8. cs \in Seq(PieceSet')
  <2>1. cs = [i \in 1 .. p |-> cs[i]]
    <3>1. CASE n = 1
      BY <1>1, <1>4, <3>1 DEF cs, CommandsOf, p
    <3>2. CASE n # 1
      BY <3>2 DEF cs, CommandsOf, p
    <3>. QED
      BY <3>1, <3>2
  <2>. QED
    BY <1>1, <1>7, <2>1
<1>9. ToSet(cs) = {Piece(m, id)' : id \in Ids(m)'}
  <2>1. ToSet(cs) = {cs[i] : i \in 1 .. p}
    BY <1>4 DEF ToSet
  <2>2. \A i \in 1 .. p : \E id \in Ids(m)' : cs[i] = Piece(m, id)'
    BY <1>4, <1>5
  <2>3. \A id \in Ids(m)' : \E i \in 1 .. p : cs[i] = Piece(m, id)'
    BY <1>4, <1>6
  <2>. QED
    BY <2>1, <2>2, <2>3
<1>10. \A id : Piece(m, id)'.data[1] = m
  BY DEF Piece, WholeCommand, Fragment
<1>. QED
  BY <1>1, <1>3, <1>4, <1>8, <1>9, <1>10 DEF cs

(* The queue after a message was sent, and where its pieces are.            *)
LEMMA SendNetwork ==
    ASSUME TransitOK, NEW kind \in Kinds, NEW c \in Channels, NEW n \in PieceCounts, Send(kind, c, n),
           NEW m, m = Len(sent) + 1, NEW key, key = KeyOf(kind), NEW r,
           r = [kind |-> kind, channel |-> c, pieces |-> n, sequence |-> key]
    PROVE  /\ MessageAdded(m, r) /\ TransitOK'
           /\ UNCHANGED <<wire, command_fragments, channel, delivered, acked>>
           /\ spoiled \subseteq spoiled' /\ shared \subseteq shared'
           /\ \A j \in 1 .. Len(sent) : Out(j)' = Out(j)
           /\ m \notin spoiled' => Out(m)' = Ids(m)' /\ Ids(m)' # {}
<1>. DEFINE cs == CommandsOf(m, kind, c, key, n)
<1>1. /\ Len(sent) < MaxMessages /\ sent' = Append(sent, r) /\ queue' = EnqueueAll(cs)
      /\ spoiled' = IF cs # << >> /\ Len(queue') = Len(queue) + Len(cs) THEN spoiled ELSE spoiled \cup {m}
      /\ shared' = IF n > 1 /\ InUse(key) THEN shared \cup {key} ELSE shared
      /\ next_unreliable_sequence' =
            IF kind = "unreliable" THEN WrappingAdd(next_unreliable_sequence, 1)
            ELSE next_unreliable_sequence
      /\ UNCHANGED <<wire, command_fragments, channel, delivered, acked, faults>>
  BY DEF Send, receiver
<1>2. key \in SequenceNumber /\ next_unreliable_sequence' \in SequenceNumber
  <2>1. next_unreliable_sequence \in SequenceNumber /\ 0 \in SequenceNumber /\ 1 \in 0 .. Modulus
    BY Limits DEF TransitOK
  <2>. QED
    BY <1>1, <2>1, WrappingAddType DEF KeyOf
<1>3. MessageAdded(m, r)
  BY <1>1, <1>2 DEF MessageAdded, MessageRecord, TransitOK
<1>4. /\ m \in Nat \ {0} /\ sent' \in Seq(MessageRecord)
      /\ Len(sent') = m /\ 1 .. m = (1 .. Len(sent)) \cup {m} /\ m \notin 1 .. Len(sent)
      /\ sent'[m] = r
      /\ \A j \in 1 .. Len(sent) : Ids(j)' = Ids(j) /\ \A i : Piece(j, i)' = Piece(j, i)
  BY <1>3, OldMessages
<1>5. /\ cs \in Seq(PieceSet') /\ Len(cs) = Count(m)' /\ Len(cs) \in 0 .. MaxFragments
      /\ ToSet(cs) = {Piece(m, id)' : id \in Ids(m)'}
      /\ \A x \in ToSet(cs) : x.data[1] = m
  <2>1. m \in 1 .. Len(sent') /\ n \in Nat \ {0}
    BY <1>4, Limits
  <2>. QED
    BY <1>4, <2>1, CommandsArePieces
<1>. HIDE DEF cs
<1>6. PieceSet \subseteq PieceSet'
  <2>1. PieceSet' = UNION {{Piece(j, id)' : id \in Ids(j)'} : j \in 1 .. m}
    BY <1>4 DEF PieceSet
  <2>. QED
    BY <1>4, <2>1 DEF PieceSet
<1>7. queue \in Seq(PieceSet) /\ queue \in Seq(PieceSet')
  BY <1>6 DEF TransitOK
<1>8. /\ queue' \in Seq(PieceSet')
      /\ ToSet(queue) \subseteq ToSet(queue')
      /\ ToSet(queue') \subseteq ToSet(queue) \cup ToSet(cs)
      /\ Len(queue') \in Nat /\ Len(queue') <= Len(queue) + Len(cs)
      /\ Len(queue') = Len(queue) + Len(cs) => ToSet(cs) \subseteq ToSet(queue')
  BY <1>1, <1>5, <1>7, EnqueueAllFacts
<1>9. InTransit \subseteq PieceSet
  <2>1. ToSet(queue) \subseteq PieceSet
    BY <1>7 DEF ToSet
  <2>. QED
    BY <2>1 DEF InTransit, TransitOK
<1>10. \A x \in PieceSet : x.data[1] \in 1 .. Len(sent)
  BY PieceOfSet, PieceFields DEF TransitOK
<1>11. ToSet(cs) \cap PieceSet = {}
  BY <1>4, <1>5, <1>10
<1>12. TransitOK'
  <2>1. wire' \cap ToSet(queue') = {}
    BY <1>1, <1>8, <1>11 DEF TransitOK
  <2>2. Len(queue') <= Len(sent') * MaxFragments
    <3>. DEFINE l == Len(sent)
                q == Len(queue)
                d == Len(cs)
    <3>1. /\ l \in Nat /\ q \in Nat /\ q <= l * MaxFragments /\ d \in Nat /\ d <= MaxFragments
          /\ Len(queue') \in Nat /\ Len(queue') <= q + d /\ Len(sent') = l + 1
      BY <1>4, <1>5, <1>8, Limits DEF TransitOK
    <3>. HIDE DEF l, q, d
    <3>2. (l + 1) * MaxFragments = l * MaxFragments + MaxFragments /\ l * MaxFragments \in Nat
      BY <3>1, Limits
    <3>. QED
      BY <3>1, <3>2, Limits
  <2>3. spoiled' \subseteq 1 .. Len(sent') /\ shared' \subseteq SequenceNumber
    BY <1>1, <1>2, <1>4 DEF TransitOK
  <2>4. Len(sent') <= MaxMessages
    BY <1>1, <1>4, Limits DEF TransitOK
  <2>. QED
    BY <1>1, <1>2, <1>4, <1>6, <1>8, <2>1, <2>2, <2>3, <2>4 DEF TransitOK
<1>13. /\ InTransit \subseteq InTransit' /\ InTransit' \subseteq InTransit \cup ToSet(cs)
  BY <1>1, <1>8 DEF InTransit
<1>14. ASSUME NEW j \in 1 .. Len(sent) PROVE Out(j)' = Out(j)
  <2>1. Out(j)' = {i \in Ids(j) : Piece(j, i) \in InTransit'}
    BY <1>4 DEF Out
  <2>2. \A i \in Ids(j) : Piece(j, i) \notin ToSet(cs)
    BY <1>11, PieceInSet
  <2>. QED
    BY <1>13, <2>1, <2>2 DEF Out
<1>15. ASSUME m \notin spoiled' PROVE Out(m)' = Ids(m)' /\ Ids(m)' # {}
  <2>1. cs # << >> /\ Len(queue') = Len(queue) + Len(cs)
    BY <1>1, <1>15
  <2>2. ToSet(cs) \subseteq InTransit'
    BY <1>8, <2>1 DEF InTransit
  <2>3. Out(m)' = Ids(m)'
    BY <1>5, <2>2 DEF Out
  <2>4. ToSet(cs) # {}
    <3>1. Len(cs) \in Nat /\ Len(cs) # 0
      BY <1>5, <2>1
    <3>2. 1 \in DOMAIN cs
      BY <1>5, <3>1
    <3>. QED
      BY <3>2 DEF ToSet
  <2>. QED
    BY <1>5, <2>3, <2>4
<1>. QED
  BY <1>1, <1>3, <1>12, <1>14, <1>15

LEMMA SendKeepsInv ==
    ASSUME FragmentInv, NEW kind \in Kinds, NEW c \in Channels, NEW n \in PieceCounts, Send(kind, c, n)
    PROVE  FragmentInv'
<1>. DEFINE cf == command_fragments
<1>. PICK m : m = Len(sent) + 1
  OBVIOUS
<1>. PICK key : key = KeyOf(kind)
  OBVIOUS
<1>. PICK r : r = [kind |-> kind, channel |-> c, pieces |-> n, sequence |-> key]
  OBVIOUS
<1>1. /\ MessageAdded(m, r) /\ TransitOK'
      /\ UNCHANGED <<wire, command_fragments, channel, delivered, acked>>
      /\ spoiled \subseteq spoiled' /\ shared \subseteq shared'
      /\ \A j \in 1 .. Len(sent) : Out(j)' = Out(j)
      /\ m \notin spoiled' => Out(m)' = Ids(m)' /\ Ids(m)' # {}
  BY SendNetwork DEF FragmentInv
<1>2. n > 1 /\ InUse(key) => key \in shared'
  BY DEF Send
<1>3. r.pieces = n /\ r.sequence = key
  OBVIOUS
<1>4. /\ Len(sent') = m /\ 1 .. m = (1 .. Len(sent)) \cup {m} /\ m \notin 1 .. Len(sent)
      /\ sent'[m] = r
      /\ \A j \in 1 .. Len(sent) :
            /\ sent'[j] = sent[j] /\ Content(j)' = Content(j) /\ Ids(j)' = Ids(j)
            /\ Fragmented(j)' <=> Fragmented(j)
            /\ \A x : SetUpBy(x, j)' <=> SetUpBy(x, j)
  BY <1>1, OldMessages
<1>5. Fragmented(m)' <=> n > 1
  BY <1>3, <1>4 DEF Fragmented
<1>6. \A j \in 1 .. Len(sent) : In(j)' = In(j)
  BY <1>1, <1>4 DEF In
<1>7. \A k \in DOMAIN cf : \A i \in DOMAIN cf[k].fragments :
         \E j \in 1 .. Len(sent) : Fragmented(j) /\ sent[j].sequence = k /\ i \in Ids(j)
                                   /\ cf[k].fragments[i] = <<j, i>>
  BY DEF FragmentInv, BuffersOK, BufferRecord
<1>8. In(m)' = {}
  <2>. SUFFICES ASSUME NEW i \in In(m)' PROVE FALSE
    OBVIOUS
  <2>1. key \in DOMAIN cf /\ i \in DOMAIN cf[key].fragments /\ cf[key].fragments[i] = <<m, i>>
    BY <1>1, <1>3, <1>4 DEF In
  <2>2. PICK j \in 1 .. Len(sent) : cf[key].fragments[i] = <<j, i>>
    BY <1>7, <2>1
  <2>3. j = m
    BY <2>1, <2>2
  <2>. QED
    BY <1>4, <2>3
<1>9. BuffersOK'
  <2>1. ASSUME NEW k \in DOMAIN cf PROVE BufferRecord(k, cf[k])'
    <3>1. BufferRecord(k, cf[k])
      BY DEF FragmentInv, BuffersOK
    <3>2. \A i \in DOMAIN cf[k].fragments : \E j \in 1 .. Len(sent') :
             /\ Fragmented(j)' /\ sent'[j].sequence = k /\ i \in Ids(j)'
             /\ cf[k].fragments[i] = <<j, i>>
      BY <1>4, <1>7
    <3>. QED
      BY <1>1, <3>1, <3>2 DEF BufferRecord
  <2>. QED
    BY <1>1, <2>1 DEF BuffersOK, FragmentInv
<1>10. ASSUME NEW k
       PROVE  Using(k)' \subseteq Using(k) \cup IF k = key /\ n > 1 THEN {m} ELSE {}
  <2>. SUFFICES ASSUME NEW j \in Using(k)', ~(j = m /\ k = key /\ n > 1) PROVE j \in Using(k)
    OBVIOUS
  <2>1. /\ j \in 1 .. m /\ Fragmented(j)' /\ sent'[j].sequence = k /\ (Out(j)' # {} \/ In(j)' # {})
    BY <1>4 DEF Using
  <2>2. j # m
    BY <1>3, <1>4, <1>5, <2>1
  <2>. QED
    BY <1>1, <1>4, <1>6, <2>1, <2>2 DEF Using
<1>11. ASSUME ~InUse(key) PROVE Using(key) = {} /\ key \notin DOMAIN cf
  <2>1. key \notin DOMAIN cf
    BY <1>11 DEF InUse
  <2>. SUFFICES ASSUME NEW j \in Using(key) PROVE FALSE
    BY <2>1
  <2>2. j \in 1 .. Len(sent) /\ Fragmented(j) /\ sent[j].sequence = key /\ (Out(j) # {} \/ In(j) # {})
    BY DEF Using
  <2>3. In(j) = {}
    BY <2>1, <2>2 DEF In
  <2>4. PICK i \in Ids(j) : Piece(j, i) \in wire \cup ToSet(queue)
    BY <2>2, <2>3 DEF Out, InTransit
  <2>5. Piece(j, i).type = "Fragment" /\ Piece(j, i).sequence = key
    BY <2>2, PieceFields DEF FragmentInv, TransitOK
  <2>. QED
    BY <1>11, <2>4, <2>5 DEF InUse
<1>12. OneOwner'
  <2>1. ASSUME NEW k \in SequenceNumber \ shared'
        PROVE  /\ \A p, q \in Using(k)' : p = q
               /\ k \in DOMAIN cf => \A p \in Using(k)' : SetUpBy(cf[k], p)'
    <3>1. CASE k = key /\ n > 1
      BY <1>2, <1>10, <1>11, <2>1, <3>1
    <3>2. CASE ~(k = key /\ n > 1)
      <4>1. Using(k)' \subseteq Using(k) /\ k \in SequenceNumber \ shared
        BY <1>1, <1>10, <3>2
      <4>2. /\ \A p, q \in Using(k) : p = q
            /\ k \in DOMAIN cf => \A p \in Using(k) : SetUpBy(cf[k], p)
        BY <4>1 DEF FragmentInv, OneOwner
      <4>3. ASSUME k \in DOMAIN cf, NEW p \in Using(k)' PROVE SetUpBy(cf[k], p)'
        <5>1. p \in 1 .. Len(sent) /\ SetUpBy(cf[k], p)
          BY <4>1, <4>2, <4>3 DEF Using
        <5>. QED
          BY <1>1, <1>4, <5>1 DEF SetUpBy
      <4>. QED
        BY <4>1, <4>2, <4>3
    <3>. QED
      BY <3>1, <3>2
  <2>. QED
    BY <1>1, <2>1 DEF OneOwner
<1>13. Tracked'
  <2>1. ASSUME NEW j \in 1 .. m, Fragmented(j)', j \notin spoiled', sent'[j].sequence \notin shared'
        PROVE  \/ Out(j)' = {} /\ In(j)' = {}
               \/ Out(j)' # {} /\ Out(j)' \cup In(j)' = Ids(j)' /\ Out(j)' \cap In(j)' = {}
    <3>1. CASE j = m
      BY <1>1, <1>8, <2>1, <3>1
    <3>2. CASE j # m
      <4>1. /\ j \in 1 .. Len(sent) /\ Fragmented(j) /\ j \notin spoiled /\ sent[j].sequence \notin shared
            /\ Out(j)' = Out(j) /\ In(j)' = In(j) /\ Ids(j)' = Ids(j)
        BY <1>1, <1>4, <1>6, <2>1, <3>2
      <4>. QED
        BY <4>1 DEF FragmentInv, Tracked
    <3>. QED
      BY <3>1, <3>2
  <2>. QED
    BY <1>4, <2>1 DEF Tracked
<1>14. ASSUME NEW p, NEW kinds, IntactIn(p, kinds) PROVE IntactIn(p, kinds)'
  <2>1. CASE IsMessage(p, kinds)
    <3>1. PICK j \in 1 .. Len(sent) :
            p.data = Content(j) /\ p.channel = sent[j].channel /\ sent[j].kind \in kinds
      BY <2>1 DEF IsMessage
    <3>2. /\ j \in 1 .. Len(sent') /\ p.data = Content(j)' /\ p.channel = sent'[j].channel
          /\ sent'[j].kind \in kinds
      BY <1>4, <3>1
    <3>. QED
      BY <3>2 DEF IntactIn, IsMessage
  <2>2. CASE p.sequence \in shared
    BY <1>1, <2>2 DEF IntactIn
  <2>. QED
    BY <1>14, <2>1, <2>2 DEF IntactIn
<1>15. ChannelsOK'
  BY <1>1, <1>14 DEF FragmentInv, ChannelsOK
<1>16. IntactUnlessShared'
  <2>1. /\ \A p \in delivered : IntactIn(p, Kinds)
        /\ \A p \in acked : IntactIn(p, Kinds \ {"unreliable"})
    BY DEF FragmentInv, IntactUnlessShared, IntactIn
  <2>2. /\ \A p \in delivered' : IntactIn(p, Kinds)'
        /\ \A p \in acked' : IntactIn(p, Kinds \ {"unreliable"})'
    BY <1>1, <1>14, <2>1
  <2>. QED
    BY <2>2 DEF IntactUnlessShared, IntactIn
<1>. QED
  BY <1>1, <1>9, <1>12, <1>13, <1>15, <1>16 DEF FragmentInv

-----------------------------------------------------------------------------
(* The theorems. *)

LEMMA NextKeepsInv ==
    ASSUME FragmentInv, [Next]_vars
    PROVE  FragmentInv'
<1>1. ASSUME NEW kind \in Kinds, NEW c \in Channels, NEW n \in PieceCounts, Send(kind, c, n)
      PROVE  FragmentInv'
  BY <1>1, SendKeepsInv
<1>2. CASE Flush
  BY <1>2, FlushKeepsInv
<1>3. ASSUME NEW c \in wire, Receive(c) PROVE FragmentInv'
  BY <1>3, ReceiveKeepsInv
<1>4. ASSUME NEW c \in wire, Lose(c) PROVE FragmentInv'
  BY <1>4, LoseKeepsInv
<1>5. CASE Tick
  BY <1>5, TickKeepsInv
<1>6. CASE CleanupStaleFragments
  BY <1>6, CleanupKeepsInv
<1>7. CASE UNCHANGED vars
  <2>1. UNCHANGED <<next_unreliable_sequence, queue, wire, command_fragments, channel, delivered, acked,
                    sent, spoiled, shared, faults>>
    BY <1>7 DEF vars, receiver, history
  <2>2. TransitOK /\ spoiled' \subseteq 1 .. Len(sent)
    BY <2>1 DEF FragmentInv, TransitOK
  <2>3. TransitOK' /\ \A n : Out(n)' = Out(n)
    BY <2>1, <2>2, NetworkUntouched
  <2>4. BuffersOK' /\ OneOwner' /\ Tracked'
    BY <2>1, <2>3, BuffersSame, ShrinkKeeps DEF FragmentInv
  <2>5. ChannelsOK' /\ IntactUnlessShared'
    BY <2>1, ChannelsUntouched DEF FragmentInv
  <2>. QED
    BY <2>3, <2>4, <2>5 DEF FragmentInv
<1>. QED
  BY <1>1, <1>2, <1>3, <1>4, <1>5, <1>6, <1>7 DEF Next

LEMMA FragmentInvHolds == Spec => []FragmentInv
<1>1. Init => FragmentInv
  BY InitFragmentInv
<1>2. FragmentInv /\ [Next]_vars => FragmentInv'
  BY NextKeepsInv
<1>. QED
  BY <1>1, <1>2, PTL DEF Spec

(* The two fragment arms, fragment_buffer.rs and the sender's queue: what   *)
(* is delivered is a message as it was cut, in order and on its channel,    *)
(* and what is acknowledged is a reliable one that arrived in full, unless  *)
(* the sequence number was used by two messages at the same time; for every *)
(* width of the number, every limit, any messages and any faults.           *)
THEOREM ReassemblyIntact == Spec => []IntactUnlessShared
<1>1. FragmentInv => IntactUnlessShared
  BY DEF FragmentInv
<1>. QED
  BY <1>1, FragmentInvHolds, PTL

(* command_fragments: the buffers are well formed, the command queue is     *)
(* bounded, and a buffer that stays behind under a key of its own belongs   *)
(* to a message that still has a fragment under way or lost one.            *)
THEOREM BuffersHaveCause == Spec => []BufferInv
<1>1. FragmentInv => BufferInv
  BY InvImpliesTypes, InvImpliesCause DEF BufferInv
<1>. QED
  BY <1>1, FragmentInvHolds, PTL

=============================================================================
