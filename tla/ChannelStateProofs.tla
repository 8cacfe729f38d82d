------------------------- MODULE ChannelStateProofs -------------------------
(***************************************************************************)
(* Delivery of ChannelState, ordered and sequenced, for every width of the *)
(* number, every window it allows and every number of packets. Ordered:    *)
(* two cases are proved together: a network without duplicates, where the  *)
(* sequence number may wrap any number of times, and a network with        *)
(* duplicates, where the stream ends before it wraps (WrapSafe).           *)
(***************************************************************************)
EXTENDS ChannelState, TLAPS

-----------------------------------------------------------------------------
(* Arithmetic of the circle. *)

(* wrapping_add stays on the circle for every offset up to a full turn.     *)
LEMMA WrappingAddType ==
    ASSUME NEW a \in SequenceNumber, NEW b \in 0 .. Modulus
    PROVE  WrappingAdd(a, b) \in SequenceNumber
BY HalfRangeAssumption DEF WrappingAdd, SequenceNumber, Modulus

(* Two offsets shorter than a turn that reach the same number are equal:    *)
(* wrapping_add separates any Modulus consecutive packets.                  *)
LEMMA WrappingAddInjective ==
    ASSUME NEW a \in SequenceNumber, NEW b \in 0 .. Modulus - 1,
           NEW c \in 0 .. Modulus - 1, WrappingAdd(a, b) = WrappingAdd(a, c)
    PROVE  b = c
BY HalfRangeAssumption DEF WrappingAdd, SequenceNumber, Modulus

(* Advancing by b and then by c - b is advancing by c.                      *)
LEMMA WrappingAddSplit ==
    ASSUME NEW a \in SequenceNumber, NEW c \in 0 .. Modulus, NEW b \in 0 .. c
    PROVE  WrappingAdd(WrappingAdd(a, b), c - b) = WrappingAdd(a, c)
BY HalfRangeAssumption DEF WrappingAdd, SequenceNumber, Modulus

(* One more step round the circle.                                          *)
LEMMA WrappingAddSucc ==
    ASSUME NEW a \in SequenceNumber, NEW b \in 0 .. Modulus - 1
    PROVE  WrappingAdd(WrappingAdd(a, b), 1) = WrappingAdd(a, b + 1)
BY HalfRangeAssumption DEF WrappingAdd, SequenceNumber, Modulus

(* What the application has after the ready packets are appended.           *)
LEMMA Appending ==
    ASSUME NEW s \in Seq(Data), NEW t \in Seq(Data)
    PROVE  /\ s \o t \in Seq(Data)
           /\ Len(s \o t) = Len(s) + Len(t)
           /\ \A j \in 1 .. Len(s) : (s \o t)[j] = s[j]
           /\ \A j \in Len(s) + 1 .. Len(s) + Len(t) : (s \o t)[j] = t[j - Len(s)]
OBVIOUS

(* A run of k consecutive payloads starting at n.                           *)
LEMMA RunOfPayloads ==
    ASSUME NEW n \in Nat, NEW k \in Nat
    PROVE  LET R == [i \in 1 .. k |-> n + i - 1]
           IN  R \in Seq(Data) /\ Len(R) = k /\ \A i \in 1 .. k : R[i] = n + i - 1
<1>1. \A i \in 1 .. k : n + i - 1 \in Data
  BY DEF Data
<1>. QED
  BY <1>1

(* Sequences with the same elements are equal.                              *)
LEMMA SameSequence ==
    ASSUME NEW s \in Seq(Data), NEW t \in Seq(Data), Len(s) = Len(t),
           \A i \in 1 .. Len(s) : s[i] = t[i]
    PROVE  s = t
OBVIOUS

(* wrapping_sub undoes wrapping_add.                                        *)
LEMMA WrappingSubAdd ==
    ASSUME NEW a \in SequenceNumber, NEW b \in 0 .. Modulus - 1
    PROVE  WrappingSub(WrappingAdd(a, b), a) = b
BY HalfRangeAssumption DEF WrappingAdd, WrappingSub, SequenceNumber, Modulus

-----------------------------------------------------------------------------
(* The inductive invariant of the ordered stream. *)

OrderedTypeOK ==
    /\ expected_sequence \in SequenceNumber
    /\ DOMAIN buffered_packets \subseteq SequenceNumber
    /\ buffered_packets = [s \in DOMAIN buffered_packets |-> buffered_packets[s]]
    /\ \A s \in DOMAIN buffered_packets : buffered_packets[s] \in Data
    /\ ordered_sent \in 0 .. MaxOrdered
    /\ ordered_next \in SequenceNumber
    /\ ordered_wire \in SUBSET PacketRecord
    /\ delivered \in Seq(Data)
    /\ duplicates \in BOOLEAN

(* A stream that meets duplicates ends before its numbers wrap. *)
WrapSafe == duplicates => ordered_sent < Modulus

(* The application is behind the remote by at most the window. *)
Behind ==
    /\ Len(delivered) <= ordered_sent
    /\ ordered_sent - Len(delivered) <= OrderedWindow

(* Without duplicates, the number of every packet that is still somewhere   *)
(* is its distance from the next packet to deliver, going round the circle; *)
(* no packet is both in flight and buffered.                                *)
NumberedByDistance ==
    /\ ordered_next = WrappingAdd(expected_sequence, ordered_sent - Len(delivered))
    /\ \A p \in ordered_wire :
          /\ p.data \in Len(delivered) .. ordered_sent - 1
          /\ p.sequence = WrappingAdd(expected_sequence, p.data - Len(delivered))
    /\ \A s \in DOMAIN buffered_packets :
          /\ buffered_packets[s] \in Len(delivered) + 1 .. ordered_sent - 1
          /\ s = WrappingAdd(expected_sequence, buffered_packets[s] - Len(delivered))
    /\ \A p \in ordered_wire, s \in DOMAIN buffered_packets :
          p.data # buffered_packets[s]

(* Before the first wrap, sequence numbers are absolute numbers. *)
NumberedAbsolutely ==
    /\ ordered_next = ordered_sent
    /\ expected_sequence = Len(delivered)
    /\ \A p \in ordered_wire : p.data < ordered_sent /\ p.sequence = p.data
    /\ \A s \in DOMAIN buffered_packets :
          s < ordered_sent /\ buffered_packets[s] = s
    /\ expected_sequence \notin DOMAIN buffered_packets

OrderedInv ==
    /\ OrderedTypeOK
    /\ WrapSafe
    /\ Behind
    /\ OrderedDelivery
    /\ IF duplicates THEN NumberedAbsolutely ELSE NumberedByDistance

-----------------------------------------------------------------------------
(* A fresh ChannelState, with nothing sent, satisfies the invariant.        *)
LEMMA OrderedInit ==
    ASSUME Init
    PROVE  OrderedInv
<1>1. OrderedTypeOK
  BY HalfRangeAssumption, ChannelAssumption
  DEF Init, OrderedTypeOK, SequenceNumber, Modulus, Data, PacketRecord
<1>2. WrapSafe /\ Behind /\ OrderedDelivery
  BY HalfRangeAssumption, ChannelAssumption
  DEF Init, WrapSafe, Behind, OrderedDelivery, Modulus
<1>3. NumberedAbsolutely /\ NumberedByDistance
  <2>1. /\ expected_sequence = 0 /\ ordered_sent = 0 /\ ordered_next = 0
        /\ ordered_wire = {} /\ DOMAIN buffered_packets = {} /\ Len(delivered) = 0
    BY DEF Init
  <2>2. WrappingAdd(0, 0 - 0) = 0
    BY HalfRangeAssumption DEF WrappingAdd, Modulus
  <2>. QED
    BY <2>1, <2>2 DEF NumberedAbsolutely, NumberedByDistance
<1>. QED
  BY <1>1, <1>2, <1>3 DEF OrderedInv

(* A packet the remote sends is one place further round the circle. *)
LEMMA OrderedSend ==
    ASSUME OrderedInv, SendOrdered, MaxRepeated < Modulus
    PROVE  OrderedInv'
<1>. DEFINE n == Len(delivered)
            q == [sequence |-> ordered_next, data |-> ordered_sent]
<1>. USE HalfRangeAssumption, ChannelAssumption
<1>1. /\ OrderedTypeOK /\ WrapSafe /\ Behind /\ OrderedDelivery
      /\ ordered_sent < MaxOrdered /\ ordered_sent - n < OrderedWindow
      /\ duplicates => ordered_sent < MaxRepeated
      /\ ordered_wire' = ordered_wire \cup {q}
      /\ ordered_sent' = ordered_sent + 1
      /\ ordered_next' = WrappingAdd(ordered_next, 1)
      /\ UNCHANGED <<expected_sequence, buffered_packets, delivered, duplicates>>
  BY DEF OrderedInv, SendOrdered, channel
<1>2. n \in Nat /\ ordered_sent \in Nat /\ MaxOrdered \in Nat /\ OrderedWindow \in 1 .. Modulus
  BY <1>1 DEF OrderedTypeOK
<1>3. OrderedTypeOK'
  <2>1. ordered_next' \in SequenceNumber
    BY <1>1, WrappingAddType DEF OrderedTypeOK, Modulus
  <2>2. q \in PacketRecord
    BY <1>1, <1>2 DEF OrderedTypeOK, PacketRecord, Data
  <2>3. ordered_sent' \in 0 .. MaxOrdered
    BY <1>1, <1>2
  <2>. QED
    BY <1>1, <2>1, <2>2, <2>3 DEF OrderedTypeOK
<1>4. WrapSafe' /\ Behind' /\ OrderedDelivery'
  BY <1>1, <1>2 DEF WrapSafe, Behind, OrderedDelivery, Modulus
<1>5. CASE duplicates
  <2>1. NumberedAbsolutely
    BY <1>5 DEF OrderedInv
  <2>2. ordered_next' = ordered_sent'
    BY <1>1, <1>2, <1>5, <2>1 DEF NumberedAbsolutely, WrapSafe, WrappingAdd, Modulus
  <2>3. NumberedAbsolutely'
    <3>1. /\ \A p \in ordered_wire : p.data \in Nat
          /\ \A s \in DOMAIN buffered_packets : s \in Nat
      <4>1. ordered_wire \subseteq PacketRecord /\ DOMAIN buffered_packets \subseteq SequenceNumber
        BY <1>1 DEF OrderedTypeOK
      <4>2. SequenceNumber \subseteq Nat /\ Data \subseteq Nat
        BY DEF SequenceNumber, Data, Modulus
      <4>. QED
        BY <4>1, <4>2 DEF PacketRecord
    <3>2. \A p \in ordered_wire' : p.data < ordered_sent' /\ p.sequence = p.data
      BY <1>1, <1>2, <2>1, <3>1 DEF NumberedAbsolutely
    <3>3. \A s \in DOMAIN buffered_packets' : s < ordered_sent' /\ buffered_packets'[s] = s
      BY <1>1, <1>2, <2>1, <3>1 DEF NumberedAbsolutely
    <3>. QED
      BY <1>1, <2>1, <2>2, <3>2, <3>3 DEF NumberedAbsolutely
  <2>. QED
    BY <1>1, <1>3, <1>4, <1>5, <2>3 DEF OrderedInv
<1>6. CASE ~duplicates
  <2>1. NumberedByDistance
    BY <1>6 DEF OrderedInv
  <2>2. ordered_next' = WrappingAdd(expected_sequence, ordered_sent + 1 - n)
    <3>1. ordered_sent - n \in 0 .. Modulus - 1 /\ expected_sequence \in SequenceNumber
      BY <1>1, <1>2 DEF Behind, OrderedTypeOK, Modulus
    <3>2. (ordered_sent - n) + 1 = ordered_sent + 1 - n
      BY <1>2
    <3>. QED
      BY <1>1, <2>1, <3>1, <3>2, WrappingAddSucc DEF NumberedByDistance
  <2>3. \A s \in DOMAIN buffered_packets : buffered_packets[s] < ordered_sent
    BY <1>2, <2>1 DEF NumberedByDistance
  <2>4. /\ q.data \in n .. ordered_sent
        /\ q.sequence = WrappingAdd(expected_sequence, q.data - n)
    BY <1>1, <1>2, <2>1 DEF NumberedByDistance, Behind
  <2>5. NumberedByDistance'
    BY <1>1, <1>2, <2>1, <2>2, <2>3, <2>4 DEF NumberedByDistance
  <2>. QED
    BY <1>1, <1>3, <1>4, <1>6, <2>5 DEF OrderedInv
<1>. QED
  BY <1>5, <1>6

(* process_ordered: what the loop removes is exactly the next k payloads.   *)
LEMMA OrderedProcess ==
    ASSUME OrderedInv, NEW p \in ordered_wire, ProcessOrdered(p)
    PROVE  OrderedInv'
<1>. DEFINE n == Len(delivered)
            e == expected_sequence
            B == BufferInsert(buffered_packets, p)
<1>. USE HalfRangeAssumption, ChannelAssumption
<1>1. OrderedTypeOK /\ WrapSafe /\ Behind /\ OrderedDelivery
  BY DEF OrderedInv
<1>2. /\ n \in Nat /\ ordered_sent \in Nat /\ e \in SequenceNumber
      /\ n <= ordered_sent /\ ordered_sent - n <= Modulus /\ Modulus \in Nat
  BY <1>1 DEF OrderedTypeOK, Behind, Modulus
<1>3. p.sequence \in SequenceNumber /\ p.data \in Data
  BY <1>1 DEF OrderedTypeOK, PacketRecord
<1>4. /\ DOMAIN B = DOMAIN buffered_packets \cup {p.sequence}
      /\ \A s \in DOMAIN B : B[s] = IF s = p.sequence THEN p.data ELSE buffered_packets[s]
      /\ \A s \in DOMAIN B : s \in SequenceNumber /\ B[s] \in Data
  BY <1>1, <1>3 DEF BufferInsert, OrderedTypeOK
<1>5. PICK k \in 0 .. Modulus :
         /\ DrainsExactly(B, e, k)
         /\ delivered' = delivered \o ReadyPackets(B, e, k)
         /\ buffered_packets' = Drained(B, e, k)
         /\ expected_sequence' = WrappingAdd(e, k)
  BY DEF ProcessOrdered
<1>6. /\ ordered_wire' = ordered_wire \ {p} \/ (duplicates /\ ordered_wire' = ordered_wire)
      /\ UNCHANGED <<ordered_sent, ordered_next, duplicates>>
  BY DEF ProcessOrdered
<1>7. \A i \in 0 .. k - 1 : WrappingAdd(e, i) \in DOMAIN B
  BY <1>5 DEF DrainsExactly
<1>8. k < Modulus => WrappingAdd(e, k) \notin DOMAIN B
  BY <1>5 DEF DrainsExactly
<1>9. (\A i \in 0 .. k - 1 : B[WrappingAdd(e, i)] = n + i) /\ n + k <= ordered_sent
  <2>1. CASE duplicates
    <3>1. /\ e = n /\ ordered_sent < Modulus
          /\ \A s \in DOMAIN B : s < ordered_sent /\ B[s] = s
      BY <1>1, <1>2, <1>4, <2>1 DEF OrderedInv, NumberedAbsolutely, WrapSafe, OrderedTypeOK
    <3>2. n + k <= ordered_sent
      <4>. SUFFICES ASSUME n + k > ordered_sent PROVE FALSE
        BY <1>2
      <4>1. ordered_sent - n \in 0 .. k - 1
        BY <1>2
      <4>2. WrappingAdd(e, ordered_sent - n) = ordered_sent
        BY <1>2, <3>1 DEF WrappingAdd
      <4>. QED
        BY <1>2, <1>7, <3>1, <4>1, <4>2
    <3>3. \A i \in 0 .. k - 1 : WrappingAdd(e, i) = n + i
      BY <1>2, <3>1, <3>2 DEF WrappingAdd
    <3>. QED
      BY <1>7, <3>1, <3>2, <3>3
  <2>2. CASE ~duplicates
    <3>1. \A s \in DOMAIN B : /\ B[s] \in n .. ordered_sent - 1
                              /\ s = WrappingAdd(e, B[s] - n)
      BY <1>2, <1>4, <2>2 DEF OrderedInv, NumberedByDistance
    <3>2. ASSUME NEW i \in 0 .. k - 1
          PROVE  B[WrappingAdd(e, i)] = n + i
      <4>. DEFINE d == B[WrappingAdd(e, i)] - n
      <4>1. d \in 0 .. Modulus - 1 /\ WrappingAdd(e, i) = WrappingAdd(e, d)
        BY <1>2, <1>7, <3>1
      <4>2. i = d
        BY <1>2, <4>1, WrappingAddInjective
      <4>. QED
        BY <1>2, <1>7, <3>1, <4>2
    <3>3. n + k <= ordered_sent
      <4>1. CASE k = 0
        BY <1>2, <4>1
      <4>2. CASE k > 0
        BY <1>2, <1>7, <3>1, <3>2, <4>2
      <4>. QED
        BY <4>1, <4>2
    <3>. QED
      BY <3>2, <3>3
  <2>. QED
    BY <2>1, <2>2
<1>10. /\ Len(delivered') = n + k
       /\ delivered' \in Seq(Data)
       /\ OrderedDelivery'
  <2>. DEFINE R == ReadyPackets(B, e, k)
  <2>1. R \in Seq(Data) /\ Len(R) = k /\ \A i \in 1 .. k : R[i] = n + i - 1
    <3>1. \A i \in 1 .. k : B[WrappingAdd(e, i - 1)] = n + i - 1 /\ n + i - 1 \in Data
      BY <1>2, <1>9 DEF Data
    <3>2. R = [i \in 1 .. k |-> B[WrappingAdd(e, i - 1)]]
      BY DEF ReadyPackets
    <3>. QED
      BY <1>2, <3>1, <3>2
  <2>a. delivered' = delivered \o R /\ delivered \in Seq(Data)
    BY <1>1, <1>5 DEF OrderedTypeOK
  <2>. HIDE DEF R
  <2>2. Len(delivered') = n + k /\ delivered' \in Seq(Data)
    BY <2>a, <2>1, Appending
  <2>3. ASSUME NEW j \in 1 .. n + k
        PROVE  delivered'[j] = j - 1
    <3>1. CASE j <= n
      <4>1. delivered'[j] = delivered[j] /\ j \in 1 .. n
        BY <1>2, <2>a, <2>1, <3>1, Appending
      <4>. QED
        BY <1>1, <4>1 DEF OrderedDelivery
    <3>2. CASE j > n
      <4>1. delivered'[j] = R[j - n] /\ j - n \in 1 .. k
        <5>1. j \in n + 1 .. n + k /\ j - n \in 1 .. k
          BY <1>2, <3>2
        <5>. QED
          BY <2>a, <2>1, <5>1, Appending
      <4>. QED
        BY <1>2, <2>1, <4>1
    <3>. QED
      BY <1>2, <3>1, <3>2
  <2>. QED
    BY <2>2, <2>3 DEF OrderedDelivery
<1>11. /\ DOMAIN buffered_packets' = DOMAIN B \ {WrappingAdd(e, i) : i \in 0 .. k - 1}
       /\ \A s \in DOMAIN buffered_packets' : buffered_packets'[s] = B[s]
       /\ buffered_packets' = [s \in DOMAIN buffered_packets' |-> buffered_packets'[s]]
  BY <1>5 DEF Drained
<1>12. OrderedTypeOK'
  BY <1>1, <1>2, <1>4, <1>5, <1>6, <1>10, <1>11, WrappingAddType DEF OrderedTypeOK
<1>13. WrapSafe' /\ Behind'
  BY <1>1, <1>2, <1>6, <1>9, <1>10 DEF WrapSafe, Behind
<1>14. CASE duplicates
  <2>1. /\ e = n /\ ordered_sent < Modulus
        /\ \A s \in DOMAIN B : s < ordered_sent /\ B[s] = s
    BY <1>1, <1>2, <1>4, <1>14 DEF OrderedInv, NumberedAbsolutely, WrapSafe, OrderedTypeOK
  <2>2. expected_sequence' = n + k
    BY <1>2, <1>5, <1>9, <2>1 DEF WrappingAdd
  <2>3. expected_sequence' \notin DOMAIN buffered_packets'
    BY <1>2, <1>5, <1>8, <1>9, <1>11, <2>1, <2>2
  <2>4. NumberedAbsolutely'
    BY <1>6, <1>10, <1>11, <1>14, <2>1, <2>2, <2>3 DEF OrderedInv, NumberedAbsolutely
  <2>. QED
    BY <1>6, <1>10, <1>12, <1>13, <1>14, <2>4 DEF OrderedInv
<1>15. CASE ~duplicates
  <2>0. NumberedByDistance
    BY <1>15 DEF OrderedInv
  <2>1. \A s \in DOMAIN B : /\ B[s] \in n .. ordered_sent - 1
                            /\ s = WrappingAdd(e, B[s] - n)
    BY <1>2, <1>4, <2>0 DEF NumberedByDistance
  <2>2. \A d \in k .. ordered_sent - n :
           WrappingAdd(expected_sequence', d - k) = WrappingAdd(e, d)
    BY <1>2, <1>5, WrappingAddSplit
  <2>3. ordered_next' = WrappingAdd(expected_sequence', ordered_sent' - Len(delivered'))
    <3>1. /\ ordered_sent - n \in k .. ordered_sent - n
          /\ (ordered_sent - n) - k = ordered_sent - (n + k)
      BY <1>2, <1>9
    <3>2. WrappingAdd(expected_sequence', ordered_sent - (n + k))
            = WrappingAdd(e, ordered_sent - n)
      BY <2>2, <3>1
    <3>. QED
      BY <1>6, <1>10, <2>0, <3>2 DEF NumberedByDistance
  <2>4. ASSUME NEW q \in ordered_wire'
        PROVE  /\ q.data \in Len(delivered') .. ordered_sent' - 1
               /\ q.sequence = WrappingAdd(expected_sequence', q.data - Len(delivered'))
    <3>1. /\ q \in ordered_wire /\ q # p
          /\ q.data \in n .. ordered_sent - 1
          /\ q.sequence = WrappingAdd(e, q.data - n)
      BY <1>6, <1>15, <2>0 DEF NumberedByDistance
    <3>2. q.data # p.data
      BY <1>1, <2>0, <3>1 DEF NumberedByDistance, OrderedTypeOK, PacketRecord
    <3>3. \A s \in DOMAIN B : q.data # B[s]
      BY <1>4, <2>0, <3>1, <3>2 DEF NumberedByDistance
    <3>4. q.data >= n + k
      <4>. SUFFICES ASSUME q.data < n + k PROVE FALSE
        BY <1>2, <3>1
      <4>1. q.data - n \in 0 .. k - 1
        BY <1>2, <3>1
      <4>. QED
        BY <1>2, <1>7, <1>9, <3>1, <3>3, <4>1
    <3>5. /\ q.data - n \in k .. ordered_sent - n
          /\ q.data \in n + k .. ordered_sent - 1
          /\ (q.data - n) - k = q.data - (n + k)
      BY <1>2, <3>1, <3>4
    <3>6. WrappingAdd(expected_sequence', q.data - (n + k)) = WrappingAdd(e, q.data - n)
      BY <2>2, <3>5
    <3>. QED
      BY <1>6, <1>10, <3>1, <3>5, <3>6
  <2>5. ASSUME NEW s \in DOMAIN buffered_packets'
        PROVE  /\ buffered_packets'[s] \in Len(delivered') + 1 .. ordered_sent' - 1
               /\ s = WrappingAdd(expected_sequence', buffered_packets'[s] - Len(delivered'))
    <3>. DEFINE d == B[s] - n
    <3>1. /\ s \in DOMAIN B /\ buffered_packets'[s] = B[s]
          /\ B[s] \in n .. ordered_sent - 1 /\ s = WrappingAdd(e, d)
      BY <1>11, <2>1
    <3>2. d \notin 0 .. k - 1
      BY <1>11, <3>1
    <3>3. d # k
      BY <1>2, <1>8, <3>1
    <3>4. /\ d \in k + 1 .. ordered_sent - n - 1 /\ d \in k .. ordered_sent - n
          /\ B[s] \in n + k + 1 .. ordered_sent - 1
          /\ d - k = B[s] - (n + k)
      <4>. DEFINE x == B[s]
                  o == ordered_sent
      <4>1. n \in Nat /\ k \in Nat /\ o \in Nat
        BY <1>2
      <4>2. x \in n .. o - 1 /\ x - n \notin 0 .. k - 1 /\ x - n # k
        BY <3>1, <3>2, <3>3
      <4>. HIDE DEF x, o
      <4>3. /\ x - n \in k + 1 .. o - n - 1 /\ x - n \in k .. o - n
            /\ x \in n + k + 1 .. o - 1 /\ (x - n) - k = x - (n + k)
        BY <4>1, <4>2
      <4>. QED
        BY <4>3 DEF x, o
    <3>5. WrappingAdd(expected_sequence', B[s] - (n + k)) = WrappingAdd(e, d)
      BY <2>2, <3>4
    <3>. QED
      BY <1>6, <1>10, <3>1, <3>4, <3>5
  <2>6. \A q \in ordered_wire', s \in DOMAIN buffered_packets' :
           q.data # buffered_packets'[s]
    <3>. SUFFICES ASSUME NEW q \in ordered_wire', NEW s \in DOMAIN buffered_packets'
                  PROVE  q.data # buffered_packets'[s]
      OBVIOUS
    <3>1. q \in ordered_wire /\ q # p
      BY <1>6, <1>15
    <3>2. q.data # p.data
      BY <1>1, <2>0, <3>1 DEF NumberedByDistance, OrderedTypeOK, PacketRecord
    <3>. QED
      BY <1>4, <1>11, <2>0, <3>1, <3>2 DEF NumberedByDistance
  <2>7. NumberedByDistance'
    BY <2>3, <2>4, <2>5, <2>6 DEF NumberedByDistance
  <2>. QED
    BY <1>6, <1>10, <1>12, <1>13, <1>15, <2>7 DEF OrderedInv
<1>. QED
  BY <1>14, <1>15

(* The other steps leave the ordered stream alone or take packets from it.  *)
LEMMA OrderedRest ==
    ASSUME OrderedInv,
           ordered_wire' \subseteq ordered_wire,
           UNCHANGED <<expected_sequence, buffered_packets, ordered_sent,
                       ordered_next, delivered, duplicates>>
    PROVE  OrderedInv'
<1>1. OrderedTypeOK' /\ WrapSafe' /\ Behind' /\ OrderedDelivery'
  BY DEF OrderedInv, OrderedTypeOK, WrapSafe, Behind, OrderedDelivery
<1>2. NumberedAbsolutely => NumberedAbsolutely'
  BY DEF NumberedAbsolutely
<1>3. NumberedByDistance => NumberedByDistance'
  BY DEF NumberedByDistance
<1>. QED
  BY <1>1, <1>2, <1>3 DEF OrderedInv

(* Every step of process_ordered, the remote and the network preserves it.  *)
LEMMA OrderedStep ==
    ASSUME OrderedInv, [Next]_vars, MaxRepeated < Modulus
    PROVE  OrderedInv'
<1>1. CASE SendOrdered
  BY <1>1, OrderedSend
<1>2. CASE SendSequenced
  BY <1>2, OrderedRest DEF SendSequenced, channel, orderedEnv
<1>3. ASSUME NEW p \in ordered_wire, ProcessOrdered(p)
      PROVE  OrderedInv'
  BY <1>3, OrderedProcess
<1>4. ASSUME NEW p \in ordered_wire, LoseOrdered(p)
      PROVE  OrderedInv'
  BY <1>4, OrderedRest DEF LoseOrdered, channel
<1>5. ASSUME NEW p \in sequenced_wire, ProcessSequenced(p)
      PROVE  OrderedInv'
  BY <1>5, OrderedRest DEF ProcessSequenced, orderedEnv
<1>6. ASSUME NEW p \in sequenced_wire, LoseSequenced(p)
      PROVE  OrderedInv'
  BY <1>6, OrderedRest DEF LoseSequenced, channel, orderedEnv
<1>7. CASE UNCHANGED vars
  BY <1>7, OrderedRest DEF vars, channel, orderedEnv
<1>. QED
  BY <1>1, <1>2, <1>3, <1>4, <1>5, <1>6, <1>7 DEF Next

(* Ordered delivery is exact for every width of the sequence number, every  *)
(* window up to the whole circle and every number of packets: process_ordered *)
(* delivers the remote's payloads without gap, repetition or swap, through  *)
(* any number of wraps, as long as a stream that meets duplicates ends      *)
(* before its numbers wrap.                                                 *)
THEOREM OrderedDeliveryCorrect ==
    ASSUME MaxRepeated < Modulus
    PROVE  Spec => []OrderedDelivery
<1>1. Init => OrderedInv
  BY OrderedInit
<1>2. OrderedInv /\ [Next]_vars => OrderedInv'
  BY OrderedStep
<1>3. OrderedInv => OrderedDelivery
  BY DEF OrderedInv
<1>. QED
  BY <1>1, <1>2, <1>3, PTL DEF Spec

(* The buffer of process_ordered is ahead of the application: the packet it *)
(* waits for is never left behind, and without duplicates nothing in the    *)
(* buffer is a leftover.                                                    *)
THEOREM BufferIsAheadCorrect ==
    ASSUME MaxRepeated < Modulus
    PROVE  Spec => []BufferIsAhead
<1>1. Init => OrderedInv
  BY OrderedInit
<1>2. OrderedInv /\ [Next]_vars => OrderedInv'
  BY OrderedStep
<1>3. OrderedInv => BufferIsAhead
  <2>1. ASSUME OrderedInv, duplicates PROVE BufferIsAhead
    BY <2>1 DEF OrderedInv, NumberedAbsolutely, BufferIsAhead
  <2>2. ASSUME OrderedInv, ~duplicates PROVE BufferIsAhead
    BY <2>2 DEF OrderedInv, NumberedByDistance, BufferIsAhead, OrderedTypeOK
  <2>. QED
    BY <2>1, <2>2
<1>. QED
  BY <1>1, <1>2, <1>3, PTL DEF Spec

-----------------------------------------------------------------------------
(* The refinement. *)

(* A longer run of consecutive payloads is a shorter one, continued.        *)
LEMMA RunContinued ==
    ASSUME NEW s \in Seq(Data), NEW t \in Seq(Data), NEW n \in Nat, NEW k \in Nat,
           Len(s) = n, Len(t) = n + k,
           \A i \in 1 .. n : s[i] = i - 1,
           \A i \in 1 .. n + k : t[i] = i - 1
    PROVE  t = s \o [i \in 1 .. k |-> n + i - 1]
<1>. DEFINE R == [i \in 1 .. k |-> n + i - 1]
<1>1. R \in Seq(Data) /\ Len(R) = k /\ \A i \in 1 .. k : R[i] = n + i - 1
  BY RunOfPayloads
<1>. HIDE DEF R
<1>2. s \o R \in Seq(Data) /\ Len(s \o R) = n + k
  BY <1>1, Appending
<1>3. ASSUME NEW j \in 1 .. n + k
      PROVE  (s \o R)[j] = t[j]
  <2>1. CASE j <= n
    BY <1>1, <2>1, Appending
  <2>2. CASE j > n
    <3>1. j \in n + 1 .. n + k /\ j - n \in 1 .. k
      BY <2>2
    <3>2. (s \o R)[j] = R[j - n]
      BY <1>1, <3>1, Appending
    <3>3. R[j - n] = j - 1
      BY <1>1, <3>1
    <3>. QED
      BY <3>2, <3>3
  <2>3. j <= n \/ j > n
    OBVIOUS
  <2>. QED
    BY <2>1, <2>2, <2>3
<1>4. s \o R = t
  BY <1>2, <1>3, SameSequence
<1>. QED
  BY <1>4 DEF R

(* Two states of the invariant with the same number of packets sent, the    *)
(* second with at least as many delivered, are a Release of the abstract    *)
(* stream.                                                                  *)
LEMMA DeliveryIsRelease ==
    ASSUME OrderedInv, OrderedInv', ordered_sent' = ordered_sent,
           Len(delivered) <= Len(delivered')
    PROVE  Promise!Next
<1>1. /\ delivered \in Seq(Data) /\ delivered' \in Seq(Data)
      /\ ordered_sent \in Nat /\ Len(delivered) \in Nat /\ Len(delivered') \in Nat
  BY ChannelAssumption DEF OrderedInv, OrderedTypeOK
<1>2. PICK k \in Nat : Len(delivered') = Len(delivered) + k
  <2>1. Len(delivered') - Len(delivered) \in Nat
    BY <1>1
  <2>. QED
    BY <1>1, <2>1
<1>3. Len(delivered) + k <= ordered_sent /\ k \in 0 .. ordered_sent
  BY <1>1, <1>2 DEF OrderedInv, Behind
<1>4. /\ \A i \in 1 .. Len(delivered) : delivered[i] = i - 1
      /\ \A i \in 1 .. Len(delivered) + k : delivered'[i] = i - 1
  BY <1>1, <1>2 DEF OrderedInv, OrderedDelivery
<1>5. delivered' = delivered \o [i \in 1 .. k |-> Len(delivered) + i - 1]
  BY <1>1, <1>2, <1>4, RunContinued
<1>. QED
  BY <1>3, <1>5 DEF Promise!Next, Promise!Release, Promise!NextPayloads

(* Every step of the channel is a step of the abstract stream or a stutter: *)
(* the remote's send is Submit, process_ordered is Release of the payloads  *)
(* its loop drains (none when the packet is early or a duplicate).          *)
LEMMA StepIsStreamStep ==
    ASSUME OrderedInv, OrderedInv', [Next]_vars
    PROVE  [Promise!Next]_<<ordered_sent, delivered>>
<1>1. CASE SendOrdered
  BY <1>1 DEF SendOrdered, Promise!Next, Promise!Submit
<1>2. ASSUME NEW p \in ordered_wire, ProcessOrdered(p)
      PROVE  Promise!Next
  <2>. DEFINE B == BufferInsert(buffered_packets, p)
  <2>1. PICK k \in 0 .. Modulus :
           /\ DrainsExactly(B, expected_sequence, k)
           /\ delivered' = delivered \o ReadyPackets(B, expected_sequence, k)
    BY <1>2 DEF ProcessOrdered
  <2>. DEFINE R == ReadyPackets(B, expected_sequence, k)
  <2>2. delivered \in Seq(Data)
    BY DEF OrderedInv, OrderedTypeOK
  <2>3. Len(delivered) <= Len(delivered')
    <3>1. \A s \in DOMAIN B : B[s] \in Data
      BY DEF OrderedInv, OrderedTypeOK, BufferInsert, PacketRecord
    <3>2. \A i \in 1 .. k : WrappingAdd(expected_sequence, i - 1) \in DOMAIN B
      BY <2>1, HalfRangeAssumption DEF DrainsExactly, Modulus
    <3>3. R \in Seq(Data)
      BY <3>1, <3>2, HalfRangeAssumption DEF ReadyPackets, Modulus
    <3>. HIDE DEF R
    <3>. QED
      BY <2>1, <2>2, <3>3, Appending
  <2>4. ordered_sent' = ordered_sent
    BY <1>2 DEF ProcessOrdered
  <2>. QED
    BY <2>3, <2>4, DeliveryIsRelease
<1>3. ASSUME NEW p \in ordered_wire, LoseOrdered(p)
      PROVE  UNCHANGED <<ordered_sent, delivered>>
  BY <1>3 DEF LoseOrdered
<1>4. CASE SendSequenced
  BY <1>4 DEF SendSequenced, orderedEnv
<1>5. ASSUME NEW p \in sequenced_wire, ProcessSequenced(p) \/ LoseSequenced(p)
      PROVE  UNCHANGED <<ordered_sent, delivered>>
  BY <1>5 DEF ProcessSequenced, LoseSequenced, orderedEnv
<1>6. CASE UNCHANGED vars
  BY <1>6 DEF vars, orderedEnv
<1>. QED
  BY <1>1, <1>2, <1>3, <1>4, <1>5, <1>6 DEF Next

(* process_ordered implements the ordered stream: seen from the two         *)
(* applications, sequence numbers, the HashMap, reordering, loss and        *)
(* duplication are invisible.                                               *)
THEOREM ChannelImplementsStream ==
    ASSUME MaxRepeated < Modulus
    PROVE  Spec => ImplementsOrderedStream
<1>1. Init => OrderedInv
  BY OrderedInit
<1>2. OrderedInv /\ [Next]_vars => OrderedInv'
  BY OrderedStep
<1>3. Init => Promise!Init
  BY DEF Init, Promise!Init
<1>4. OrderedInv /\ OrderedInv' /\ [Next]_vars => [Promise!Next]_<<ordered_sent, delivered>>
  BY StepIsStreamStep
<1>. QED
  BY <1>1, <1>2, <1>3, <1>4, PTL DEF Spec, ImplementsOrderedStream, Promise!Spec

-----------------------------------------------------------------------------
(* The sequenced stream. *)

SequencedTypeOK ==
    /\ latest_sequence \in SequenceNumber
    /\ sequenced_sent \in 0 .. MaxSequenced
    /\ sequenced_next \in SequenceNumber
    /\ sequenced_wire \in SUBSET PacketRecord
    /\ newest \in Data \cup {-1}

(* The application and every packet in flight are at most MaxLag behind the *)
(* remote, and their distance from it is that of their sequence numbers.    *)
NumberedByLag ==
    /\ newest < sequenced_sent /\ sequenced_sent - newest <= MaxLag
    /\ newest = -1 => latest_sequence = 0 /\ sequenced_next = sequenced_sent
    /\ newest # -1 => sequenced_next = WrappingAdd(latest_sequence, sequenced_sent - newest)
    /\ \A p \in sequenced_wire :
          /\ p.data < sequenced_sent /\ sequenced_sent - p.data <= MaxLag
          /\ sequenced_next = WrappingAdd(p.sequence, sequenced_sent - p.data)

SequencedInv == SequencedTypeOK /\ NumberedByLag

(* Numbers at distances b and c behind the same number are c - b apart, in  *)
(* the one direction or, going round the circle, in the other.              *)
LEMMA LagDifference ==
    ASSUME NEW a \in SequenceNumber, NEW d \in SequenceNumber,
           NEW b \in 1 .. HalfRange, NEW c \in 1 .. HalfRange,
           WrappingAdd(a, b) = WrappingAdd(d, c)
    PROVE  /\ b < c => WrappingSub(a, d) = c - b
           /\ b > c => WrappingSub(a, d) = Modulus - (b - c)
BY HalfRangeAssumption DEF WrappingAdd, WrappingSub, SequenceNumber, Modulus

(* process_sequenced accepts what is newer, and of what is older only 0.    *)
LEMMA AcceptsNewer ==
    ASSUME SequencedInv, NEW p \in sequenced_wire
    PROVE  /\ p.data > newest => Accepts(p.sequence, latest_sequence)
           /\ p.data < newest /\ Accepts(p.sequence, latest_sequence) => p.sequence = 0
<1>1. /\ p.sequence \in SequenceNumber /\ p.data \in Nat
      /\ latest_sequence \in SequenceNumber
      /\ sequenced_sent \in Nat /\ newest \in Nat \cup {-1}
      /\ newest < sequenced_sent /\ sequenced_sent - newest <= MaxLag
      /\ p.data < sequenced_sent /\ sequenced_sent - p.data <= MaxLag
      /\ sequenced_next = WrappingAdd(p.sequence, sequenced_sent - p.data)
      /\ newest = -1 => latest_sequence = 0 /\ sequenced_next = sequenced_sent
      /\ newest # -1 => sequenced_next = WrappingAdd(latest_sequence, sequenced_sent - newest)
  BY DEF SequencedInv, SequencedTypeOK, NumberedByLag, PacketRecord, Data
<1>2. MaxLag \in 1 .. HalfRange /\ HalfRange \in Nat
  BY ChannelAssumption, HalfRangeAssumption
<1>3. CASE newest = -1
  <2>1. p.sequence = p.data /\ p.data < HalfRange
    BY <1>1, <1>2, <1>3 DEF WrappingAdd, SequenceNumber, Modulus
  <2>. QED
    BY <1>1, <1>2, <1>3, <2>1 DEF Accepts, IsNewer, WrappingSub
<1>4. CASE newest # -1
  <2>1. /\ sequenced_sent - p.data \in 1 .. HalfRange
        /\ sequenced_sent - newest \in 1 .. HalfRange
        /\ WrappingAdd(p.sequence, sequenced_sent - p.data) =
             WrappingAdd(latest_sequence, sequenced_sent - newest)
    BY <1>1, <1>2, <1>4
  <2>2. /\ p.data > newest => WrappingSub(p.sequence, latest_sequence) = p.data - newest
        /\ p.data < newest =>
             WrappingSub(p.sequence, latest_sequence) = Modulus - (newest - p.data)
    <3>. DEFINE b == sequenced_sent - p.data
                c == sequenced_sent - newest
    <3>1. b \in 1 .. HalfRange /\ c \in 1 .. HalfRange
          /\ WrappingAdd(p.sequence, b) = WrappingAdd(latest_sequence, c)
      BY <2>1
    <3>2. c - b = p.data - newest /\ b - c = newest - p.data
      BY <1>1, <1>4
    <3>. HIDE DEF b, c
    <3>3. /\ b < c => WrappingSub(p.sequence, latest_sequence) = c - b
          /\ b > c => WrappingSub(p.sequence, latest_sequence) = Modulus - (b - c)
      BY <1>1, <3>1, LagDifference
    <3>4. (p.data > newest => b < c) /\ (p.data < newest => b > c)
      BY <1>1, <1>4, <3>1, <3>2
    <3>. QED
      BY <3>2, <3>3, <3>4
  <2>. QED
    BY <1>1, <1>2, <2>1, <2>2 DEF Accepts, IsNewer, Modulus
<1>. QED
  BY <1>3, <1>4

(* A fresh ChannelState satisfies the invariant.                            *)
LEMMA SequencedInit ==
    ASSUME Init
    PROVE  SequencedInv
BY ChannelAssumption, HalfRangeAssumption
DEF Init, SequencedInv, SequencedTypeOK, NumberedByLag, SequenceNumber, Modulus, Data, PacketRecord

(* The remote numbers one more sequenced packet.                            *)
LEMMA SequencedSend ==
    ASSUME SequencedInv, SendSequenced
    PROVE  SequencedInv'
<1>1. /\ SequencedTypeOK /\ NumberedByLag
      /\ MaxLag \in 1 .. HalfRange /\ HalfRange \in Nat /\ MaxSequenced \in Nat
  BY ChannelAssumption, HalfRangeAssumption DEF SequencedInv
<1>2. /\ sequenced_sent < MaxSequenced /\ sequenced_sent - newest < MaxLag
      /\ sequenced_sent' = sequenced_sent + 1
      /\ sequenced_next' = WrappingAdd(sequenced_next, 1)
      /\ newest' = newest /\ latest_sequence' = latest_sequence
  BY DEF SendSequenced, channel
<1>3. ASSUME NEW p \in sequenced_wire'
      PROVE  /\ p \in PacketRecord
             /\ p.data < sequenced_sent' /\ sequenced_sent' - p.data <= MaxLag
             /\ sequenced_next' = WrappingAdd(p.sequence, sequenced_sent' - p.data)
  <2>1. /\ sequenced_sent - p.data < MaxLag
        /\ \/ p \in sequenced_wire
           \/ p = [sequence |-> sequenced_next, data |-> sequenced_sent]
    BY <1>3 DEF SendSequenced
  <2>2. CASE p \in sequenced_wire
    <3>1. /\ p \in PacketRecord /\ p.sequence \in SequenceNumber /\ p.data \in Nat
          /\ p.data < sequenced_sent /\ sequenced_sent - p.data <= MaxLag
          /\ sequenced_next = WrappingAdd(p.sequence, sequenced_sent - p.data)
      BY <1>1, <2>2 DEF SequencedTypeOK, NumberedByLag, PacketRecord, Data
    <3>2. sequenced_sent \in Nat
      BY <1>1 DEF SequencedTypeOK
    <3>3. sequenced_sent - p.data \in 0 .. Modulus - 1
      BY <1>1, <3>1, <3>2, HalfRangeAssumption DEF Modulus
    <3>4. WrappingAdd(WrappingAdd(p.sequence, sequenced_sent - p.data), 1) =
            WrappingAdd(p.sequence, sequenced_sent - p.data + 1)
      BY <3>1, <3>3, WrappingAddSucc
    <3>. QED
      BY <1>1, <1>2, <2>1, <3>1, <3>2, <3>4
  <2>3. CASE p = [sequence |-> sequenced_next, data |-> sequenced_sent]
    BY <1>1, <1>2, <2>1, <2>3 DEF SequencedTypeOK, PacketRecord, Data
  <2>. QED
    BY <2>1, <2>2, <2>3
<1>4. SequencedTypeOK'
  <2>1. sequenced_next' \in SequenceNumber
    BY <1>1, <1>2, WrappingAddType, HalfRangeAssumption DEF SequencedTypeOK, Modulus
  <2>. QED
    BY <1>1, <1>2, <1>3, <2>1 DEF SequencedTypeOK
<1>5. newest = -1 => sequenced_next' = sequenced_sent'
  BY <1>1, <1>2, HalfRangeAssumption
  DEF SequencedTypeOK, NumberedByLag, WrappingAdd, Modulus
<1>6. newest # -1 => sequenced_next' = WrappingAdd(latest_sequence, sequenced_sent' - newest)
  <2>1. SUFFICES ASSUME newest # -1
                 PROVE  sequenced_next' = WrappingAdd(latest_sequence, sequenced_sent' - newest)
    OBVIOUS
  <2>2. /\ sequenced_sent - newest \in 0 .. Modulus - 1
        /\ sequenced_sent \in Nat /\ newest \in Nat
    BY <1>1, <1>2, <2>1, HalfRangeAssumption DEF SequencedTypeOK, NumberedByLag, Modulus, Data
  <2>3. WrappingAdd(WrappingAdd(latest_sequence, sequenced_sent - newest), 1) =
          WrappingAdd(latest_sequence, sequenced_sent - newest + 1)
    BY <1>1, <2>2, WrappingAddSucc DEF SequencedTypeOK
  <2>. QED
    BY <1>1, <1>2, <2>1, <2>2, <2>3 DEF NumberedByLag
<1>. QED
  BY <1>1, <1>2, <1>3, <1>4, <1>5, <1>6 DEF SequencedInv, NumberedByLag, SequencedTypeOK, Data

(* A packet accepted by process_sequenced was numbered by the remote.       *)
LEMMA SequencedProcess ==
    ASSUME SequencedInv, NEW p \in sequenced_wire, ProcessSequenced(p)
    PROVE  SequencedInv'
<1>1. /\ p.sequence \in SequenceNumber /\ p.data \in Data /\ p.data # -1
      /\ p.data < sequenced_sent /\ sequenced_sent - p.data <= MaxLag
      /\ sequenced_next = WrappingAdd(p.sequence, sequenced_sent - p.data)
  BY DEF SequencedInv, SequencedTypeOK, NumberedByLag, PacketRecord, Data
<1>2. /\ sequenced_wire' \subseteq sequenced_wire
      /\ sequenced_sent' = sequenced_sent /\ sequenced_next' = sequenced_next
      /\ \/ latest_sequence' = p.sequence /\ newest' = p.data
         \/ latest_sequence' = latest_sequence /\ newest' = newest
  BY DEF ProcessSequenced
<1>. QED
  BY <1>1, <1>2 DEF SequencedInv, SequencedTypeOK, NumberedByLag

(* Every step preserves the invariant of the sequenced stream.              *)
LEMMA SequencedStep ==
    ASSUME SequencedInv, [Next]_vars
    PROVE  SequencedInv'
<1>1. CASE SendSequenced
  BY <1>1, SequencedSend
<1>2. ASSUME NEW p \in sequenced_wire, ProcessSequenced(p)
      PROVE  SequencedInv'
  BY <1>2, SequencedProcess
<1>3. ASSUME NEW p \in sequenced_wire, LoseSequenced(p)
      PROVE  SequencedInv'
  BY <1>3 DEF LoseSequenced, channel, SequencedInv, SequencedTypeOK, NumberedByLag
<1>4. ASSUME UNCHANGED <<latest_sequence, sequenced_sent, sequenced_next, sequenced_wire, newest>>
      PROVE  SequencedInv'
  BY <1>4 DEF SequencedInv, SequencedTypeOK, NumberedByLag
<1>5. CASE SendOrdered
  BY <1>4, <1>5 DEF SendOrdered, channel, sequencedEnv
<1>6. ASSUME NEW p \in ordered_wire, ProcessOrdered(p) \/ LoseOrdered(p)
      PROVE  SequencedInv'
  BY <1>4, <1>6 DEF ProcessOrdered, LoseOrdered, channel, sequencedEnv
<1>7. CASE UNCHANGED vars
  BY <1>4, <1>7 DEF vars, channel, sequencedEnv
<1>. QED
  BY <1>1, <1>2, <1>3, <1>5, <1>6, <1>7 DEF Next

(* process_sequenced delivers every newer packet and goes back only to      *)
(* number 0, for every width of the sequence number and every number of     *)
(* packets, while packets are less than half a turn late.                   *)
THEOREM SequencedDeliveryCorrect ==
    Spec => SequencedDelivery
<1>1. Init => SequencedInv
  BY SequencedInit
<1>2. SequencedInv /\ [Next]_vars => SequencedInv'
  BY SequencedStep
<1>3. SequencedInv =>
        \A p \in sequenced_wire :
           ProcessSequenced(p) =>
              /\ p.data > newest => newest' = p.data
              /\ newest' < newest => latest_sequence' = 0
  <2>1. SUFFICES ASSUME SequencedInv, NEW p \in sequenced_wire, ProcessSequenced(p)
                 PROVE  /\ p.data > newest => newest' = p.data
                        /\ newest' < newest => latest_sequence' = 0
    OBVIOUS
  <2>2. /\ p.data > newest => Accepts(p.sequence, latest_sequence)
        /\ p.data < newest /\ Accepts(p.sequence, latest_sequence) => p.sequence = 0
    BY <2>1, AcceptsNewer
  <2>3. newest \in Int
    BY <2>1 DEF SequencedInv, SequencedTypeOK, Data
  <2>. QED
    BY <2>1, <2>2, <2>3 DEF ProcessSequenced
<1>. QED
  BY <1>1, <1>2, <1>3, PTL DEF Spec, SequencedDelivery

(* Every variable of a channel, of process_ordered, process_sequenced and   *)
(* their remote, keeps its type.                                            *)
THEOREM ChannelTypeCorrect ==
    ASSUME MaxRepeated < Modulus
    PROVE  Spec => []TypeOK
<1>1. Init => OrderedInv /\ SequencedInv
  BY OrderedInit, SequencedInit
<1>2. OrderedInv /\ SequencedInv /\ [Next]_vars => OrderedInv' /\ SequencedInv'
  BY OrderedStep, SequencedStep
<1>3. OrderedInv /\ SequencedInv => TypeOK
  BY DEF OrderedInv, OrderedTypeOK, SequencedInv, SequencedTypeOK, TypeOK
<1>. QED
  BY <1>1, <1>2, <1>3, PTL DEF Spec

=============================================================================
