------------------------ MODULE SlidingWindowProofs ------------------------
(***************************************************************************)
(* The two sliding windows over wrapping numbers.                          *)
(*                                                                         *)
(* UnsequencedState, for every word size, window and sequence space: the   *)
(* window that mark_received shifts word by word and bit by bit stays      *)
(* exact, and so no packet is delivered twice and none that is late by at  *)
(* most half a window is refused.                                          *)
(*                                                                         *)
(* Acknowledgment, for every width of the sequence number, every length of *)
(* the bitfield and any number of packets, sent by one end or by both:     *)
(* what an end takes for acknowledged was received under that number, what *)
(* it gives up lies past the bitfield, and the bitfield is exact away from *)
(* the wrap.  Everything in a handler is an absolute number modulo the     *)
(* range, and numbers that are compared lie less than half a turn apart.   *)
(***************************************************************************)
EXTENDS Acknowledgment, UnsequencedState, FiniteSetTheorems, TLAPS

(* The facts about division and least elements are taken from the library   *)
(* of SequenceFold.                                                         *)
Plus(a, b) == a + b
Facts == INSTANCE SequenceFold WITH Op <- Plus

-----------------------------------------------------------------------------
(* Words and bits. *)

Window == [0 .. Words - 1 -> SUBSET (0 .. WordBits - 1)]

(* The sizes are positive.                                                  *)
LEMMA SizesArePositive ==
    /\ WordBits \in Nat /\ WordBits > 0 /\ Words \in Nat /\ Words > 0
    /\ WindowSize \in Nat /\ WindowSize >= 4 /\ WindowSize = WordBits * Words
    /\ WindowSize < HalfRange /\ HalfRange \in Nat
<1>1. /\ WordBits \in Nat /\ WordBits >= 2 /\ Words \in Nat /\ Words >= 2
      /\ WindowSize < HalfRange /\ HalfRange \in Nat
  BY UnsequencedAssumption, HalfRangeAssumption
<1>2. PICK j \in Nat : WordBits = 2 + j
  <2>1. WordBits - 2 \in Nat /\ WordBits = 2 + (WordBits - 2)
    BY <1>1
  <2>. QED
    BY <2>1
<1>3. PICK k \in Nat : Words = 2 + k
  <2>1. Words - 2 \in Nat /\ Words = 2 + (Words - 2)
    BY <1>1
  <2>. QED
    BY <2>1
<1>4. WordBits * Words = 4 + 2 * k + 2 * j + j * k /\ j * k \in Nat
  BY <1>2, <1>3
<1>. QED
  BY <1>1, <1>2, <1>3, <1>4 DEF WindowSize

(* The word and the bit of an offset: is_duplicate and mark_received index  *)
(* the array within its bounds exactly for the offsets of the window.       *)
LEMMA WordOfOffset ==
    ASSUME NEW offset \in Nat
    PROVE  /\ offset % WordBits \in 0 .. WordBits - 1
           /\ offset \div WordBits \in Nat
           /\ offset = WordBits * (offset \div WordBits) + (offset % WordBits)
           /\ offset < WindowSize <=> offset \div WordBits < Words
<1>. DEFINE q == offset \div WordBits
            r == offset % WordBits
<1>1. q \in Nat /\ r \in 0 .. WordBits - 1 /\ offset = WordBits * q + r
  BY SizesArePositive, Facts!Division
<1>. HIDE DEF q, r
<1>2. ASSUME q < Words PROVE offset < WindowSize
  <2>1. PICK k \in Nat : Words = q + 1 + k
    <3>1. Words - q - 1 \in Nat /\ Words = q + 1 + (Words - q - 1)
      BY <1>1, <1>2, SizesArePositive
    <3>. QED
      BY <3>1
  <2>2. WordBits * Words = WordBits * q + WordBits + WordBits * k /\ WordBits * k \in Nat /\ WordBits * q \in Nat
    BY <1>1, <2>1, SizesArePositive
  <2>. QED
    BY <1>1, <2>2, SizesArePositive
<1>3. ASSUME q >= Words PROVE offset >= WindowSize
  <2>1. PICK k \in Nat : q = Words + k
    <3>1. q - Words \in Nat /\ q = Words + (q - Words)
      BY <1>1, <1>3, SizesArePositive
    <3>. QED
      BY <3>1
  <2>2. WordBits * q = WordBits * Words + WordBits * k /\ WordBits * k \in Nat
    BY <1>1, <2>1, SizesArePositive
  <2>. QED
    BY <1>1, <2>2, SizesArePositive
<1>4. offset < WindowSize <=> q < Words
  BY <1>1, <1>2, <1>3, SizesArePositive
<1>. QED
  BY <1>1, <1>4 DEF q, r

(* What the two loops of mark_received compute, bit by bit: the bit at an   *)
(* offset is the one that was advance places further on, or clear.          *)
LEMMA ShiftedBits ==
    ASSUME NEW window \in Window, NEW advance \in Nat
    PROVE  /\ Shifted(window, advance) \in Window
           /\ \A offset \in 0 .. WindowSize - 1 :
                BitIsSet(Shifted(window, advance), offset) <=>
                   offset + advance < WindowSize /\ BitIsSet(window, offset + advance)
<1>. DEFINE a == advance \div WordBits
            c == advance % WordBits
            w == ShiftWords(window, a)
<1>1. a \in Nat /\ c \in 0 .. WordBits - 1 /\ advance = WordBits * a + c
  BY WordOfOffset
<1>. HIDE DEF a, c
<1>2. w \in Window /\ \A i \in 0 .. Words - 1 : w[i] = IF i + a < Words THEN window[i + a] ELSE {}
  BY <1>1, SizesArePositive DEF ShiftWords, Window
<1>. HIDE DEF w
<1>3. \A i \in 0 .. Words - 1, b \in 0 .. WordBits - 1 :
        b \in ShiftBits(w, c)[i] <=>
           \/ b + c < WordBits /\ b + c \in w[i]
           \/ b + c >= WordBits /\ i + 1 < Words /\ b + c - WordBits \in w[i + 1]
  <2>. TAKE i \in 0 .. Words - 1, b \in 0 .. WordBits - 1
  <2>1. w[i] \subseteq 0 .. WordBits - 1 /\ (i + 1 < Words => w[i + 1] \subseteq 0 .. WordBits - 1)
    BY <1>2, SizesArePositive DEF Window
  <2>2. ShiftBits(w, c)[i] =
          {x - c : x \in {y \in w[i] : y >= c}}
            \cup (IF i + 1 < Words
                  THEN {x + WordBits - c : x \in {y \in w[i + 1] : y < c}} ELSE {})
    BY DEF ShiftBits
  <2>3. b \in {x - c : x \in {y \in w[i] : y >= c}} <=> b + c < WordBits /\ b + c \in w[i]
    <3>. DEFINE v == w[i]
    <3>1. v \subseteq 0 .. WordBits - 1 /\ b \in Nat /\ c \in Nat
      BY <1>1, <2>1
    <3>. HIDE DEF v
    <3>2. ASSUME NEW x \in v, x >= c, b = x - c PROVE b + c = x /\ b + c < WordBits
      BY <3>1, <3>2, SizesArePositive
    <3>3. b + c >= c /\ b = (b + c) - c
      BY <3>1
    <3>. QED
      BY <3>2, <3>3 DEF v
  <2>4. ASSUME i + 1 < Words
        PROVE  b \in {x + WordBits - c : x \in {y \in w[i + 1] : y < c}} <=>
                  b + c >= WordBits /\ b + c - WordBits \in w[i + 1]
    BY <1>1, <2>1, <2>4, SizesArePositive
  <2>. QED
    BY <2>2, <2>3, <2>4
<1>4. ShiftBits(w, c) \in Window
  <2>1. ASSUME NEW i \in 0 .. Words - 1 PROVE ShiftBits(w, c)[i] \subseteq 0 .. WordBits - 1
    <3>1. w[i] \subseteq 0 .. WordBits - 1 /\ (i + 1 < Words => w[i + 1] \subseteq 0 .. WordBits - 1)
      BY <1>2, SizesArePositive DEF Window
    <3>2. ShiftBits(w, c)[i] =
            {x - c : x \in {y \in w[i] : y >= c}}
              \cup (IF i + 1 < Words
                    THEN {x + WordBits - c : x \in {y \in w[i + 1] : y < c}} ELSE {})
      BY DEF ShiftBits
    <3>3. {x - c : x \in {y \in w[i] : y >= c}} \subseteq 0 .. WordBits - 1
      BY <1>1, <3>1, SizesArePositive
    <3>4. i + 1 < Words =>
            {x + WordBits - c : x \in {y \in w[i + 1] : y < c}} \subseteq 0 .. WordBits - 1
      BY <1>1, <3>1, SizesArePositive
    <3>. QED
      BY <3>2, <3>3, <3>4
  <2>. QED
    BY <2>1 DEF ShiftBits, Window
<1>5. ASSUME NEW offset \in 0 .. WindowSize - 1
      PROVE  BitIsSet(ShiftBits(w, c), offset) <=>
               offset + advance < WindowSize /\ BitIsSet(window, offset + advance)
  <2>. DEFINE i == offset \div WordBits
              b == offset % WordBits
              far == offset + advance
  <2>1. i \in 0 .. Words - 1 /\ b \in 0 .. WordBits - 1 /\ offset = WordBits * i + b /\ far \in Nat
    BY WordOfOffset, SizesArePositive
  <2>2. BitIsSet(ShiftBits(w, c), offset) <=> b \in ShiftBits(w, c)[i]
    BY DEF BitIsSet
  <2>3. far < WindowSize <=> far \div WordBits < Words
    BY <2>1, WordOfOffset
  <2>4. BitIsSet(window, far) <=> far % WordBits \in window[far \div WordBits]
    BY DEF BitIsSet
  <2>. HIDE DEF i, b
  <2>5. far = WordBits * (i + a) + (b + c)
    BY <1>1, <2>1, SizesArePositive
  <2>. HIDE DEF far
  <2>6. CASE b + c < WordBits
    <3>1. far \div WordBits = i + a /\ far % WordBits = b + c
      BY <1>1, <2>1, <2>5, <2>6, Facts!DivisionIsUnique, SizesArePositive
    <3>2. b \in ShiftBits(w, c)[i] <=> b + c \in w[i]
      BY <1>1, <1>3, <2>1, <2>6, SizesArePositive
    <3>. QED
      BY <1>1, <1>2, <2>1, <2>2, <2>3, <2>4, <3>1, <3>2 DEF far
  <2>7. CASE b + c >= WordBits
    <3>1. far = WordBits * (i + a + 1) + (b + c - WordBits)
      BY <1>1, <2>1, <2>5, SizesArePositive
    <3>2. far \div WordBits = i + a + 1 /\ far % WordBits = b + c - WordBits
      BY <1>1, <2>1, <2>7, <3>1, Facts!DivisionIsUnique, SizesArePositive
    <3>3. b \in ShiftBits(w, c)[i] <=> i + 1 < Words /\ b + c - WordBits \in w[i + 1]
      BY <1>1, <1>3, <2>1, <2>7, SizesArePositive
    <3>4. i + 1 < Words =>
            w[i + 1] = IF i + 1 + a < Words THEN window[i + 1 + a] ELSE {}
      BY <1>2, <2>1, SizesArePositive
    <3>5. i + a + 1 < Words => i + 1 < Words /\ i + 1 + a = i + a + 1
      BY <1>1, <2>1, SizesArePositive
    <3>. QED
      BY <1>1, <2>1, <2>2, <2>3, <2>4, <3>2, <3>3, <3>4, <3>5, SizesArePositive DEF far
  <2>. QED
    BY <1>1, <2>1, <2>6, <2>7, SizesArePositive
<1>. QED
  BY <1>4, <1>5 DEF Shifted, w, a, c

(* Setting a bit sets that bit and no other, and the window is not empty.   *)
LEMMA SetBitSets ==
    ASSUME NEW window \in Window, NEW offset \in 0 .. WindowSize - 1
    PROVE  /\ SetBit(window, offset) \in Window
           /\ SetBit(window, offset) # EmptyWindow
           /\ \A x \in 0 .. WindowSize - 1 :
                BitIsSet(SetBit(window, offset), x) <=> x = offset \/ BitIsSet(window, x)
<1>. DEFINE q(x) == x \div WordBits
            r(x) == x % WordBits
            new == SetBit(window, offset)
<1>1. \A x \in 0 .. WindowSize - 1 :
         q(x) \in 0 .. Words - 1 /\ r(x) \in 0 .. WordBits - 1 /\ x = WordBits * q(x) + r(x)
  BY WordOfOffset, SizesArePositive
<1>2. \A x \in 0 .. WindowSize - 1 : q(x) = q(offset) /\ r(x) = r(offset) => x = offset
  BY <1>1
<1>3. new = [window EXCEPT ![q(offset)] = @ \cup {r(offset)}]
  BY SizesArePositive DEF SetBit
<1>4. \A window1, x : BitIsSet(window1, x) <=> r(x) \in window1[q(x)]
  BY DEF BitIsSet
<1>. HIDE DEF q, r, new
<1>5. new \in Window /\ \A i \in 0 .. Words - 1 :
         new[i] = IF i = q(offset) THEN window[i] \cup {r(offset)} ELSE window[i]
  BY <1>1, <1>3 DEF Window
<1>6. \A x \in 0 .. WindowSize - 1 : BitIsSet(new, x) <=> x = offset \/ BitIsSet(window, x)
  BY <1>1, <1>2, <1>4, <1>5
<1>7. new # EmptyWindow
  <2>1. r(offset) \in new[q(offset)]
    BY <1>1, <1>5
  <2>2. EmptyWindow[q(offset)] = {}
    BY <1>1 DEF EmptyWindow
  <2>. QED
    BY <2>1, <2>2
<1>. QED
  BY <1>5, <1>6, <1>7 DEF new

(* A new window has no bit set.                                             *)
LEMMA EmptyHasNoBit ==
    /\ EmptyWindow \in Window
    /\ \A x \in 0 .. WindowSize - 1 : ~ BitIsSet(EmptyWindow, x)
BY WordOfOffset, SizesArePositive DEF EmptyWindow, BitIsSet, Window

-----------------------------------------------------------------------------
(* The invariant. *)

(* The remote never runs further ahead of the last packet received than the *)
(* circle can tell apart from behind: with 65536 numbers and a window of    *)
(* 1024, not 31745 packets without one of them getting through.             *)
InReach ==
    /\ WindowSize + MaxGap <= HalfRange + 1
    /\ FirstGroup + MaxGap <= HalfRange + 1

(* The absolute number of the base of the window.                           *)
Base == sent - WrappingSub(outgoing_unsequenced_group, incoming_unsequenced_group)

(* A packet in the network is recent, and its group says which one it is.   *)
WireIsRecent ==
    \A p \in wire :
        /\ sent - p.data <= MaxDelay
        /\ WrappingSub(outgoing_unsequenced_group, p.group) = sent - p.data

(* The base is half a window or more behind the newest packet, which is in  *)
(* the window; before the first packet the window is new.                   *)
BaseIsBehind ==
    /\ Base \in Nat
    /\ Base = 0 \/ Base + WindowSize \div 2 <= highest
    /\ highest < FirstGroup => Base = 0 /\ delivered = {} /\ unsequenced_window = EmptyWindow
    /\ highest >= FirstGroup => highest < Base + WindowSize /\ unsequenced_window # EmptyWindow
    /\ sent <= highest + MaxGap + 1

(* The bits of recent packets say whether they were delivered.              *)
BitsAreDelivered ==
    \A offset \in 0 .. WindowSize - 1 :
        sent - (Base + offset) <= MaxDelay =>
            (BitIsSet(unsequenced_window, offset) <=> Base + offset \in delivered)

DeliveredIsBelow == \A n \in delivered : n <= highest

FilterInv ==
    /\ UnsequencedTypeOK /\ WireIsRecent /\ BaseIsBehind /\ BitsAreDelivered /\ DeliveredIsBelow
    /\ ~repeated

(* The constants of the arithmetic below.                                   *)
LEMMA WindowConstants ==
    /\ HalfRange \in Nat /\ WindowSize \in Nat /\ WindowSize >= 4 /\ WindowSize < HalfRange
    /\ MaxDelay \in 1 .. HalfRange /\ MaxGap \in 1 .. HalfRange /\ MaxSent \in Nat
    /\ FirstGroup \in 0 .. 2 * HalfRange - 1
    /\ WindowSize \div 2 \in Nat /\ WindowSize \div 2 >= 2 /\ 2 * (WindowSize \div 2) <= WindowSize
<1>1. \A w \in Nat : w >= 4 => w \div 2 \in Nat /\ w \div 2 >= 2 /\ 2 * (w \div 2) <= w
  OBVIOUS
<1>. QED
  BY <1>1, SizesArePositive, UnsequencedAssumption DEF SequenceNumber, Modulus

(* The base lies behind the next packet, by no more than half the circle.   *)
LEMMA BaseIsNear ==
    ASSUME FilterInv, InReach
    PROVE  /\ sent \in Int /\ Base \in Nat /\ Base <= sent /\ sent - 1 - Base <= HalfRange
           /\ highest \in Int
BY WindowConstants DEF FilterInv, UnsequencedTypeOK, BaseIsBehind, InReach, Base, WrappingSub, Modulus,
      SequenceNumber

(* The offset that is_duplicate and mark_received compute from the group of *)
(* a packet: ahead of the base it is the distance, behind it is more than   *)
(* half the circle, and so IsOld decides which.                             *)
LEMMA OffsetIsDistance ==
    ASSUME FilterInv, InReach, NEW p \in wire
    PROVE  LET offset == WrappingSub(p.group, incoming_unsequenced_group)
           IN  /\ offset \in Nat
               /\ p.data >= Base => offset = p.data - Base /\ offset <= HalfRange
               /\ p.data < Base => offset > HalfRange
<1>1. /\ p.group \in SequenceNumber /\ p.data \in Nat /\ p.data <= sent - 1
      /\ sent - p.data <= MaxDelay
      /\ WrappingSub(outgoing_unsequenced_group, p.group) = sent - p.data
      /\ outgoing_unsequenced_group \in SequenceNumber
      /\ incoming_unsequenced_group \in SequenceNumber
      /\ Base = sent - WrappingSub(outgoing_unsequenced_group, incoming_unsequenced_group)
      /\ highest <= sent - 1 /\ (Base = 0 \/ Base + WindowSize \div 2 <= highest)
  BY WindowConstants DEF FilterInv, UnsequencedTypeOK, WireIsRecent, BaseIsBehind, Base
<1>2. p.data < Base => Base - p.data < HalfRange
  BY <1>1, BaseIsNear, WindowConstants
<1>. QED
  BY <1>1, <1>2, BaseIsNear, WindowConstants DEF WrappingSub, SequenceNumber, Modulus

(* A new session satisfies the invariant.                                   *)
LEMMA InitFilterInv == InReach /\ UnsequencedInit => FilterInv
<1>. SUFFICES ASSUME InReach, UnsequencedInit PROVE FilterInv
  OBVIOUS
<1>1. Base = 0
  BY WindowConstants DEF UnsequencedInit, Base, WrappingSub
<1>2. UnsequencedTypeOK
  <2>1. /\ 0 \in SequenceNumber /\ FirstGroup \in SequenceNumber
        /\ FirstGroup \in FirstGroup .. FirstGroup + MaxSent
        /\ FirstGroup - 1 \in FirstGroup - 1 .. FirstGroup - 1
    BY WindowConstants DEF SequenceNumber, Modulus
  <2>2. unsequenced_window \in [0 .. Words - 1 -> SUBSET (0 .. WordBits - 1)]
    BY EmptyHasNoBit DEF UnsequencedInit, Window
  <2>. QED
    BY <2>1, <2>2 DEF UnsequencedInit, UnsequencedTypeOK
<1>3. BaseIsBehind
  BY <1>1, WindowConstants DEF UnsequencedInit, BaseIsBehind
<1>4. BitsAreDelivered
  BY <1>1, EmptyHasNoBit DEF UnsequencedInit, BitsAreDelivered
<1>. QED
  BY <1>2, <1>3, <1>4 DEF UnsequencedInit, FilterInv, WireIsRecent, DeliveredIsBelow

(* next_outgoing_group: the counter and the absolute number move together,  *)
(* and the distances of the packets in the network grow by one.             *)
LEMMA SendGroupKeepsInv ==
    ASSUME FilterInv, InReach, SendGroup
    PROVE  FilterInv'
<1>0. /\ outgoing_unsequenced_group \in SequenceNumber
      /\ incoming_unsequenced_group \in SequenceNumber
      /\ sent \in FirstGroup .. FirstGroup + MaxSent
  BY DEF FilterInv, UnsequencedTypeOK
<1>1. /\ sent' = sent + 1 /\ sent < FirstGroup + MaxSent /\ sent - highest <= MaxGap
      /\ incoming_unsequenced_group' = incoming_unsequenced_group
      /\ unsequenced_window' = unsequenced_window /\ highest' = highest /\ repeated' = repeated
      /\ outgoing_unsequenced_group' = WrappingAdd(outgoing_unsequenced_group, 1)
      /\ delivered' = {n \in delivered : sent - n < MaxDelay}
  BY DEF SendGroup, InNetwork
<1>2. outgoing_unsequenced_group' \in SequenceNumber
  BY <1>0, <1>1, WindowConstants DEF WrappingAdd, SequenceNumber, Modulus
<1>3. \A n \in SequenceNumber :
        WrappingSub(outgoing_unsequenced_group, n) < Modulus - 1 =>
          WrappingSub(outgoing_unsequenced_group', n) = WrappingSub(outgoing_unsequenced_group, n) + 1
  BY <1>0, <1>1, WindowConstants DEF WrappingSub, WrappingAdd, SequenceNumber, Modulus
<1>4. Base' = Base
  <2>1. WrappingSub(outgoing_unsequenced_group, incoming_unsequenced_group) \in Int
    BY <1>0, WindowConstants DEF WrappingSub, SequenceNumber, Modulus
  <2>2. WrappingSub(outgoing_unsequenced_group, incoming_unsequenced_group) < Modulus - 1
    BY <2>1, BaseIsNear, WindowConstants DEF Base, Modulus
  <2>. QED
    BY <1>0, <1>1, <1>3, <2>1, <2>2, BaseIsNear DEF Base
<1>5. \A p \in wire' :
        /\ p.group \in SequenceNumber /\ p.data \in FirstGroup .. sent /\ sent' - p.data <= MaxDelay
        /\ WrappingSub(outgoing_unsequenced_group', p.group) = sent' - p.data
  <2>. TAKE p \in wire'
  <2>1. CASE p \in wire /\ sent - p.data < MaxDelay
    <3>1. /\ p.group \in SequenceNumber /\ p.data \in FirstGroup .. sent - 1
          /\ WrappingSub(outgoing_unsequenced_group, p.group) = sent - p.data
      BY <2>1 DEF FilterInv, UnsequencedTypeOK, WireIsRecent
    <3>2. WrappingSub(outgoing_unsequenced_group', p.group) = sent - p.data + 1
      BY <1>0, <1>3, <2>1, <3>1, WindowConstants DEF Modulus
    <3>. QED
      BY <1>0, <1>1, <2>1, <3>1, <3>2, WindowConstants
  <2>2. CASE p = [group |-> outgoing_unsequenced_group, data |-> sent]
    <3>1. p.group = outgoing_unsequenced_group /\ p.data = sent
      BY <2>2
    <3>2. WrappingSub(outgoing_unsequenced_group', outgoing_unsequenced_group) = 1
      BY <1>0, <1>1, WindowConstants DEF WrappingSub, WrappingAdd, SequenceNumber, Modulus
    <3>. QED
      BY <1>0, <1>1, <3>1, <3>2, WindowConstants
  <2>. QED
    BY <2>1, <2>2 DEF SendGroup, InNetwork
<1>6. UnsequencedTypeOK'
  <2>1. delivered' \subseteq FirstGroup .. sent' - 1
    <3>1. delivered \subseteq FirstGroup .. sent - 1 /\ delivered' \subseteq delivered
      BY <1>1 DEF FilterInv, UnsequencedTypeOK
    <3>2. sent' - 1 = sent /\ \A n \in FirstGroup .. sent - 1 : n \in FirstGroup .. sent
      BY <1>0, <1>1, WindowConstants
    <3>. QED
      BY <3>1, <3>2
  <2>2. highest \in FirstGroup - 1 .. sent' - 1
    BY <1>0, <1>1, WindowConstants DEF FilterInv, UnsequencedTypeOK
  <2>3. sent' \in FirstGroup .. FirstGroup + MaxSent /\ sent' - 1 = sent
    BY <1>0, <1>1, WindowConstants
  <2>. QED
    BY <1>0, <1>1, <1>2, <1>5, <2>1, <2>2, <2>3 DEF FilterInv, UnsequencedTypeOK
<1>7. BaseIsBehind'
  <2>1. sent' <= highest + MaxGap + 1
    BY <1>0, <1>1, BaseIsNear, WindowConstants
  <2>. QED
    BY <1>1, <1>4, <2>1 DEF FilterInv, BaseIsBehind
<1>8. BitsAreDelivered'
  <2>. SUFFICES ASSUME NEW offset \in 0 .. WindowSize - 1, sent' - (Base + offset) <= MaxDelay
                PROVE  BitIsSet(unsequenced_window, offset) <=> Base + offset \in delivered'
    BY <1>1, <1>4 DEF BitsAreDelivered
  <2>1. sent - (Base + offset) < MaxDelay
    BY <1>0, <1>1, BaseIsNear, WindowConstants
  <2>2. BitIsSet(unsequenced_window, offset) <=> Base + offset \in delivered
    BY <1>0, <2>1, BaseIsNear, WindowConstants DEF FilterInv, BitsAreDelivered
  <2>. QED
    BY <1>1, <2>1, <2>2
<1>. QED
  BY <1>1, <1>5, <1>6, <1>7, <1>8 DEF FilterInv, WireIsRecent, DeliveredIsBelow

(* The SEND_UNSEQUENCED arm: an accepted packet is not behind the base, and *)
(* mark_received slides the window so that it falls inside and no recent    *)
(* packet's bit is lost or changed.                                         *)
LEMMA ReceiveKeepsInv ==
    ASSUME FilterInv, InReach, NEW p \in wire, ReceiveGroup(p)
    PROVE  FilterInv'
<1>. DEFINE offset == WrappingSub(p.group, incoming_unsequenced_group)
            advance == Advance(offset)
            base == WrappingAdd(incoming_unsequenced_group, advance)
            half == WindowSize \div 2
<1>0. /\ UNCHANGED <<outgoing_unsequenced_group, sent, wire>>
      /\ outgoing_unsequenced_group \in SequenceNumber
      /\ incoming_unsequenced_group \in SequenceNumber
      /\ sent \in FirstGroup .. FirstGroup + MaxSent
      /\ unsequenced_window \in Window
      /\ p.data \in FirstGroup .. sent - 1 /\ p.group \in SequenceNumber
      /\ sent - p.data <= MaxDelay
      /\ delivered \subseteq FirstGroup .. sent - 1
      /\ highest \in FirstGroup - 1 .. sent - 1
  BY DEF ReceiveGroup, FilterInv, UnsequencedTypeOK, WireIsRecent, Window
<1>1. /\ offset \in Nat
      /\ p.data >= Base => offset = p.data - Base /\ offset <= HalfRange
      /\ p.data < Base => offset > HalfRange
  BY OffsetIsDistance
<1>2. CASE IsDuplicate(p.group)
  <2>1. UNCHANGED unsequenced_vars
    BY <1>2 DEF ReceiveGroup, unsequenced_vars
  <2>. QED
    BY <2>1 DEF unsequenced_vars, FilterInv, UnsequencedTypeOK, WireIsRecent, BaseIsBehind, BitsAreDelivered,
          DeliveredIsBelow, Base, BitIsSet
<1>3. CASE ~ IsDuplicate(p.group)
  <2>1. /\ incoming_unsequenced_group' = base
        /\ unsequenced_window' =
             SetBit(Shifted(unsequenced_window, advance), WrappingSub(p.group, base))
        /\ repeated' = (repeated \/ p.data \in delivered)
        /\ delivered' = delivered \cup {p.data}
        /\ highest' = IF p.data > highest THEN p.data ELSE highest
    BY <1>3 DEF ReceiveGroup, MarkReceived
  <2>2. p.data >= Base
    <3>1. CASE highest < FirstGroup
      BY <1>0, <3>1, WindowConstants DEF FilterInv, BaseIsBehind
    <3>2. CASE highest >= FirstGroup
      <4>1. offset >= WindowSize => ~ IsOld(offset)
        BY <1>1, <1>3, <3>2, WindowConstants DEF FilterInv, BaseIsBehind, IsDuplicate
      <4>. QED
        BY <1>0, <1>1, <4>1, BaseIsNear, WindowConstants DEF IsOld
    <3>. QED
      BY <1>0, <3>1, <3>2, WindowConstants
  <2>3. offset = p.data - Base /\ offset <= HalfRange /\ offset \in Nat
    BY <1>1, <2>2
  <2>4. /\ advance \in Nat
        /\ advance = IF offset >= WindowSize THEN offset - half ELSE 0
    BY <2>3, WindowConstants DEF Advance, IsOld
  <2>. HIDE DEF advance
  <2>5. base \in SequenceNumber /\ Base' = Base + advance
    <3>1. base \in SequenceNumber
      BY <1>0, <2>3, <2>4, WindowConstants DEF WrappingAdd, SequenceNumber, Modulus
    <3>2. Base' = sent - WrappingSub(outgoing_unsequenced_group, base)
      BY <1>0, <2>1 DEF Base
    <3>3. Base + advance <= sent
      BY <1>0, <2>3, <2>4, BaseIsNear, WindowConstants
    <3>. DEFINE d == WrappingSub(outgoing_unsequenced_group, incoming_unsequenced_group)
    <3>4. d \in Nat /\ Base = sent - d
      BY <1>0, WindowConstants DEF Base, WrappingSub, SequenceNumber, Modulus
    <3>5. advance <= d
      BY <1>0, <2>4, <3>3, <3>4, WindowConstants
    <3>6. WrappingSub(outgoing_unsequenced_group, base) = d - advance
      BY <1>0, <2>4, <3>5, WindowConstants DEF WrappingSub, WrappingAdd, SequenceNumber, Modulus
    <3>. HIDE DEF d
    <3>. QED
      BY <1>0, <2>4, <3>1, <3>2, <3>4, <3>6, WindowConstants
  <2>. DEFINE place == WrappingSub(p.group, base)
              slid == Shifted(unsequenced_window, advance)
  <2>6. place = offset - advance /\ place \in 0 .. WindowSize - 1
    <3>1. advance <= offset /\ offset - advance < WindowSize
      BY <2>3, <2>4, WindowConstants
    <3>2. WrappingSub(p.group, base) = offset - advance
      BY <1>0, <2>4, <3>1, WindowConstants DEF WrappingSub, WrappingAdd, SequenceNumber, Modulus
    <3>. QED
      BY <2>3, <2>4, <3>1, <3>2, WindowConstants
  <2>. HIDE DEF base, offset, place
  <2>7. /\ slid \in Window
        /\ \A x \in 0 .. WindowSize - 1 :
             BitIsSet(slid, x) <=> x + advance < WindowSize /\ BitIsSet(unsequenced_window, x + advance)
    BY <1>0, <2>4, ShiftedBits
  <2>. HIDE DEF slid
  <2>8. /\ unsequenced_window' \in Window /\ unsequenced_window' # EmptyWindow
        /\ \A x \in 0 .. WindowSize - 1 :
             BitIsSet(unsequenced_window', x) <=>
                \/ x = place
                \/ x + advance < WindowSize /\ BitIsSet(unsequenced_window, x + advance)
    <3>1. unsequenced_window' = SetBit(slid, place)
      BY <2>1 DEF slid, place
    <3>. QED
      BY <2>6, <2>7, <3>1, SetBitSets
  <2>9. Base \in Nat /\ Base + place + advance = p.data
    BY <1>0, <2>3, <2>4, <2>6, BaseIsNear, WindowConstants
  <2>10. BitsAreDelivered'
    <3>. SUFFICES ASSUME NEW x \in 0 .. WindowSize - 1, sent - (Base + advance + x) <= MaxDelay
                  PROVE  BitIsSet(unsequenced_window', x) <=>
                            Base + advance + x = p.data \/ Base + advance + x \in delivered
      BY <1>0, <2>1, <2>5 DEF BitsAreDelivered
    <3>1. x = place <=> Base + advance + x = p.data
      BY <2>4, <2>6, <2>9, WindowConstants
    <3>2. CASE x + advance < WindowSize
      <4>1. x + advance \in 0 .. WindowSize - 1 /\ Base + (x + advance) = Base + advance + x
        BY <2>4, <2>9, <3>2, WindowConstants
      <4>2. BitIsSet(unsequenced_window, x + advance) <=> Base + advance + x \in delivered
        BY <4>1 DEF FilterInv, BitsAreDelivered
      <4>. QED
        BY <2>8, <3>1, <3>2, <4>2
    <3>3. CASE x + advance >= WindowSize
      <4>1. Base + advance + x \notin delivered
        BY <1>0, <2>4, <2>9, <3>3, WindowConstants DEF FilterInv, DeliveredIsBelow, BaseIsBehind
      <4>2. ~ (x + advance < WindowSize)
        BY <2>4, <3>3, WindowConstants
      <4>. QED
        BY <2>8, <3>1, <4>1, <4>2
    <3>. QED
      BY <2>4, <3>2, <3>3, WindowConstants
  <2>11. p.data \notin delivered
    <3>1. CASE highest < FirstGroup
      BY <3>1 DEF FilterInv, BaseIsBehind
    <3>2. CASE highest >= FirstGroup
      <4>1. CASE offset < WindowSize
        <5>1. offset \in 0 .. WindowSize - 1 /\ Base + offset = p.data
          BY <1>0, <2>3, <2>9, <4>1, WindowConstants
        <5>2. ~ BitIsSet(unsequenced_window, offset)
          BY <1>3, <3>2, <4>1 DEF IsDuplicate, FilterInv, BaseIsBehind, offset
        <5>. QED
          BY <1>0, <5>1, <5>2 DEF FilterInv, BitsAreDelivered
      <4>2. CASE offset >= WindowSize
        <5>1. p.data > highest
          BY <1>0, <2>3, <2>9, <3>2, <4>2, WindowConstants DEF FilterInv, BaseIsBehind
        <5>. QED
          BY <1>0, <5>1, WindowConstants DEF FilterInv, DeliveredIsBelow
      <4>. QED
        BY <2>3, <4>1, <4>2, WindowConstants
    <3>. QED
      BY <1>0, <3>1, <3>2, WindowConstants
  <2>12. ~ repeated'
    BY <2>1, <2>11 DEF FilterInv
  <2>13. /\ highest' \in FirstGroup .. sent - 1 /\ highest' >= highest /\ highest' >= p.data
         /\ highest' = p.data \/ highest' = highest
    BY <1>0, <2>1, WindowConstants
  <2>14. BaseIsBehind'
    <3>1. Base' \in Nat
      BY <2>4, <2>5, <2>9
    <3>2. Base' = 0 \/ Base' + half <= highest'
      BY <1>0, <2>3, <2>4, <2>5, <2>9, <2>13, WindowConstants DEF FilterInv, BaseIsBehind
    <3>3. highest' < Base' + WindowSize
      <4>1. p.data < Base' + WindowSize
        BY <1>0, <2>4, <2>5, <2>6, <2>9, WindowConstants
      <4>2. highest >= FirstGroup => highest < Base' + WindowSize
        BY <1>0, <2>4, <2>5, <2>9, WindowConstants DEF FilterInv, BaseIsBehind
      <4>. QED
        BY <1>0, <2>13, <4>1, <4>2, WindowConstants
    <3>4. sent' <= highest' + MaxGap + 1
      <4>1. sent' = sent /\ sent <= highest + MaxGap + 1
        BY <1>0 DEF FilterInv, BaseIsBehind
      <4>2. sent \in Int /\ highest \in Int /\ highest' \in Int /\ highest' >= highest /\ MaxGap \in Int
        BY <1>0, <2>13, WindowConstants
      <4>3. \A n, x, y, g \in Int : n <= x + g + 1 /\ y >= x => n <= y + g + 1
        OBVIOUS
      <4>4. sent <= highest' + MaxGap + 1
        BY <4>1, <4>2, <4>3
      <4>. QED
        BY <4>1, <4>4
    <3>5. ~ (highest' < FirstGroup)
      BY <1>0, <2>13, WindowConstants
    <3>. QED
      BY <2>8, <3>1, <3>2, <3>3, <3>4, <3>5 DEF BaseIsBehind
  <2>15. UnsequencedTypeOK'
    <3>1. highest' \in FirstGroup - 1 .. sent' - 1
      BY <1>0, <2>13, WindowConstants
    <3>2. delivered' \subseteq FirstGroup .. sent' - 1
      BY <1>0, <2>1
    <3>3. repeated' \in BOOLEAN
      BY <2>1
    <3>. QED
      BY <1>0, <2>1, <2>5, <2>8, <3>1, <3>2, <3>3 DEF FilterInv, UnsequencedTypeOK, Window
  <2>16. DeliveredIsBelow'
    BY <1>0, <2>1, <2>13, WindowConstants DEF FilterInv, DeliveredIsBelow
  <2>17. WireIsRecent'
    BY <1>0 DEF FilterInv, WireIsRecent
  <2>. QED
    BY <2>10, <2>12, <2>14, <2>15, <2>16, <2>17 DEF FilterInv
<1>. QED
  BY <1>2, <1>3

(* The invariant holds as long as the remote stays in reach.                *)
LEMMA FilterInvariant ==
    ASSUME InReach
    PROVE  UnsequencedSpec => []FilterInv
<1>1. UnsequencedInit => FilterInv
  BY InitFilterInv
<1>2. FilterInv /\ [UnsequencedNext]_unsequenced_vars => FilterInv'
  <2>. SUFFICES ASSUME FilterInv, [UnsequencedNext]_unsequenced_vars PROVE FilterInv'
    OBVIOUS
  <2>1. CASE UNCHANGED unsequenced_vars
    BY <2>1 DEF unsequenced_vars, FilterInv, UnsequencedTypeOK, WireIsRecent, BaseIsBehind, BitsAreDelivered,
          DeliveredIsBelow, Base, BitIsSet
  <2>. QED
    BY <2>1, SendGroupKeepsInv, ReceiveKeepsInv DEF UnsequencedNext
<1>. QED
  BY <1>1, <1>2, PTL DEF UnsequencedSpec

(* Bit of the window and delivery agree for every packet in the network     *)
(* whose number falls into the window, after any number of slides of whole  *)
(* words and of bits and of wraps of the group number.                      *)
THEOREM WindowExact ==
    ASSUME InReach
    PROVE  UnsequencedSpec => []WindowInv
<1>1. FilterInv => WindowInv
  <2>. SUFFICES ASSUME FilterInv, NEW p \in wire,
                       WrappingSub(p.group, incoming_unsequenced_group) < WindowSize
                PROVE  BitIsSet(unsequenced_window, WrappingSub(p.group, incoming_unsequenced_group))
                          <=> p.data \in delivered
    BY DEF FilterInv, WindowInv, WindowIsExact
  <2>. DEFINE offset == WrappingSub(p.group, incoming_unsequenced_group)
  <2>1. /\ p.data \in Int /\ sent - p.data <= MaxDelay
    BY WindowConstants DEF FilterInv, UnsequencedTypeOK, WireIsRecent
  <2>2. offset \in Nat /\ (p.data >= Base => offset = p.data - Base) /\ p.data >= Base
    BY <2>1, OffsetIsDistance, BaseIsNear, WindowConstants
  <2>. HIDE DEF offset
  <2>3. offset \in 0 .. WindowSize - 1 /\ Base + offset = p.data
    BY <2>1, <2>2, BaseIsNear, WindowConstants DEF offset
  <2>4. BitIsSet(unsequenced_window, offset) <=> p.data \in delivered
    BY <2>1, <2>3 DEF FilterInv, BitsAreDelivered
  <2>. QED
    BY <2>4 DEF offset
<1>. QED
  BY <1>1, FilterInvariant, PTL

(* is_duplicate and mark_received together let no packet through twice,     *)
(* whatever order packets and their copies come in.                         *)
THEOREM NoDuplicates ==
    ASSUME InReach
    PROVE  UnsequencedSpec => []DeliveredAtMostOnce
<1>1. FilterInv => DeliveredAtMostOnce
  BY DEF FilterInv, DeliveredAtMostOnce
<1>. QED
  BY <1>1, FilterInvariant, PTL

(* is_duplicate lets the first copy of a packet through that is ahead of    *)
(* the others or at most half a window late.                                *)
THEOREM LateAccepted ==
    ASSUME InReach
    PROVE  UnsequencedSpec => []LatePacketIsAccepted
<1>1. FilterInv => LatePacketIsAccepted
  <2>. SUFFICES ASSUME FilterInv, NEW p \in wire, p.data \notin delivered,
                       highest - p.data <= WindowSize \div 2
                PROVE  ~ IsDuplicate(p.group)
    BY DEF LatePacketIsAccepted
  <2>. DEFINE offset == WrappingSub(p.group, incoming_unsequenced_group)
  <2>1. p.data \in Nat /\ sent - p.data <= MaxDelay
    BY WindowConstants DEF FilterInv, UnsequencedTypeOK, WireIsRecent
  <2>2. p.data >= Base
    BY <2>1, BaseIsNear, WindowConstants DEF FilterInv, BaseIsBehind
  <2>3. offset \in Nat /\ offset = p.data - Base /\ offset <= HalfRange
    BY <2>2, OffsetIsDistance
  <2>. HIDE DEF offset
  <2>4. ~ IsOld(offset)
    BY <2>3, WindowConstants DEF IsOld
  <2>5. offset < WindowSize => ~ BitIsSet(unsequenced_window, offset)
    <3>. SUFFICES ASSUME offset < WindowSize PROVE ~ BitIsSet(unsequenced_window, offset)
      OBVIOUS
    <3>1. offset \in 0 .. WindowSize - 1 /\ Base + offset = p.data
      BY <2>1, <2>3, BaseIsNear, WindowConstants
    <3>. QED
      BY <2>1, <3>1 DEF FilterInv, BitsAreDelivered
  <2>. QED
    BY <2>4, <2>5 DEF IsDuplicate, offset
<1>. QED
  BY <1>1, FilterInvariant, PTL

-----------------------------------------------------------------------------
(* Numbers on the circle. *)

(* The constants.                                                           *)
LEMMA ConstantTypes ==
    /\ HalfRange \in Nat /\ HalfRange >= 3 /\ Modulus = 2 * HalfRange
    /\ Redundant \in Nat /\ Redundant >= 1
    /\ Size = Redundant + 1 /\ Empty = -1 /\ MaxLag \in Nat /\ MaxLag >= 1
    /\ MaxLag + Size <= HalfRange
    /\ SequenceNumber = 0 .. 2 * HalfRange - 1
BY HalfRangeAssumption, RedundantAssumption, AcknowledgmentAssumption
   DEF Modulus, Size, Empty, SequenceNumber

(* Those of them that bound distances.                                      *)
LEMMA Bounds ==
    /\ HalfRange \in Nat /\ Modulus = 2 * HalfRange /\ Redundant \in Nat /\ Redundant >= 1
    /\ Size = Redundant + 1 /\ MaxLag \in Nat /\ MaxLag >= 1 /\ MaxLag + Size <= HalfRange
BY ConstantTypes

(* The sequence number k before that of an absolute number.                 *)
LEMMA SequenceBefore ==
    ASSUME NEW n \in Nat, NEW k \in 0 .. n, k < Modulus
    PROVE  /\ n % Modulus \in SequenceNumber
           /\ (n - k) % Modulus = WrappingSub(n % Modulus, k)
<1>. DEFINE q == n \div Modulus
            r == n % Modulus
<1>1. q \in Nat /\ r \in 0 .. Modulus - 1 /\ n = Modulus * q + r
  BY ConstantTypes, Facts!Division
<1>. HIDE DEF q, r
<1>2. n - k \in Nat /\ Modulus \in Nat /\ Modulus > 0
  BY ConstantTypes
<1>3. CASE r >= k
  <2>1. n - k = Modulus * q + (r - k) /\ r - k \in 0 .. Modulus - 1
    BY <1>1, <1>2, <1>3
  <2>2. (n - k) % Modulus = r - k
    BY <1>1, <1>2, <2>1, Facts!DivisionIsUnique
  <2>. QED
    BY <1>1, <1>3, <2>2, ConstantTypes DEF WrappingSub, r
<1>4. CASE r < k
  <2>1. n - k = Modulus * (q - 1) + (r - k + Modulus) /\ r - k + Modulus \in 0 .. Modulus - 1
    BY <1>1, <1>2, <1>4
  <2>. DEFINE p == q - 1
              t == r - k + Modulus
  <2>2. p \in Int /\ t \in 0 .. Modulus - 1 /\ n - k = Modulus * p + t
    BY <1>1, <2>1
  <2>. HIDE DEF p, t
  <2>3. (n - k) % Modulus = t
    BY <1>2, <2>2, Facts!DivisionIsUnique
  <2>. QED
    BY <1>1, <1>4, <2>3, ConstantTypes DEF WrappingSub, r, t
<1>. QED
  BY <1>1, <1>3, <1>4

(* The next sequence number is that of the next absolute number.            *)
LEMMA SequenceAfter ==
    ASSUME NEW n \in Nat
    PROVE  (n + 1) % Modulus = WrappingAdd(n % Modulus, 1)
<1>1. n + 1 \in Nat /\ 1 \in 0 .. n + 1 /\ 1 < Modulus /\ 0 < Modulus /\ (n + 1) - 1 = n
  BY ConstantTypes
<1>2. /\ (n + 1) % Modulus \in SequenceNumber
      /\ n % Modulus = WrappingSub((n + 1) % Modulus, 1)
  BY <1>1, SequenceBefore
<1>. DEFINE a == (n + 1) % Modulus
            b == n % Modulus
<1>. HIDE DEF a, b
<1>3. a \in SequenceNumber /\ b = WrappingSub(a, 1)
  BY <1>2 DEF a, b
<1>4. a = WrappingAdd(b, 1)
  BY <1>3, ConstantTypes DEF WrappingSub, WrappingAdd
<1>. QED
  BY <1>4 DEF a, b

(* wrapping_sub stays on the circle.                                        *)
LEMMA DistanceType ==
    ASSUME NEW a \in SequenceNumber, NEW b \in SequenceNumber
    PROVE  WrappingSub(a, b) \in SequenceNumber
BY ConstantTypes DEF WrappingSub

(* The distance from b grows by one when a moves on by one.                 *)
LEMMA DistanceOfNext ==
    ASSUME NEW a \in SequenceNumber, NEW b \in SequenceNumber
    PROVE  /\ WrappingAdd(a, 1) \in SequenceNumber
           /\ WrappingSub(WrappingAdd(a, 1), 1) = a
           /\ WrappingSub(a, b) < Modulus - 1 =>
                WrappingSub(WrappingAdd(a, 1), b) = WrappingSub(a, b) + 1
BY ConstantTypes DEF WrappingSub, WrappingAdd

(* Distances to two numbers behind a give the distance between them.        *)
LEMMA DistanceBetween ==
    ASSUME NEW a \in SequenceNumber, NEW b \in SequenceNumber, NEW c \in SequenceNumber
    PROVE  /\ WrappingSub(a, b) <= WrappingSub(a, c) =>
                WrappingSub(b, c) = WrappingSub(a, c) - WrappingSub(a, b)
           /\ WrappingSub(a, WrappingSub(a, b)) = b
BY ConstantTypes DEF WrappingSub

(* wrapping_add undoes wrapping_sub.                                        *)
LEMMA DistanceAdded ==
    ASSUME NEW a \in SequenceNumber, NEW b \in SequenceNumber
    PROVE  a = WrappingAdd(b, WrappingSub(a, b))
BY ConstantTypes DEF WrappingSub, WrappingAdd

(* A number k behind the next one, counted from the newest one, when there  *)
(* is no wrap between them.                                                 *)
LEMMA BehindNewest ==
    ASSUME NEW a \in SequenceNumber, NEW s \in SequenceNumber, WrappingSub(a, s) >= 1,
           WrappingSub(a, s) - 1 <= WrappingSub(a, 1)
    PROVE  s = WrappingSub(a, 1) - (WrappingSub(a, s) - 1)
BY ConstantTypes DEF WrappingSub

(* One further behind a than b is the number before b.                      *)
LEMMA DistanceBefore ==
    ASSUME NEW a \in SequenceNumber, NEW b \in SequenceNumber, NEW k \in 1 .. Modulus - 1,
           WrappingSub(a, b) = k - 1
    PROVE  WrappingSub(a, k) = WrappingSub(b, 1) /\ WrappingSub(b, 1) \in SequenceNumber
BY ConstantTypes DEF WrappingSub

(* Less than half the circle ahead is later, and not earlier.               *)
LEMMA AheadIsLater ==
    ASSUME NEW a \in SequenceNumber, NEW b \in SequenceNumber,
           WrappingSub(a, b) \in 1 .. HalfRange - 1
    PROVE  SequenceGreaterThan(a, b) /\ ~ SequenceGreaterThan(b, a)
BY ConstantTypes DEF SequenceGreaterThan, WrappingSub

(* A number is not later than itself.                                       *)
LEMMA SameIsNotLater ==
    ASSUME NEW a \in SequenceNumber, NEW b \in SequenceNumber, WrappingSub(a, b) = 0
    PROVE  ~ SequenceGreaterThan(a, b) /\ ~ SequenceGreaterThan(b, a) /\ a = b
BY ConstantTypes DEF SequenceGreaterThan, WrappingSub

(* Size consecutive sequence numbers have different slots, unless the       *)
(* number wraps between them.                                               *)
LEMMA SlotsAreDistinct ==
    ASSUME NEW a \in Nat, NEW b \in Nat, a < b, b - a < Size
    PROVE  Index(a) # Index(b)
<1>. DEFINE p == a \div Size
            q == b \div Size
            r == a % Size
            s == b % Size
<1>1. Size \in Nat /\ Size > 0
  BY ConstantTypes
<1>2. /\ p \in Nat /\ r \in 0 .. Size - 1 /\ a = Size * p + r
      /\ q \in Nat /\ s \in 0 .. Size - 1 /\ b = Size * q + s
  BY <1>1, Facts!Division
<1>. SUFFICES ASSUME r = s PROVE FALSE
  BY DEF Index
<1>. HIDE DEF p, q, r, s
<1>3. p < q
  <2>. SUFFICES ASSUME q <= p PROVE FALSE
    BY <1>2
  <2>1. PICK k \in Nat : p = q + k
    <3>1. p - q \in Nat /\ p = q + (p - q)
      BY <1>2
    <3>. QED
      BY <3>1
  <2>2. Size * p = Size * q + Size * k /\ Size * k \in Nat /\ Size * q \in Nat
    BY <1>1, <1>2, <2>1
  <2>. QED
    BY <1>1, <1>2, <2>2
<1>4. PICK k \in Nat : q = p + 1 + k
  <2>1. q - p - 1 \in Nat /\ q = p + 1 + (q - p - 1)
    BY <1>2, <1>3
  <2>. QED
    BY <2>1
<1>5. Size * q = Size * p + Size + Size * k /\ Size * k \in Nat /\ Size * p \in Nat
  BY <1>1, <1>2, <1>4
<1>. QED
  BY <1>1, <1>2, <1>5

(* A slot is a slot.                                                        *)
LEMMA SlotType ==
    ASSUME NEW s \in Nat
    PROVE  Index(s) \in 0 .. Size - 1
BY ConstantTypes, Facts!Division DEF Index

-----------------------------------------------------------------------------
(* SequenceBuffer. *)

Buffer == [sequence_num : SequenceNumber,
           entry_sequences : [0 .. Size - 1 -> SequenceNumber \cup {Empty}]]

(* insert keeps the types of a buffer.                                      *)
LEMMA InsertType ==
    ASSUME NEW b \in Buffer, NEW s \in SequenceNumber
    PROVE  Insert(b, s) \in Buffer
<1>. DEFINE c == AdvanceSequence(b, s)
            e == RemoveEntries(b, s)
<1>0. s \in Nat /\ Index(s) \in 0 .. Size - 1
  BY ConstantTypes, SlotType
<1>1. e \in Buffer
  BY DEF RemoveEntries, Buffer
<1>2. WrappingAdd(s, 1) \in SequenceNumber
  BY ConstantTypes DEF WrappingAdd
<1>. HIDE DEF e
<1>3. c \in Buffer
  BY <1>1, <1>2 DEF AdvanceSequence, e, Buffer
<1>. HIDE DEF c
<1>4. [c EXCEPT !.entry_sequences[Index(s)] = s] \in Buffer
  BY <1>0, <1>3 DEF Buffer
<1>. QED
  BY <1>4 DEF Insert, c

(* A number ahead of the next one is not too old.                           *)
LEMMA AheadIsNotTooOld ==
    ASSUME NEW s \in SequenceNumber, NEW top \in SequenceNumber,
           WrappingSub(s, top) + Size < HalfRange
    PROVE  ~ SequenceLessThan(s, WrappingSub(top, Size))
<1>1. /\ s \in Int /\ s >= 0 /\ s < Modulus /\ top \in Int /\ top >= 0 /\ top < Modulus
  BY ConstantTypes
<1>2. CASE s >= top
  BY <1>1, <1>2, Bounds DEF SequenceLessThan, SequenceGreaterThan, WrappingSub
<1>3. CASE s < top
  BY <1>1, <1>3, Bounds DEF SequenceLessThan, SequenceGreaterThan, WrappingSub
<1>. QED
  BY <1>1, <1>2, <1>3

(* The number after s is one ahead of it.                                   *)
LEMMA NextIsOneAhead ==
    ASSUME NEW s \in SequenceNumber
    PROVE  WrappingSub(WrappingAdd(s, 1), s) = 1
<1>1. s \in Int /\ s >= 0 /\ s < Modulus
  BY ConstantTypes
<1>. QED
  BY <1>1, Bounds DEF WrappingSub, WrappingAdd

(* Going d ahead without a wrap.                                            *)
LEMMA AheadWithoutWrap ==
    ASSUME NEW top \in SequenceNumber, NEW s \in SequenceNumber, NEW d \in Nat,
           s = WrappingAdd(top, d), s >= d + 1
    PROVE  WrappingSub(top, 1) = s - d - 1
<1>1. top \in Int /\ top >= 0 /\ top < Modulus /\ s \in Int
  BY ConstantTypes
<1>. QED
  BY <1>1, Bounds DEF WrappingSub, WrappingAdd

(* insert of a number at or ahead of the next one: the numbers passed over  *)
(* are removed, the others stay, and the number is in its slot.             *)
LEMMA InsertAhead ==
    ASSUME NEW b \in Buffer, NEW s \in SequenceNumber, NEW d \in Nat,
           d = WrappingSub(s, b.sequence_num), d + Size < HalfRange
    PROVE  LET c == Insert(b, s)
           IN  /\ ~ TooOld(b, s) /\ c.sequence_num = WrappingAdd(s, 1)
               /\ c.entry_sequences[Index(s)] = s
               /\ \A i \in 0 .. Size - 1 : i # Index(s) =>
                    IF d >= Size \/ b.entry_sequences[i] \in
                                      {WrappingAdd(b.sequence_num, j) : j \in 0 .. d}
                    THEN c.entry_sequences[i] = Empty
                    ELSE c.entry_sequences[i] = b.entry_sequences[i]
<1>0. b.sequence_num \in SequenceNumber /\ Index(s) \in 0 .. Size - 1
  BY ConstantTypes, SlotType DEF Buffer
<1>1. ~ TooOld(b, s)
  BY <1>0, AheadIsNotTooOld DEF TooOld
<1>2. SequenceGreaterThan(WrappingAdd(s, 1), b.sequence_num)
  <2>1. d < Modulus - 1 /\ d + 1 \in 1 .. HalfRange - 1
    BY ConstantTypes
  <2>2. /\ WrappingAdd(s, 1) \in SequenceNumber
        /\ WrappingSub(WrappingAdd(s, 1), b.sequence_num) = d + 1
    BY <1>0, <2>1, DistanceOfNext
  <2>. QED
    BY <1>0, <2>1, <2>2, AheadIsLater
<1>. DEFINE passed == {WrappingAdd(b.sequence_num, j) : j \in 0 .. d}
            e == RemoveEntries(b, s)
            c == [e EXCEPT !.sequence_num = WrappingAdd(s, 1)]
<1>3. e = [b EXCEPT !.entry_sequences =
             [i \in 0 .. Size - 1 |-> IF d >= Size \/ @[i] \in passed THEN Empty ELSE @[i]]]
  BY DEF RemoveEntries
<1>4. e \in [sequence_num : SequenceNumber, entry_sequences : [0 .. Size - 1 -> SequenceNumber \cup {Empty}]]
      /\ \A i \in 0 .. Size - 1 :
           e.entry_sequences[i] = IF d >= Size \/ b.entry_sequences[i] \in passed
                                  THEN Empty ELSE b.entry_sequences[i]
  BY <1>3 DEF Buffer
<1>. HIDE DEF e, passed
<1>5. Insert(b, s) = [c EXCEPT !.entry_sequences[Index(s)] = s]
  BY <1>1, <1>2 DEF Insert, AdvanceSequence, e
<1>. QED
  BY <1>0, <1>1, <1>4, <1>5 DEF passed

(* insert of a number behind the next one: too old, or set in its slot.     *)
LEMMA InsertBehind ==
    ASSUME NEW b \in Buffer, NEW s \in SequenceNumber, NEW k \in Nat,
           k = WrappingSub(b.sequence_num, s), k >= 1, k < HalfRange
    PROVE  /\ TooOld(b, s) <=> k > Size
           /\ k > Size => Insert(b, s) = b
           /\ k <= Size =>
                LET c == Insert(b, s)
                IN  /\ c.sequence_num = b.sequence_num
                    /\ \A i \in 0 .. Size - 1 :
                         c.entry_sequences[i] = IF i = Index(s) THEN s ELSE b.entry_sequences[i]
<1>0. b.sequence_num \in SequenceNumber /\ Index(s) \in 0 .. Size - 1
  BY ConstantTypes, SlotType DEF Buffer
<1>1. TooOld(b, s) <=> k > Size
  <2>. DEFINE t == WrappingSub(b.sequence_num, Size)
  <2>0. Size \in SequenceNumber /\ t \in SequenceNumber
    <3>1. Size \in SequenceNumber
      BY ConstantTypes
    <3>. QED
      BY <1>0, <3>1, DistanceType
  <2>1. t \in SequenceNumber /\ (k > Size => WrappingSub(t, s) = k - Size)
        /\ (k <= Size => WrappingSub(s, t) = Size - k)
    <3>1. WrappingSub(b.sequence_num, t) = Size
      BY <1>0, <2>0, DistanceBetween
    <3>. HIDE DEF t
    <3>. QED
      BY <1>0, <2>0, <3>1, DistanceBetween, ConstantTypes
  <2>2. TooOld(b, s) <=> SequenceGreaterThan(t, s)
    BY DEF TooOld, SequenceLessThan
  <2>. HIDE DEF t
  <2>3. k > Size => SequenceGreaterThan(t, s)
    BY <2>1, AheadIsLater, ConstantTypes
  <2>4. k < Size => ~ SequenceGreaterThan(t, s)
    BY <2>1, AheadIsLater, ConstantTypes
  <2>5. k = Size => ~ SequenceGreaterThan(t, s)
    BY <2>1, SameIsNotLater, ConstantTypes
  <2>. QED
    BY <2>2, <2>3, <2>4, <2>5, ConstantTypes
<1>2. ~ SequenceGreaterThan(WrappingAdd(s, 1), b.sequence_num)
  BY <1>0, ConstantTypes DEF SequenceGreaterThan, WrappingSub, WrappingAdd
<1>3. k <= Size => Insert(b, s) = [b EXCEPT !.entry_sequences[Index(s)] = s]
  BY <1>1, <1>2, ConstantTypes DEF Insert, AdvanceSequence
<1>. QED
  BY <1>0, <1>1, <1>3, ConstantTypes DEF Insert, Buffer

(* The entries of the last Size numbers before T were received.             *)
BufferIsSound(b, T, received) ==
    \A i \in 0 .. Size - 1 :
        LET e == b.entry_sequences[i]
            k == WrappingSub(b.sequence_num, e)
        IN  e # Empty /\ k \in 1 .. Size => T - k \in received

(* Those of kept within Redundant of the newest number have their entries,  *)
(* if the number has not wrapped between them or just before them.          *)
BufferIsComplete(b, T, kept) ==
    \A n \in kept :
        LET i == T - 1 - n
            v == WrappingSub(b.sequence_num, 1)
        IN  i \in 0 .. Redundant /\ i <= v /\ (v - i >= Redundant \/ T - 1 = v) =>
              b.entry_sequences[Index(v - i)] = v - i

(* Receiving the newest number keeps both.                                  *)
LEMMA InsertAheadKeeps ==
    ASSUME NEW b \in Buffer, NEW s \in SequenceNumber, NEW T \in Nat, NEW n \in Nat, n >= T,
           WrappingSub(s, b.sequence_num) = n - T, n - T + Size < HalfRange,
           NEW received, NEW kept \in SUBSET Nat, \A m \in kept : m < T,
           BufferIsSound(b, T, received), BufferIsComplete(b, T, kept)
    PROVE  /\ BufferIsSound(Insert(b, s), n + 1, received \cup {n})
           /\ BufferIsComplete(Insert(b, s), n + 1, kept \cup {n})
           /\ Insert(b, s).sequence_num = WrappingAdd(s, 1) /\ ~ TooOld(b, s)
<1>. DEFINE c == Insert(b, s)
            d == n - T
            top == b.sequence_num
            passed == {WrappingAdd(top, j) : j \in 0 .. d}
<1>0. /\ top \in SequenceNumber /\ s \in Nat /\ d \in Nat /\ d + Size < HalfRange
      /\ Index(s) \in 0 .. Size - 1
      /\ \A i \in 0 .. Size - 1 : b.entry_sequences[i] \in SequenceNumber \cup {Empty}
  <2>1. top \in SequenceNumber
        /\ \A i \in 0 .. Size - 1 : b.entry_sequences[i] \in SequenceNumber \cup {Empty}
    BY DEF Buffer
  <2>2. s \in Nat
    BY ConstantTypes
  <2>3. Index(s) \in 0 .. Size - 1
    BY <2>2, SlotType
  <2>. QED
    BY <2>1, <2>2, <2>3
<1>1. /\ ~ TooOld(b, s) /\ c.sequence_num = WrappingAdd(s, 1)
      /\ c.entry_sequences[Index(s)] = s
      /\ \A i \in 0 .. Size - 1 : i # Index(s) =>
           IF d >= Size \/ b.entry_sequences[i] \in passed
           THEN c.entry_sequences[i] = Empty
           ELSE c.entry_sequences[i] = b.entry_sequences[i]
  <2>1. d = WrappingSub(s, b.sequence_num)
    OBVIOUS
  <2>. HIDE DEF d
  <2>. QED
    BY <1>0, <2>1, InsertAhead
<1>2. WrappingSub(c.sequence_num, 1) = s /\ WrappingAdd(s, 1) \in SequenceNumber
  BY <1>0, <1>1, DistanceOfNext
<1>3. s = WrappingAdd(top, d) /\ WrappingSub(s, top) = d
  <2>1. WrappingSub(s, top) = d
    OBVIOUS
  <2>. HIDE DEF d, top
  <2>. QED
    BY <1>0, <2>1, DistanceAdded
<1>. HIDE DEF c, d, top, passed
<1>4. n = T + d
  BY DEF d
<1>5. BufferIsSound(c, n + 1, received \cup {n})
  <2>. SUFFICES ASSUME NEW i \in 0 .. Size - 1, c.entry_sequences[i] # Empty,
                       WrappingSub(c.sequence_num, c.entry_sequences[i]) \in 1 .. Size
                PROVE  LET k == WrappingSub(c.sequence_num, c.entry_sequences[i])
                       IN  n + 1 - k \in received \cup {n}
    BY DEF BufferIsSound
  <2>1. CASE i = Index(s)
    <3>1. WrappingSub(WrappingAdd(s, 1), s) = 1
      BY NextIsOneAhead
    <3>. QED
      BY <1>1, <2>1, <3>1
  <2>2. CASE i # Index(s)
    <3>. DEFINE e == b.entry_sequences[i]
                k == WrappingSub(top, e)
                kk == WrappingSub(WrappingAdd(s, 1), e)
    <3>1. c.entry_sequences[i] = e /\ e \notin passed /\ e # Empty /\ e \in SequenceNumber
      BY <1>0, <1>1, <2>2
    <3>. HIDE DEF e
    <3>2. kk \in 1 .. Size
      BY <1>1, <3>1
    <3>3. \A j \in 0 .. d : e # WrappingAdd(top, j)
      BY <3>1 DEF passed
    <3>4. k \in 1 .. Size /\ kk = k + d + 1
      <4>1. WrappingSub(e, top) \in 0 .. Modulus - 1 /\ e = WrappingAdd(top, WrappingSub(e, top))
        <5>1. WrappingSub(e, top) \in SequenceNumber /\ e = WrappingAdd(top, WrappingSub(e, top))
          BY <1>0, <3>1, DistanceAdded, DistanceType
        <5>. QED
          BY <5>1 DEF SequenceNumber
      <4>2. WrappingSub(e, top) > d
        BY <1>0, <3>3, <4>1, ConstantTypes
      <4>. QED
        BY <1>0, <1>3, <3>1, <3>2, <4>2, ConstantTypes DEF WrappingSub, WrappingAdd
    <3>5. T - k \in received
      BY <3>1, <3>4 DEF BufferIsSound, e, top
    <3>6. n + 1 - kk = T - k
      <4>. HIDE DEF k, kk
      <4>. QED
        BY <1>0, <1>4, <3>4, ConstantTypes
    <3>. QED
      BY <1>1, <3>1, <3>5, <3>6
  <2>. QED
    BY <2>1, <2>2
<1>6. BufferIsComplete(c, n + 1, kept \cup {n})
  <2>. SUFFICES ASSUME NEW m \in kept \cup {n}, n - m \in 0 .. Redundant, n - m <= s,
                       s - (n - m) >= Redundant \/ n = s
                PROVE  c.entry_sequences[Index(s - (n - m))] = s - (n - m)
    <3>1. n + 1 - 1 = n /\ \A m \in Int : n + 1 - 1 - m = n - m
      OBVIOUS
    <3>2. kept \cup {n} \subseteq Int
      OBVIOUS
    <3>. QED
      BY <1>2, <3>1, <3>2 DEF BufferIsComplete
  <2>1. CASE m = n
    BY <1>0, <1>1, <2>1
  <2>2. CASE m \in kept
    <3>. DEFINE j == n - m
                i == T - 1 - m
                v == WrappingSub(top, 1)
                x == s - j
    <3>1. /\ m \in Nat /\ m < T /\ i \in 0 .. Redundant /\ j = i + d + 1 /\ d < Size
          /\ j >= 1 /\ j <= Redundant /\ j <= s /\ x \in Nat /\ x < s
      <4>1. m \in Nat /\ m < T /\ d \in Nat /\ n = T + d /\ s \in Nat
        BY <1>0, <1>4, <2>2
      <4>2. n - m \in 0 .. Redundant /\ n - m <= s
        OBVIOUS
      <4>3. Redundant \in Nat /\ Size = Redundant + 1
        BY Bounds
      <4>. QED
        BY <4>1, <4>2, <4>3
    <3>. HIDE DEF i, j
    <3>2. v = s - d - 1 /\ v - i = x /\ i <= v
      <4>1. s >= d + 1
        BY <1>0, <3>1, Bounds
      <4>2. v = s - d - 1
        BY <1>0, <1>3, <4>1, AheadWithoutWrap
      <4>. HIDE DEF v
      <4>3. s \in Int /\ d \in Int /\ i \in Int /\ j \in Int
        BY <1>0, <3>1
      <4>. QED
        BY <3>1, <4>2, <4>3
    <3>3. v - i >= Redundant \/ T - 1 = v
      <4>1. CASE s - j >= Redundant
        BY <3>2, <4>1
      <4>2. CASE n = s
        <5>1. T \in Int /\ d \in Int /\ s = T + d /\ v = s - d - 1
          BY <1>0, <1>4, <3>2, <4>2
        <5>. HIDE DEF v
        <5>. QED
          BY <5>1
      <4>. QED
        BY <4>1, <4>2 DEF j
    <3>4. b.entry_sequences[Index(v - i)] = v - i
      BY <2>2, <3>1, <3>2, <3>3 DEF BufferIsComplete, i, top
    <3>5. Index(x) \in 0 .. Size - 1 /\ Index(x) # Index(s)
      <4>1. s - x < Size
        BY <1>0, <3>1, Bounds
      <4>. HIDE DEF x
      <4>. QED
        BY <1>0, <3>1, <4>1, SlotsAreDistinct, SlotType
    <3>6. x \notin passed
      <4>1. \A y \in 0 .. d : x # WrappingAdd(top, y)
        <5>1. /\ top \in 0 .. 2 * HalfRange - 1 /\ s \in Nat /\ d \in Nat /\ x \in Nat
              /\ i \in Nat /\ x = s - (i + d + 1) /\ s = WrappingAdd(top, d)
          BY <1>0, <1>3, <3>1, ConstantTypes
        <5>. HIDE DEF top, d, x
        <5>. QED
          BY <5>1, Bounds DEF WrappingAdd
      <4>. QED
        BY <4>1 DEF passed
    <3>7. b.entry_sequences[Index(x)] = x
      BY <3>2, <3>4
    <3>8. ~ (d >= Size)
      BY <1>0, <3>1, ConstantTypes
    <3>. QED
      BY <1>1, <3>5, <3>6, <3>7, <3>8 DEF j
  <2>. QED
    BY <2>1, <2>2
<1>. QED
  BY <1>1, <1>5, <1>6 DEF c

(* Receiving a number again or late keeps both.                             *)
LEMMA InsertBehindKeeps ==
    ASSUME NEW b \in Buffer, NEW s \in SequenceNumber, NEW T \in Nat, NEW n \in Nat, n < T,
           WrappingSub(b.sequence_num, s) = T - n, T - n < HalfRange,
           NEW received, NEW kept \in SUBSET Nat, \A m \in kept : m < T,
           BufferIsSound(b, T, received), BufferIsComplete(b, T, kept)
    PROVE  /\ BufferIsSound(Insert(b, s), T, received \cup {n})
           /\ BufferIsComplete(Insert(b, s), T, kept \cup {n})
           /\ Insert(b, s).sequence_num = b.sequence_num
           /\ TooOld(b, s) <=> T - n > Size
<1>. DEFINE c == Insert(b, s)
            k == T - n
            top == b.sequence_num
            v == WrappingSub(top, 1)
<1>0. /\ top \in SequenceNumber /\ s \in Nat /\ k \in Nat /\ k >= 1 /\ k < HalfRange
      /\ Index(s) \in 0 .. Size - 1 /\ k = WrappingSub(b.sequence_num, s)
      /\ k = WrappingSub(top, s) /\ n = T - k
  BY ConstantTypes, SlotType DEF Buffer
<1>. HIDE DEF k
<1>1. /\ TooOld(b, s) <=> k > Size
      /\ k > Size => c = b
      /\ k <= Size =>
           /\ c.sequence_num = b.sequence_num
           /\ \A i \in 0 .. Size - 1 :
                c.entry_sequences[i] = IF i = Index(s) THEN s ELSE b.entry_sequences[i]
  BY <1>0, InsertBehind
<1>. HIDE DEF c, top
<1>2. c.sequence_num = b.sequence_num
  BY <1>0, <1>1, Bounds
<1>3. BufferIsSound(c, T, received \cup {n})
  <2>. SUFFICES ASSUME NEW i \in 0 .. Size - 1, c.entry_sequences[i] # Empty,
                       WrappingSub(top, c.entry_sequences[i]) \in 1 .. Size
                PROVE  LET j == WrappingSub(top, c.entry_sequences[i])
                       IN  T - j \in received \cup {n}
    BY <1>2 DEF BufferIsSound, top
  <2>1. CASE c.entry_sequences[i] = b.entry_sequences[i]
    BY <2>1 DEF BufferIsSound, top
  <2>2. CASE c.entry_sequences[i] = s
    BY <1>0, <2>2
  <2>3. CASE k > Size
    BY <1>1, <2>1, <2>3
  <2>4. CASE ~ (k > Size)
    <3>1. k <= Size
      BY <1>0, <2>4, Bounds
    <3>. QED
      BY <1>1, <2>1, <2>2, <3>1
  <2>. QED
    BY <2>3, <2>4
<1>4. BufferIsComplete(c, T, kept \cup {n})
  <2>. SUFFICES ASSUME NEW m \in kept \cup {n}, T - 1 - m \in 0 .. Redundant, T - 1 - m <= v,
                       v - (T - 1 - m) >= Redundant \/ T - 1 = v
                PROVE  c.entry_sequences[Index(v - (T - 1 - m))] = v - (T - 1 - m)
    BY <1>2 DEF BufferIsComplete, top
  <2>. DEFINE i == T - 1 - m
              x == v - i
  <2>0. v \in Nat /\ 1 \in SequenceNumber
    <3>1. 1 \in SequenceNumber
      BY ConstantTypes
    <3>2. v \in SequenceNumber
      BY <1>0, <3>1, DistanceType
    <3>. QED
      BY <3>1, <3>2 DEF SequenceNumber
  <2>1. i \in 0 .. Redundant /\ i <= v /\ x \in Nat /\ m \in Nat
        /\ (x >= Redundant \/ T - 1 = v)
    BY <2>0
  <2>a. k - 1 <= v => s = v - (k - 1)
    BY <1>0, BehindNewest
  <2>. HIDE DEF v
  <2>2. CASE m = n
    <3>1. k <= Size /\ i = k - 1
      <4>1. i = k - 1
        BY <1>0, <2>2
      <4>. HIDE DEF i
      <4>. QED
        BY <1>0, <2>1, <4>1, ConstantTypes
    <3>2. x = s
      BY <2>1, <2>a, <3>1
    <3>. QED
      BY <1>0, <1>1, <3>1, <3>2
  <2>3. CASE m \in kept /\ m # n
    <3>1. b.entry_sequences[Index(x)] = x /\ Index(x) \in 0 .. Size - 1
      BY <2>1, <2>3, SlotType DEF BufferIsComplete, top, v
    <3>2. CASE k > Size
      BY <1>1, <3>1, <3>2
    <3>3. CASE k <= Size
      <4>0. k - 1 <= Redundant /\ n = T - k /\ Redundant \in Nat /\ Size = Redundant + 1
        BY <1>0, <3>3, ConstantTypes
      <4>1. k - 1 <= v
        <5>1. CASE x >= Redundant
          BY <1>0, <2>0, <2>1, <4>0, <5>1
        <5>2. CASE T - 1 = v
          BY <1>0, <2>0, <4>0, <5>2
        <5>. QED
          BY <2>1, <5>1, <5>2
      <4>2. s = v - (k - 1)
        BY <2>a, <4>1
      <4>3. i # k - 1 /\ i \in Nat
        BY <1>0, <2>1, <2>3
      <4>. HIDE DEF i
      <4>4. (x < s /\ s - x < Size) \/ (s < x /\ x - s < Size)
        <5>1. \A y \in Int, R \in Nat : \A p, q \in 0 .. R : p # q =>
                \/ y - p < y - q /\ (y - q) - (y - p) < R + 1
                \/ y - q < y - p /\ (y - p) - (y - q) < R + 1
          OBVIOUS
        <5>2. k - 1 \in 0 .. Redundant
          BY <1>0, <4>0
        <5>. QED
          BY <2>0, <2>1, <4>0, <4>2, <4>3, <5>1, <5>2
      <4>. HIDE DEF x
      <4>5. Index(x) # Index(s)
        BY <1>0, <2>1, <4>4, SlotsAreDistinct
      <4>. QED
        BY <1>1, <3>1, <3>3, <4>5 DEF x, i
    <3>. QED
      BY <1>0, <3>2, <3>3, ConstantTypes
  <2>. QED
    BY <2>2, <2>3
<1>. QED
  BY <1>0, <1>1, <1>2, <1>3, <1>4 DEF c

-----------------------------------------------------------------------------
(* AcknowledgmentHandler. *)

Packets == UNION {[D -> Int] : D \in SUBSET SequenceNumber}

Handler == [sequence_number : SequenceNumber, remote_ack_sequence_num : SequenceNumber,
            sent_packets : Packets, received_packets : Buffer]

(* A function on sequence numbers is a table of sent packets.               *)
LEMMA PacketsTable ==
    /\ \A f \in Packets : DOMAIN f \subseteq SequenceNumber /\ \A s \in DOMAIN f : f[s] \in Int
    /\ \A D \in SUBSET SequenceNumber : \A f \in [D -> Int] : f \in Packets
<1>1. ASSUME NEW f \in Packets
      PROVE  DOMAIN f \subseteq SequenceNumber /\ \A s \in DOMAIN f : f[s] \in Int
  <2>1. PICK D \in SUBSET SequenceNumber : f \in [D -> Int]
    BY DEF Packets
  <2>. QED
    BY <2>1
<1>2. ASSUME NEW D \in SUBSET SequenceNumber, NEW f \in [D -> Int] PROVE f \in Packets
  BY DEF Packets
<1>. QED
  BY <1>1, <1>2

(* process_incoming, field by field.                                        *)
LEMMA IncomingFields ==
    ASSUME NEW h \in Handler, NEW s \in SequenceNumber, NEW mask
    PROVE  LET g == ProcessIncoming(h, s, s, mask)
           IN  /\ g \in Handler
               /\ g.sequence_number = h.sequence_number
               /\ g.remote_ack_sequence_num =
                    IF SequenceGreaterThan(s, h.remote_ack_sequence_num)
                    THEN s ELSE h.remote_ack_sequence_num
               /\ g.received_packets = Insert(h.received_packets, s)
               /\ DOMAIN g.sent_packets = DOMAIN h.sent_packets \ AckedSequences(s, mask)
               /\ \A t \in DOMAIN g.sent_packets : g.sent_packets[t] = h.sent_packets[t]
<1>. DEFINE D == DOMAIN h.sent_packets \ AckedSequences(s, mask)
            kept == [t \in D |-> h.sent_packets[t]]
            ack == IF SequenceGreaterThan(s, h.remote_ack_sequence_num)
                   THEN s ELSE h.remote_ack_sequence_num
            b == Insert(h.received_packets, s)
            g == ProcessIncoming(h, s, s, mask)
<1>1. /\ h.sent_packets \in Packets /\ h.received_packets \in Buffer
      /\ h.sequence_number \in SequenceNumber /\ h.remote_ack_sequence_num \in SequenceNumber
  BY DEF Handler
<1>2. g = [h EXCEPT !.remote_ack_sequence_num = ack, !.received_packets = b, !.sent_packets = kept]
  BY DEF ProcessIncoming
<1>3. kept \in [D -> Int] /\ D \subseteq SequenceNumber
  BY <1>1, PacketsTable
<1>4. kept \in Packets /\ DOMAIN kept = D /\ \A t \in D : kept[t] = h.sent_packets[t]
  BY <1>3, PacketsTable
<1>5. b \in Buffer /\ ack \in SequenceNumber
  BY <1>1, InsertType
<1>. HIDE DEF kept, ack, b, g, D
<1>6. /\ g \in Handler /\ g.sequence_number = h.sequence_number
      /\ g.remote_ack_sequence_num = ack /\ g.received_packets = b /\ g.sent_packets = kept
  BY <1>2, <1>4, <1>5 DEF Handler
<1>. QED
  BY <1>4, <1>6 DEF ack, b, D, g

(* process_outgoing, field by field.                                        *)
LEMMA OutgoingFields ==
    ASSUME NEW h \in Handler, NEW n \in Int
    PROVE  LET g == ProcessOutgoing(h, n)
           IN  /\ g \in Handler
               /\ g.sequence_number = WrappingAdd(h.sequence_number, 1)
               /\ g.remote_ack_sequence_num = h.remote_ack_sequence_num
               /\ g.received_packets = h.received_packets
               /\ DOMAIN g.sent_packets = DOMAIN h.sent_packets \cup {h.sequence_number}
               /\ \A t \in DOMAIN g.sent_packets :
                    g.sent_packets[t] = IF t = h.sequence_number THEN n ELSE h.sent_packets[t]
<1>. DEFINE D == DOMAIN h.sent_packets \cup {h.sequence_number}
            table == [t \in D |-> IF t = h.sequence_number THEN n ELSE h.sent_packets[t]]
            g == ProcessOutgoing(h, n)
            up == WrappingAdd(h.sequence_number, 1)
<1>1. h.sent_packets \in Packets /\ h.sequence_number \in SequenceNumber
  BY DEF Handler
<1>2. g = [h EXCEPT !.sent_packets = table, !.sequence_number = up]
  BY DEF ProcessOutgoing
<1>3. table \in [D -> Int] /\ D \subseteq SequenceNumber
  BY <1>1, PacketsTable
<1>4. table \in Packets /\ DOMAIN table = D
      /\ \A t \in D : table[t] = IF t = h.sequence_number THEN n ELSE h.sent_packets[t]
  BY <1>3, PacketsTable
<1>5. up \in SequenceNumber
  BY <1>1, DistanceOfNext
<1>. HIDE DEF D, table, g, up
<1>6. /\ g \in Handler /\ g.sequence_number = up
      /\ g.remote_ack_sequence_num = h.remote_ack_sequence_num
      /\ g.received_packets = h.received_packets /\ g.sent_packets = table
  BY <1>2, <1>4, <1>5 DEF Handler
<1>. QED
  BY <1>4, <1>6 DEF D, g, up

(* dropped_packets, field by field.                                         *)
LEMMA DroppedFields ==
    ASSUME NEW h \in Handler
    PROVE  LET g == WithoutDropped(h)
           IN  /\ g \in Handler
               /\ g.sequence_number = h.sequence_number
               /\ g.remote_ack_sequence_num = h.remote_ack_sequence_num
               /\ g.received_packets = h.received_packets
               /\ DOMAIN g.sent_packets = DOMAIN h.sent_packets \ DroppedSequences(h)
               /\ \A t \in DOMAIN g.sent_packets : g.sent_packets[t] = h.sent_packets[t]
<1>. DEFINE D == DOMAIN h.sent_packets \ DroppedSequences(h)
            kept == [t \in D |-> h.sent_packets[t]]
            g == WithoutDropped(h)
<1>1. h.sent_packets \in Packets
  BY DEF Handler
<1>2. g = [h EXCEPT !.sent_packets = kept]
  BY DEF WithoutDropped
<1>3. kept \in [D -> Int] /\ D \subseteq SequenceNumber
  BY <1>1, PacketsTable
<1>4. kept \in Packets /\ DOMAIN kept = D /\ \A t \in D : kept[t] = h.sent_packets[t]
  BY <1>3, PacketsTable
<1>. HIDE DEF D, kept, g
<1>5. /\ g \in Handler /\ g.sequence_number = h.sequence_number
      /\ g.remote_ack_sequence_num = h.remote_ack_sequence_num
      /\ g.received_packets = h.received_packets /\ g.sent_packets = kept
  BY <1>2, <1>4 DEF Handler
<1>. QED
  BY <1>4, <1>5 DEF D, g

-----------------------------------------------------------------------------
(* The two ends. *)

(* The other end is the other end.                                          *)
LEMMA TwoPeers ==
    /\ \A p \in Peers : Other(p) \in Peers /\ Other(p) # p /\ Other(Other(p)) = p
    /\ \A p, q \in Peers : q = p \/ q = Other(p)
<1>1. IsFiniteSet(Peers) /\ Cardinality(Peers) = 2
  BY AcknowledgmentAssumption
<1>2. PICK x \in Peers : TRUE
  BY <1>1, FS_EmptySet
<1>3. IsFiniteSet(Peers \ {x}) /\ Cardinality(Peers \ {x}) = 1
  <2>1. IsFiniteSet(Peers \ {x}) /\ Cardinality(Peers \ {x}) = Cardinality(Peers) - 1
    BY <1>1, <1>2, FS_RemoveElement
  <2>. QED
    BY <1>1, <2>1
<1>4. PICK y : Peers \ {x} = {y}
  BY <1>3, FS_Singleton
<1>5. x # y /\ Peers = {x, y}
  BY <1>2, <1>4
<1>6. Other(x) = y /\ Other(y) = x
  BY <1>5 DEF Other
<1>. QED
  BY <1>5, <1>6

-----------------------------------------------------------------------------
(* Absolute numbers. *)

(* The distance of two sequence numbers is that of their absolute numbers.  *)
LEMMA NumbersApart ==
    ASSUME NEW x \in Nat, NEW y \in Nat, y <= x, x - y < Modulus
    PROVE  /\ x % Modulus \in SequenceNumber /\ y % Modulus \in SequenceNumber
           /\ y % Modulus = WrappingSub(x % Modulus, x - y)
           /\ WrappingSub(x % Modulus, y % Modulus) = x - y
<1>. DEFINE k == x - y
<1>1. k \in 0 .. x /\ k < Modulus /\ x - k = y
  OBVIOUS
<1>2. k \in SequenceNumber /\ 0 \in 0 .. y /\ 0 < Modulus
  BY <1>1, ConstantTypes
<1>. HIDE DEF k
<1>3. x % Modulus \in SequenceNumber /\ y % Modulus = WrappingSub(x % Modulus, k)
  BY <1>1, SequenceBefore
<1>4. y % Modulus \in SequenceNumber
  BY <1>2, SequenceBefore
<1>5. WrappingSub(x % Modulus, y % Modulus) = k
  BY <1>2, <1>3, DistanceBetween
<1>. QED
  BY <1>3, <1>4, <1>5 DEF k

(* Less than a turn apart, numbers with the same sequence number are equal. *)
LEMMA SameNumber ==
    ASSUME NEW x \in Nat, NEW y \in Nat, x - y < Modulus, y - x < Modulus,
           x % Modulus = y % Modulus
    PROVE  x = y
<1>1. \A s \in SequenceNumber : WrappingSub(s, s) = 0
  BY ConstantTypes DEF WrappingSub
<1>2. CASE y <= x
  BY <1>1, <1>2, NumbersApart
<1>3. CASE x <= y
  BY <1>1, <1>3, NumbersApart
<1>. QED
  BY <1>2, <1>3

-----------------------------------------------------------------------------
(* The invariant. *)

(* Neither stream is more than MaxLag ahead of n.                           *)
Near(n) == \A q \in Peers : next[q] - n <= MaxLag

HistoryOK ==
    /\ handler \in [Peers -> Handler] /\ next \in [Peers -> Nat] /\ newest \in [Peers -> Int]
    /\ arrived \in [Peers -> SUBSET Nat] /\ noted \in [Peers -> SUBSET Nat]
    /\ acked \in [Peers -> SUBSET Nat] /\ dropped \in [Peers -> SUBSET Nat]
    /\ \A p \in Peers : \A n \in arrived[p] : n < next[Other(p)]

(* The handlers hold the absolute numbers modulo the range.  Both calls of  *)
(* process_incoming pass one number twice, so the newest number             *)
(* acknowledged is the newest number recorded.                              *)
NumbersOK ==
    \A p \in Peers :
        /\ newest[p] + 1 \in Nat
        /\ handler[p].sequence_number = next[p] % Modulus
        /\ handler[p].received_packets.sequence_num = (newest[p] + 1) % Modulus
        /\ handler[p].remote_ack_sequence_num = WrappingSub((newest[p] + 1) % Modulus, 1)

(* What an end noted was exchanged as data, by one end or the other.        *)
NotedIsExchanged ==
    \A p \in Peers :
        /\ noted[p] \subseteq Exchanged
        /\ newest[p] = -1 \/ newest[p] \in noted[p]
        /\ \A n \in noted[p] : n <= newest[p]

(* What is in flight is recent, and its sequence number says which packet   *)
(* it is.                                                                   *)
SentIsRecent ==
    \A p \in Peers : \A s \in DOMAIN handler[p].sent_packets :
        LET n == handler[p].sent_packets[s]
        IN  n \in Nat /\ n < next[p] /\ Near(n) /\ s = n % Modulus

DataIsRecent ==
    \A d \in data_wire :
        /\ d.to \in Peers /\ d.number \in Nat /\ d.number < next[Other(d.to)]
        /\ Near(d.number) /\ d.sequence = d.number % Modulus

(* An acknowledgement names only what its sender noted.                     *)
AcksAreTrue ==
    \A a \in ack_wire :
        /\ a.to \in Peers /\ a.number \in Nat /\ a.number <= newest[Other(a.to)]
        /\ Near(a.number) /\ a.sequence = a.number % Modulus /\ a.number \in Exchanged
        /\ a.mask \subseteq 1 .. Redundant /\ \A i \in a.mask : a.number - i \in Exchanged

(* An end has noted no more than the other noted or sent, and has noted     *)
(* something as new as what it removed from sent_packets.                   *)
NewestFollows ==
    \A p \in Peers :
        /\ newest[p] <= newest[Other(p)] \/ newest[p] < next[Other(p)]
        /\ \A n \in acked[p] \cup dropped[p] : n <= newest[p]

BufferIsExact ==
    \A p \in Peers :
        /\ BufferIsSound(handler[p].received_packets, newest[p] + 1, noted[p])
        /\ BufferIsComplete(handler[p].received_packets, newest[p] + 1, noted[p])

AckInv ==
    /\ HistoryOK /\ NumbersOK /\ NotedIsExchanged /\ SentIsRecent /\ DataIsRecent
    /\ AcksAreTrue /\ NewestFollows /\ BufferIsExact
    /\ EveryPacketAccounted /\ AckedWasReceived /\ DroppedIsPastTheWindow

(* What was exchanged.                                                      *)
LEMMA ExchangedNumbers ==
    ASSUME HistoryOK
    PROVE  /\ Exchanged \subseteq Nat
           /\ \A n \in Exchanged : \E q \in Peers : n < next[q]
           /\ \A p \in Peers : arrived[p] \subseteq Exchanged
<1>1. \A n \in Exchanged : \E p \in Peers : n \in arrived[p]
  BY DEF Exchanged
<1>. QED
  BY <1>1, TwoPeers DEF HistoryOK, Exchanged

(* No end falls more than MaxLag behind the stream further ahead: a packet  *)
(* that old is no longer in flight, so its sender has noted something as    *)
(* new, which the other end noted too or sent itself.                       *)
LEMMA NewestIsNear ==
    ASSUME AckInv, NEW p \in Peers, NEW q \in Peers
    PROVE  newest[p] \in Int /\ next[q] \in Nat /\ newest[p] >= next[q] - 1 - MaxLag
<1>. DEFINE n == next[q] - 1 - MaxLag
<1>0. /\ \A r \in Peers : newest[r] \in Int /\ next[r] \in Nat /\ newest[r] >= -1
      /\ MaxLag \in Nat /\ MaxLag >= 1
  BY Bounds DEF AckInv, HistoryOK, NumbersOK
<1>. SUFFICES ASSUME n \in Nat PROVE newest[p] >= n
  BY <1>0
<1>1. \A r \in Peers : n < next[r] => n <= newest[r]
  <2>. SUFFICES ASSUME NEW r \in Peers, n < next[r] PROVE n <= newest[r]
    OBVIOUS
  <2>1. n \notin InFlight(handler[r])
    <3>. SUFFICES ASSUME NEW s \in DOMAIN handler[r].sent_packets,
                         n = handler[r].sent_packets[s]
                  PROVE  FALSE
      BY DEF InFlight
    <3>1. next[q] - n <= MaxLag
      BY DEF AckInv, SentIsRecent, Near
    <3>. QED
      BY <1>0, <3>1
  <2>2. n \in 0 .. next[r] - 1
    BY <1>0
  <2>3. n \in acked[r] \cup dropped[r]
    BY <2>1, <2>2 DEF AckInv, EveryPacketAccounted
  <2>. QED
    BY <2>3 DEF AckInv, NewestFollows
<1>2. n <= newest[q]
  BY <1>0, <1>1
<1>3. CASE p = q
  BY <1>2, <1>3
<1>4. CASE p = Other(q)
  <2>1. newest[q] <= newest[p] \/ newest[q] < next[p]
    BY <1>4 DEF AckInv, NewestFollows
  <2>2. CASE newest[q] <= newest[p]
    BY <1>0, <1>2, <2>2
  <2>3. CASE newest[q] < next[p]
    BY <1>0, <1>1, <1>2, <2>3
  <2>. QED
    BY <2>1, <2>2, <2>3
<1>. QED
  BY <1>3, <1>4, TwoPeers

(* Numbers near the streams lie within half the circle of the newest number *)
(* an end has noted.                                                        *)
LEMMA NearNewest ==
    ASSUME AckInv, NEW p \in Peers, NEW m \in Nat, Near(m), \E q \in Peers : m < next[q]
    PROVE  /\ newest[p] \in Int /\ newest[p] >= -1
           /\ m - (newest[p] + 1) < MaxLag /\ (newest[p] + 1) - m <= MaxLag
<1>1. PICK q \in Peers : m < next[q]
  OBVIOUS
<1>2. \A r \in Peers : newest[p] \in Int /\ next[r] \in Nat /\ newest[p] >= next[r] - 1 - MaxLag
  BY NewestIsNear
<1>3. newest[p] >= -1
  BY <1>2 DEF AckInv, NumbersOK
<1>4. PICK r \in Peers : newest[p] < next[r]
  <2>1. CASE newest[p] = -1
    BY <1>1, <1>2, <2>1
  <2>2. CASE newest[p] \in noted[p]
    <3>1. newest[p] \in Exchanged
      BY <2>2 DEF AckInv, NotedIsExchanged
    <3>. QED
      BY <3>1, ExchangedNumbers DEF AckInv
  <2>. QED
    BY <2>1, <2>2 DEF AckInv, NotedIsExchanged
<1>5. next[r] - m <= MaxLag
  BY DEF Near
<1>. QED
  BY <1>1, <1>2, <1>3, <1>4, <1>5, Bounds

-----------------------------------------------------------------------------
(* process_incoming. *)

(* What process_incoming does to the handler of p, in absolute numbers: the *)
(* handler g after it has recorded m and, as the newest number, top; it     *)
(* removes packets only by the number given or by an offset of the mask.    *)
Recorded(p, m, mask, g, top) ==
    /\ g \in Handler /\ g.sequence_number = handler[p].sequence_number
    /\ g.received_packets.sequence_num = (top + 1) % Modulus
    /\ g.remote_ack_sequence_num = WrappingSub((top + 1) % Modulus, 1)
    /\ BufferIsSound(g.received_packets, top + 1, noted[p] \cup {m})
    /\ BufferIsComplete(g.received_packets, top + 1, noted[p] \cup {m})
    /\ DOMAIN g.sent_packets \subseteq DOMAIN handler[p].sent_packets
    /\ \A t \in DOMAIN g.sent_packets : g.sent_packets[t] = handler[p].sent_packets[t]
    /\ InFlight(g) \subseteq InFlight(handler[p])
    /\ \A n \in InFlight(handler[p]) \ InFlight(g) : n = m \/ \E i \in mask : n = m - i

LEMMA RecordEffect ==
    ASSUME AckInv, NEW p \in Peers, NEW m \in Nat, NEW mask \in SUBSET (1 .. Redundant),
           Near(m), \E q \in Peers : m < next[q], \A i \in mask : m - i \in Nat
    PROVE  Recorded(p, m, mask, ProcessIncoming(handler[p], m % Modulus, m % Modulus, mask),
                    IF m > newest[p] THEN m ELSE newest[p])
<1>. DEFINE h == handler[p]
            s == m % Modulus
            g == ProcessIncoming(h, s, s, mask)
            b == h.received_packets
            T == newest[p] + 1
            top == IF m > newest[p] THEN m ELSE newest[p]
<1>1. /\ h \in Handler /\ T \in Nat /\ b.sequence_num = T % Modulus
      /\ h.remote_ack_sequence_num = WrappingSub(T % Modulus, 1)
      /\ BufferIsSound(b, T, noted[p]) /\ BufferIsComplete(b, T, noted[p])
      /\ newest[p] \in Int /\ noted[p] \in SUBSET Nat /\ \A n \in noted[p] : n <= newest[p]
  BY DEF AckInv, HistoryOK, NumbersOK, BufferIsExact, NotedIsExchanged
<1>2. m - T < MaxLag /\ T - m <= MaxLag
  BY NearNewest
<1>3. s \in SequenceNumber /\ T % Modulus \in SequenceNumber /\ b \in Buffer
  <2>1. m <= m /\ m - m < Modulus /\ T - T < Modulus /\ T <= T
    BY <1>1, Bounds
  <2>. QED
    BY <1>1, <2>1, NumbersApart DEF Handler
<1>4. \A n \in noted[p] : n < T
  BY <1>1
<1>. HIDE DEF s, b, T, h, g, top
<1>5. /\ g \in Handler /\ g.sequence_number = h.sequence_number
      /\ g.remote_ack_sequence_num =
           IF SequenceGreaterThan(s, h.remote_ack_sequence_num) THEN s ELSE h.remote_ack_sequence_num
      /\ g.received_packets = Insert(b, s)
      /\ DOMAIN g.sent_packets = DOMAIN h.sent_packets \ AckedSequences(s, mask)
      /\ \A t \in DOMAIN g.sent_packets : g.sent_packets[t] = h.sent_packets[t]
  BY <1>1, <1>3, IncomingFields DEF g, b
<1>6. /\ g.received_packets.sequence_num = (top + 1) % Modulus
      /\ g.remote_ack_sequence_num = WrappingSub((top + 1) % Modulus, 1)
      /\ BufferIsSound(g.received_packets, top + 1, noted[p] \cup {m})
      /\ BufferIsComplete(g.received_packets, top + 1, noted[p] \cup {m})
  <2>0. (m + 1) % Modulus = WrappingAdd(s, 1) /\ WrappingSub(WrappingAdd(s, 1), 1) = s
        /\ WrappingAdd(s, 1) \in SequenceNumber
    BY <1>3, SequenceAfter, DistanceOfNext DEF s
  <2>1. CASE m >= T
    <3>1. top = m
      BY <1>1, <2>1 DEF top, T
    <3>2. WrappingSub(s, b.sequence_num) = m - T /\ m - T + Size < HalfRange
      <4>1. m - T < Modulus /\ m - T + Size < HalfRange
        BY <1>1, <1>2, <2>1, Bounds
      <4>. QED
        BY <1>1, <2>1, <4>1, NumbersApart DEF s
    <3>3. /\ BufferIsSound(Insert(b, s), m + 1, noted[p] \cup {m})
          /\ BufferIsComplete(Insert(b, s), m + 1, noted[p] \cup {m})
          /\ Insert(b, s).sequence_num = WrappingAdd(s, 1)
      BY <1>1, <1>3, <1>4, <2>1, <3>2, InsertAheadKeeps
    <3>4. SequenceGreaterThan(s, h.remote_ack_sequence_num)
      <4>. DEFINE u == T % Modulus
                  d == m - T
      <4>1. u \in SequenceNumber /\ WrappingSub(s, u) = d /\ d \in Nat /\ d + 1 \in 1 .. HalfRange - 1
            /\ 1 \in SequenceNumber
        <5>1. u \in SequenceNumber /\ WrappingSub(s, u) = d
          BY <1>1, <1>3, <3>2
        <5>2. d \in Nat /\ d + 1 \in 1 .. HalfRange - 1
          BY <1>1, <1>2, <2>1, Bounds
        <5>. QED
          BY <5>1, <5>2, ConstantTypes
      <4>. HIDE DEF u, d
      <4>2. WrappingSub(u, 1) \in SequenceNumber /\ WrappingSub(s, WrappingSub(u, 1)) = d + 1
        <5>1. s \in 0 .. Modulus - 1 /\ u \in 0 .. Modulus - 1
          BY <1>3, <4>1 DEF SequenceNumber
        <5>2. WrappingSub(u, 1) \in SequenceNumber
          BY <4>1, DistanceType
        <5>3. WrappingSub(s, WrappingSub(u, 1)) = d + 1
          BY <4>1, <5>1, Bounds DEF WrappingSub
        <5>. QED
          BY <5>2, <5>3
      <4>. QED
        BY <1>1, <1>3, <4>1, <4>2, AheadIsLater DEF u
    <3>. QED
      BY <1>5, <2>0, <3>1, <3>3, <3>4
  <2>2. CASE m < T
    <3>1. top = newest[p] /\ top + 1 = T
      BY <1>1, <2>2 DEF top, T
    <3>2. WrappingSub(b.sequence_num, s) = T - m /\ T - m < HalfRange
      <4>1. T - m < Modulus /\ T - m < HalfRange /\ m <= T
        BY <1>1, <1>2, <2>2, Bounds
      <4>. QED
        BY <1>1, <4>1, NumbersApart DEF s
    <3>3. /\ BufferIsSound(Insert(b, s), T, noted[p] \cup {m})
          /\ BufferIsComplete(Insert(b, s), T, noted[p] \cup {m})
          /\ Insert(b, s).sequence_num = b.sequence_num
      BY <1>1, <1>3, <1>4, <2>2, <3>2, InsertBehindKeeps
    <3>4. g.remote_ack_sequence_num = h.remote_ack_sequence_num
      <4>. DEFINE u == T % Modulus
                  k == T - m
      <4>1. u \in SequenceNumber /\ WrappingSub(u, s) = k /\ k \in 1 .. HalfRange - 1
            /\ 1 \in SequenceNumber
        BY <1>1, <1>3, <2>2, <3>2, ConstantTypes
      <4>. HIDE DEF u, k
      <4>2. WrappingSub(u, 1) \in SequenceNumber /\ WrappingSub(WrappingSub(u, 1), s) = k - 1
        <5>1. s \in 0 .. Modulus - 1 /\ u \in 0 .. Modulus - 1
          BY <1>3, <4>1 DEF SequenceNumber
        <5>2. WrappingSub(u, 1) \in SequenceNumber
          BY <4>1, DistanceType
        <5>3. WrappingSub(WrappingSub(u, 1), s) = k - 1
          BY <4>1, <5>1, Bounds DEF WrappingSub
        <5>. QED
          BY <5>2, <5>3
      <4>3. CASE k = 1
        BY <1>1, <1>3, <1>5, <4>1, <4>2, <4>3, SameIsNotLater DEF u
      <4>4. CASE k > 1
        <5>1. k - 1 \in 1 .. HalfRange - 1
          BY <4>1, <4>4, Bounds
        <5>. QED
          BY <1>1, <1>3, <1>5, <4>2, <5>1, AheadIsLater DEF u
      <4>. QED
        BY <4>1, <4>3, <4>4
    <3>. QED
      BY <1>1, <1>5, <3>1, <3>3, <3>4
  <2>. QED
    BY <1>1, <2>1, <2>2
<1>7. InFlight(g) \subseteq InFlight(h)
  BY <1>5 DEF InFlight
<1>8. ASSUME NEW n \in InFlight(h) \ InFlight(g) PROVE n = m \/ \E i \in mask : n = m - i
  <2>1. PICK t \in DOMAIN h.sent_packets : n = h.sent_packets[t]
    BY DEF InFlight
  <2>2. t \in AckedSequences(s, mask)
    BY <1>5, <2>1 DEF InFlight
  <2>3. n \in Nat /\ n < next[p] /\ Near(n) /\ t = n % Modulus
    BY <2>1 DEF AckInv, SentIsRecent, h
  <2>4. n - T < MaxLag /\ T - n <= MaxLag
    BY <2>3, NearNewest DEF T
  <2>5. CASE t = s
    <3>1. n - m < Modulus /\ m - n < Modulus
      BY <1>1, <1>2, <2>3, <2>4, Bounds
    <3>. QED
      BY <2>3, <2>5, <3>1, SameNumber DEF s
  <2>6. CASE \E i \in mask : t = WrappingSub(s, i)
    <3>1. PICK i \in mask : t = WrappingSub(s, i)
      BY <2>6
    <3>. DEFINE y == m - i
    <3>2. i \in 1 .. Redundant /\ y \in Nat /\ m - y = i /\ y <= m /\ m - y < Modulus
      BY Bounds
    <3>. HIDE DEF y
    <3>3. y % Modulus = WrappingSub(s, i)
      BY <3>2, NumbersApart DEF s
    <3>4. n - y < Modulus /\ y - n < Modulus
      BY <1>1, <1>2, <2>3, <2>4, <3>2, Bounds
    <3>5. n = y
      BY <2>3, <3>1, <3>2, <3>3, <3>4, SameNumber
    <3>. QED
      BY <3>5 DEF y
  <2>. QED
    BY <2>2, <2>5, <2>6 DEF AckedSequences
<1>. QED
  <2>1. Recorded(p, m, mask, g, top)
    BY <1>5, <1>6, <1>7, <1>8 DEF Recorded, h
  <2>. QED
    BY <2>1 DEF g, h, s, top

(* Recording a number keeps all of the invariant but what it says of the    *)
(* network.                                                                 *)
RecordInv ==
    /\ HistoryOK /\ NumbersOK /\ NotedIsExchanged /\ SentIsRecent
    /\ NewestFollows /\ BufferIsExact
    /\ EveryPacketAccounted /\ AckedWasReceived /\ DroppedIsPastTheWindow

LEMMA RecordKeepsInv ==
    ASSUME AckInv, NEW p \in Peers, NEW m \in Nat, NEW mask \in SUBSET (1 .. Redundant),
           Near(m), m <= newest[Other(p)] \/ m < next[Other(p)],
           m \in Exchanged', \A i \in mask : m - i \in Exchanged',
           Record(p, m % Modulus, mask, m),
           arrived' \in [Peers -> SUBSET Nat], UNCHANGED <<next, dropped>>,
           \A q \in Peers : arrived[q] \subseteq arrived'[q],
           \A q \in Peers : \A n \in arrived'[q] : n < next[Other(q)]
    PROVE  /\ RecordInv' /\ Exchanged \subseteq Exchanged'
           /\ \A q \in Peers : newest[q] <= newest'[q]
           /\ m <= newest'[p] /\ newest'[p] \in noted'[p] /\ handler'[p] \in Handler
<1>. DEFINE h == handler[p]
            g == ProcessIncoming(h, m % Modulus, m % Modulus, mask)
            top == IF m > newest[p] THEN m ELSE newest[p]
<1>1. Exchanged \subseteq Exchanged'
  BY DEF Exchanged
<1>2. Exchanged' \subseteq Nat /\ \A n \in Exchanged' : \E q \in Peers : n < next[q]
  <2>1. \A n \in Exchanged' : \E q \in Peers : n \in arrived'[q]
    BY DEF Exchanged
  <2>. QED
    BY <2>1, TwoPeers
<1>3. /\ \E q \in Peers : m < next[q]
      /\ \A i \in mask : m - i \in Nat
  BY <1>2
<1>4. /\ HistoryOK /\ NumbersOK /\ NotedIsExchanged /\ SentIsRecent /\ NewestFollows /\ BufferIsExact
      /\ EveryPacketAccounted /\ AckedWasReceived /\ DroppedIsPastTheWindow
  BY DEF AckInv
<1>5. /\ g \in Handler /\ g.sequence_number = h.sequence_number
      /\ g.received_packets.sequence_num = (top + 1) % Modulus
      /\ g.remote_ack_sequence_num = WrappingSub((top + 1) % Modulus, 1)
      /\ BufferIsSound(g.received_packets, top + 1, noted[p] \cup {m})
      /\ BufferIsComplete(g.received_packets, top + 1, noted[p] \cup {m})
      /\ DOMAIN g.sent_packets \subseteq DOMAIN h.sent_packets
      /\ \A t \in DOMAIN g.sent_packets : g.sent_packets[t] = h.sent_packets[t]
      /\ InFlight(g) \subseteq InFlight(h)
      /\ \A n \in InFlight(h) \ InFlight(g) : n = m \/ \E i \in mask : n = m - i
  <2>1. Recorded(p, m, mask, g, top)
    BY <1>3, RecordEffect
  <2>. HIDE DEF g, top
  <2>. QED
    BY <2>1 DEF Recorded
<1>6. /\ handler' = [handler EXCEPT ![p] = g] /\ noted' = [noted EXCEPT ![p] = @ \cup {m}]
      /\ newest' = [newest EXCEPT ![p] = top]
      /\ acked' = [acked EXCEPT ![p] = @ \cup (InFlight(handler[p]) \ InFlight(handler'[p]))]
  BY DEF Record
<1>. HIDE DEF g, top
<1>7. /\ handler \in [Peers -> Handler] /\ next \in [Peers -> Nat] /\ newest \in [Peers -> Int]
      /\ noted \in [Peers -> SUBSET Nat] /\ acked \in [Peers -> SUBSET Nat]
      /\ dropped \in [Peers -> SUBSET Nat]
  BY <1>4 DEF HistoryOK
<1>8. top \in Int /\ top + 1 \in Nat /\ top >= newest[p] /\ top >= m /\ (top = m \/ top = newest[p])
  <2>1. newest[p] \in Int /\ newest[p] + 1 \in Nat
    BY <1>4, <1>7 DEF NumbersOK
  <2>. QED
    BY <2>1 DEF top
<1>. DEFINE gone == InFlight(h) \ InFlight(g)
<1>9. /\ handler'[p] = g /\ noted'[p] = noted[p] \cup {m} /\ newest'[p] = top
      /\ acked'[p] = acked[p] \cup gone
      /\ \A q \in Peers : q # p =>
           handler'[q] = handler[q] /\ noted'[q] = noted[q] /\ newest'[q] = newest[q]
           /\ acked'[q] = acked[q]
  BY <1>6, <1>7
<1>10. \A q \in Peers : newest[q] \in Int /\ newest'[q] \in Int /\ newest[q] <= newest'[q]
  BY <1>7, <1>8, <1>9
<1>11. \A n \in gone : n \in Exchanged' /\ n <= top /\ n \in Nat
  <2>. TAKE n \in gone
  <2>1. n = m \/ \E i \in mask : n = m - i
    BY <1>5
  <2>2. n \in Exchanged'
    BY <2>1
  <2>3. n \in Nat
    BY <1>2, <2>2
  <2>4. n <= m
    BY <2>1, Bounds
  <2>. QED
    BY <1>8, <2>2, <2>3, <2>4
<1>12. HistoryOK'
  <2>1. handler' \in [Peers -> Handler]
    BY <1>5, <1>6, <1>7
  <2>2. newest' \in [Peers -> Int] /\ noted' \in [Peers -> SUBSET Nat]
    BY <1>6, <1>7, <1>8
  <2>3. acked' \in [Peers -> SUBSET Nat]
    <3>1. gone \subseteq Nat
      BY <1>11
    <3>2. acked' = [acked EXCEPT ![p] = @ \cup gone]
      BY <1>6, <1>9
    <3>. HIDE DEF gone
    <3>. QED
      BY <1>7, <3>1, <3>2
  <2>. QED
    BY <1>7, <2>1, <2>2, <2>3 DEF HistoryOK
<1>13. NumbersOK'
  <2>. SUFFICES ASSUME NEW q \in Peers
                PROVE  /\ newest'[q] + 1 \in Nat
                       /\ handler'[q].sequence_number = next[q] % Modulus
                       /\ handler'[q].received_packets.sequence_num = (newest'[q] + 1) % Modulus
                       /\ handler'[q].remote_ack_sequence_num
                            = WrappingSub((newest'[q] + 1) % Modulus, 1)
    BY DEF NumbersOK
  <2>1. CASE q = p
    BY <1>4, <1>5, <1>8, <1>9, <2>1 DEF NumbersOK
  <2>2. CASE q # p
    BY <1>4, <1>9, <2>2 DEF NumbersOK
  <2>. QED
    BY <2>1, <2>2
<1>14. NotedIsExchanged' /\ newest'[p] \in noted'[p]
  <2>1. /\ noted[p] \subseteq Exchanged /\ (newest[p] = -1 \/ newest[p] \in noted[p])
        /\ \A n \in noted[p] : n <= newest[p] /\ n \in Int
    BY <1>4, <1>7 DEF NotedIsExchanged
  <2>2. top \in noted[p] \cup {m}
    <3>1. CASE top = m
      BY <3>1
    <3>2. CASE top = newest[p]
      BY <1>8, <2>1, <3>2
    <3>. QED
      BY <1>8, <3>1, <3>2
  <2>3. \A n \in noted[p] \cup {m} : n <= top
    BY <1>7, <1>8, <2>1
  <2>4. noted[p] \cup {m} \subseteq Exchanged'
    BY <1>1, <2>1
  <2>. QED
    BY <1>1, <1>4, <1>9, <2>2, <2>3, <2>4 DEF NotedIsExchanged
<1>15. SentIsRecent'
  BY <1>4, <1>5, <1>9 DEF SentIsRecent, Near
<1>16. NewestFollows'
  <2>1. \A q \in Peers : newest'[q] <= newest'[Other(q)] \/ newest'[q] < next[Other(q)]
    <3>. TAKE q \in Peers
    <3>0. Other(q) \in Peers /\ next[Other(q)] \in Nat /\ (q = p \/ q # p)
          /\ (newest[q] <= newest[Other(q)] \/ newest[q] < next[Other(q)])
          /\ newest[Other(q)] <= newest'[Other(q)]
          /\ newest'[Other(q)] \in Int /\ newest[Other(q)] \in Int
      BY <1>4, <1>7, <1>10, TwoPeers DEF NewestFollows
    <3>1. CASE q # p
      BY <1>7, <1>9, <3>0, <3>1
    <3>2. CASE q = p /\ top = m
      BY <1>9, <3>0, <3>2
    <3>3. CASE q = p /\ top = newest[p]
      BY <1>7, <1>9, <3>0, <3>3
    <3>. QED
      BY <1>8, <3>0, <3>1, <3>2, <3>3
  <2>2. \A q \in Peers : \A n \in acked'[q] \cup dropped[q] : n <= newest'[q]
    <3>. TAKE q \in Peers
    <3>. TAKE n \in acked'[q] \cup dropped[q]
    <3>1. CASE n \in acked[q] \cup dropped[q]
      <4>1. n <= newest[q] /\ n \in Int
        BY <1>4, <1>7, <3>1 DEF NewestFollows
      <4>. QED
        BY <1>10, <4>1
    <3>2. CASE n \notin acked[q] \cup dropped[q]
      <4>1. q = p /\ n \in gone
        BY <1>9, <3>2
      <4>. QED
        BY <1>9, <1>11, <4>1
    <3>. QED
      BY <3>1, <3>2
  <2>. QED
    BY <2>1, <2>2 DEF NewestFollows
<1>17. BufferIsExact'
  <2>. SUFFICES ASSUME NEW q \in Peers
                PROVE  /\ BufferIsSound(handler'[q].received_packets, newest'[q] + 1, noted'[q])
                       /\ BufferIsComplete(handler'[q].received_packets, newest'[q] + 1, noted'[q])
    BY DEF BufferIsExact, BufferIsSound, BufferIsComplete
  <2>1. CASE q = p
    BY <1>5, <1>9, <2>1
  <2>2. CASE q # p
    BY <1>4, <1>9, <2>2 DEF BufferIsExact
  <2>. QED
    BY <2>1, <2>2
<1>18. EveryPacketAccounted'
  <2>. SUFFICES ASSUME NEW q \in Peers
                PROVE  /\ InFlight(handler'[q]) \cup acked'[q] \cup dropped[q] = 0 .. next[q] - 1
                       /\ acked'[q] \cap dropped[q] = {}
                       /\ InFlight(handler'[q]) \cap (acked'[q] \cup dropped[q]) = {}
    BY DEF EveryPacketAccounted, InFlight
  <2>0. /\ InFlight(handler[q]) \cup acked[q] \cup dropped[q] = 0 .. next[q] - 1
        /\ acked[q] \cap dropped[q] = {}
        /\ InFlight(handler[q]) \cap (acked[q] \cup dropped[q]) = {}
    BY <1>4 DEF EveryPacketAccounted
  <2>1. CASE q = p
    BY <1>5, <1>9, <2>0, <2>1
  <2>2. CASE q # p
    BY <1>9, <2>0, <2>2
  <2>. QED
    BY <2>1, <2>2
<1>19. AckedWasReceived'
  BY <1>1, <1>4, <1>9, <1>11 DEF AckedWasReceived
<1>20. DroppedIsPastTheWindow'
  BY <1>1, <1>4 DEF DroppedIsPastTheWindow
<1>. QED
  BY <1>1, <1>5, <1>8, <1>9, <1>10, <1>12, <1>13, <1>14, <1>15, <1>16, <1>17, <1>18, <1>19, <1>20
     DEF RecordInv

-----------------------------------------------------------------------------
(* The steps. *)

(* Losing data or an acknowledgement.                                       *)
LEMMA LossKeepsInv ==
    ASSUME AckInv, data_wire' \subseteq data_wire, ack_wire' \subseteq ack_wire,
           UNCHANGED <<handler, next, arrived, noted, newest, acked, dropped>>
    PROVE  AckInv'
<1>1. HistoryOK' /\ NumbersOK' /\ SentIsRecent' /\ BufferIsExact'
  BY DEF AckInv, HistoryOK, NumbersOK, SentIsRecent, BufferIsExact, Near
<1>2. NotedIsExchanged' /\ NewestFollows'
  BY DEF AckInv, NotedIsExchanged, NewestFollows, Exchanged
<1>3. DataIsRecent'
  BY DEF AckInv, DataIsRecent, Near
<1>4. AcksAreTrue'
  BY DEF AckInv, AcksAreTrue, Near, Exchanged
<1>5. EveryPacketAccounted' /\ AckedWasReceived' /\ DroppedIsPastTheWindow'
  BY DEF AckInv, EveryPacketAccounted, AckedWasReceived, DroppedIsPastTheWindow, Exchanged
<1>. QED
  BY <1>1, <1>2, <1>3, <1>4, <1>5 DEF AckInv

(* process_incoming of an acknowledgement: what it names was exchanged.     *)
LEMMA ReceiveAckKeepsInv ==
    ASSUME AckInv, NEW a \in ack_wire, ReceiveAck(a)
    PROVE  AckInv'
<1>1. /\ Record(a.to, a.sequence, a.mask, a.number)
      /\ ack_wire' \subseteq ack_wire /\ UNCHANGED <<data_wire, next, arrived, dropped>>
  BY DEF ReceiveAck
<1>2. /\ a.to \in Peers /\ a.number \in Nat /\ a.number <= newest[Other(a.to)]
      /\ Near(a.number) /\ a.sequence = a.number % Modulus /\ a.number \in Exchanged
      /\ a.mask \subseteq 1 .. Redundant /\ \A i \in a.mask : a.number - i \in Exchanged
  BY DEF AckInv, AcksAreTrue
<1>3. HistoryOK /\ Exchanged' = Exchanged
  BY <1>1 DEF AckInv, Exchanged
<1>4. RecordInv' /\ \A q \in Peers : newest[q] <= newest'[q]
  BY <1>1, <1>2, <1>3, RecordKeepsInv DEF HistoryOK
<1>5. DataIsRecent'
  BY <1>1 DEF AckInv, DataIsRecent, Near
<1>6. AcksAreTrue'
  <2>. SUFFICES ASSUME NEW c \in ack_wire PROVE c.number <= newest'[Other(c.to)]
    BY <1>1, <1>3 DEF AckInv, AcksAreTrue, Near
  <2>1. /\ c.number <= newest[Other(c.to)] /\ c.number \in Int /\ Other(c.to) \in Peers
        /\ newest[Other(c.to)] <= newest'[Other(c.to)]
        /\ newest[Other(c.to)] \in Int /\ newest'[Other(c.to)] \in Int
    BY <1>3, <1>4, TwoPeers DEF AckInv, AcksAreTrue, HistoryOK, RecordInv
  <2>. QED
    BY <2>1
<1>. QED
  BY <1>4, <1>5, <1>6 DEF AckInv, RecordInv

(* The offsets of ack_bitfield are those of numbers recorded.               *)
LEMMA BitfieldIsSound ==
    ASSUME NEW h \in Handler, NEW T \in Nat, NEW received,
           BufferIsSound(h.received_packets, T, received), NEW i \in AckBitfield(h)
    PROVE  i \in 1 .. Redundant /\ T - 1 - i \in received
<1>. DEFINE b == h.received_packets
            top == b.sequence_num
            e == WrappingSub(WrappingSub(top, 1), i)
<1>1. b \in Buffer /\ top \in SequenceNumber
  BY DEF Handler, Buffer
<1>2. i \in 1 .. Redundant /\ b.entry_sequences[Index(e)] = e
  BY DEF AckBitfield, Exists, RemoteSequenceNum
<1>. HIDE DEF b, top
<1>3. e \in SequenceNumber /\ WrappingSub(top, e) = i + 1
  <2>1. SequenceNumber = 0 .. 2 * HalfRange - 1 /\ top \in 0 .. 2 * HalfRange - 1
    BY <1>1, ConstantTypes
  <2>2. e \in 0 .. 2 * HalfRange - 1 /\ WrappingSub(top, e) = i + 1
    BY <1>2, <2>1, Bounds DEF WrappingSub
  <2>. QED
    BY <2>1, <2>2
<1>. HIDE DEF e
<1>4. e # Empty /\ e \in Nat /\ i + 1 \in 1 .. Size
  BY <1>2, <1>3, ConstantTypes
<1>5. Index(e) \in 0 .. Size - 1
  BY <1>4, SlotType
<1>6. T - (i + 1) \in received
  BY <1>2, <1>3, <1>4, <1>5 DEF BufferIsSound, b, top
<1>7. T - (i + 1) = T - 1 - i
  BY <1>2, Bounds
<1>. QED
  BY <1>2, <1>6, <1>7

(* process_incoming of data, and the acknowledgement that answers it.       *)
LEMMA ReceiveDataKeepsInv ==
    ASSUME AckInv, NEW d \in data_wire, ReceiveData(d)
    PROVE  AckInv'
<1>. DEFINE p == d.to
            ack == [to |-> Other(p), sequence |-> RemoteSequenceNum(handler'[p]),
                    mask |-> AckBitfield(handler'[p]), number |-> newest'[p]]
<1>1. /\ Record(p, d.sequence, {}, d.number)
      /\ arrived' = [arrived EXCEPT ![p] = @ \cup {d.number}]
      /\ ack_wire' = ack_wire \cup {ack}
      /\ data_wire' \subseteq data_wire /\ UNCHANGED <<next, dropped>>
  BY DEF ReceiveData
<1>2. /\ p \in Peers /\ d.number \in Nat /\ d.number < next[Other(p)]
      /\ Near(d.number) /\ d.sequence = d.number % Modulus
  BY DEF AckInv, DataIsRecent
<1>3. HistoryOK
  BY DEF AckInv
<1>. HIDE DEF p
<1>4. /\ arrived' \in [Peers -> SUBSET Nat] /\ \A q \in Peers : arrived[q] \subseteq arrived'[q]
      /\ \A q \in Peers : \A n \in arrived'[q] : n < next[Other(q)]
      /\ d.number \in Exchanged'
  <2>1. /\ arrived' \in [Peers -> SUBSET Nat] /\ arrived'[p] = arrived[p] \cup {d.number}
        /\ \A q \in Peers : q # p => arrived'[q] = arrived[q]
    BY <1>1, <1>2, <1>3 DEF HistoryOK
  <2>. QED
    BY <1>2, <1>3, <2>1 DEF HistoryOK, Exchanged
<1>5. /\ RecordInv' /\ Exchanged \subseteq Exchanged'
      /\ \A q \in Peers : newest[q] <= newest'[q]
      /\ d.number <= newest'[p] /\ newest'[p] \in noted'[p] /\ handler'[p] \in Handler
  <2>. DEFINE none == {}
  <2>1. none \in SUBSET (1 .. Redundant) /\ \A i \in none : d.number - i \in Exchanged'
    OBVIOUS
  <2>2. Record(p, d.number % Modulus, none, d.number)
    BY <1>1, <1>2
  <2>. HIDE DEF none
  <2>. QED
    BY <1>1, <1>2, <1>4, <2>1, <2>2, RecordKeepsInv
<1>6. DataIsRecent'
  BY <1>1 DEF AckInv, DataIsRecent, Near
<1>7. /\ newest'[p] \in Nat /\ noted'[p] \subseteq Exchanged'
      /\ handler'[p].received_packets.sequence_num = (newest'[p] + 1) % Modulus
      /\ BufferIsSound(handler'[p].received_packets, newest'[p] + 1, noted'[p])
  <2>1. newest'[p] \in Int
    BY <1>2, <1>5 DEF RecordInv, HistoryOK
  <2>2. newest'[p] >= 0
    BY <1>2, <1>5, <2>1
  <2>3. BufferIsSound(handler'[p].received_packets, newest'[p] + 1, noted'[p])
    BY <1>2, <1>5 DEF RecordInv, BufferIsExact, BufferIsSound
  <2>. QED
    BY <1>2, <1>5, <2>1, <2>2, <2>3 DEF RecordInv, NotedIsExchanged, NumbersOK
<1>8. /\ ack.to \in Peers /\ ack.number \in Nat /\ ack.number <= newest'[Other(ack.to)]
      /\ ack.number \in Exchanged' /\ ack.sequence = ack.number % Modulus
  <2>1. Other(p) \in Peers /\ Other(Other(p)) = p
    BY <1>2, TwoPeers
  <2>2. newest'[p] % Modulus = RemoteSequenceNum(handler'[p])
    <3>. DEFINE n == newest'[p]
    <3>1. n + 1 \in Nat /\ n <= n + 1 /\ n + 1 - n < Modulus /\ n + 1 - n = 1 /\ n \in Nat
      BY <1>7, Bounds
    <3>. HIDE DEF n
    <3>2. n % Modulus = WrappingSub((n + 1) % Modulus, 1)
      BY <3>1, NumbersApart
    <3>. QED
      BY <1>7, <3>2 DEF RemoteSequenceNum, n
  <2>. QED
    BY <1>5, <1>7, <2>1, <2>2
<1>9. \A q \in Peers : next[q] - ack.number <= MaxLag
  <2>. TAKE q \in Peers
  <2>1. next[q] \in Nat /\ next[q] - d.number <= MaxLag
    BY <1>2, <1>3 DEF HistoryOK, Near
  <2>2. next[q] - newest'[p] <= MaxLag
    BY <1>2, <1>5, <1>7, <2>1, Bounds
  <2>. QED
    BY <2>2
<1>10. ack.mask \subseteq 1 .. Redundant /\ \A i \in ack.mask : ack.number - i \in Exchanged'
  <2>. SUFFICES ASSUME NEW i \in AckBitfield(handler'[p])
                PROVE  i \in 1 .. Redundant /\ newest'[p] - i \in Exchanged'
    OBVIOUS
  <2>. DEFINE T == newest'[p] + 1
              g == handler'[p]
              noted_now == noted'[p]
  <2>1. T \in Nat /\ T - 1 = newest'[p]
    BY <1>7
  <2>2. g \in Handler /\ BufferIsSound(g.received_packets, T, noted_now) /\ i \in AckBitfield(g)
    BY <1>5, <1>7
  <2>3. noted_now \subseteq Exchanged'
    BY <1>7
  <2>. HIDE DEF T, g, noted_now
  <2>4. i \in 1 .. Redundant /\ T - 1 - i \in noted_now
    BY <2>1, <2>2, BitfieldIsSound
  <2>. QED
    BY <2>1, <2>3, <2>4
<1>. HIDE DEF ack
<1>11. AcksAreTrue'
  <2>. SUFFICES ASSUME NEW c \in ack_wire'
                PROVE  /\ c.to \in Peers /\ c.number \in Nat /\ c.number <= newest'[Other(c.to)]
                       /\ c.sequence = c.number % Modulus /\ c.number \in Exchanged'
                       /\ \A q \in Peers : next[q] - c.number <= MaxLag
                       /\ c.mask \subseteq 1 .. Redundant
                       /\ \A i \in c.mask : c.number - i \in Exchanged'
    BY <1>1 DEF AcksAreTrue, Near
  <2>1. CASE c = ack
    BY <1>8, <1>9, <1>10, <2>1
  <2>2. CASE c \in ack_wire
    <3>1. /\ c.number <= newest[Other(c.to)] /\ c.number \in Int /\ Other(c.to) \in Peers
          /\ newest[Other(c.to)] <= newest'[Other(c.to)]
          /\ newest[Other(c.to)] \in Int /\ newest'[Other(c.to)] \in Int
      BY <1>3, <1>5, <2>2, TwoPeers DEF AckInv, AcksAreTrue, HistoryOK, RecordInv
    <3>2. c.number <= newest'[Other(c.to)]
      BY <3>1
    <3>. QED
      BY <1>5, <2>2, <3>2 DEF AckInv, AcksAreTrue, Near
  <2>. QED
    BY <1>1, <2>1, <2>2
<1>. QED
  BY <1>5, <1>6, <1>11 DEF AckInv, RecordInv

(* gather_dropped_packets: what it gives up lies more than Redundant behind *)
(* the newest number recorded.                                              *)
LEMMA GatherKeepsInv ==
    ASSUME AckInv, NEW p \in Peers, GatherDroppedPackets(p)
    PROVE  AckInv'
<1>. DEFINE h == handler[p]
            g == WithoutDropped(h)
            gone == InFlight(h) \ InFlight(g)
<1>1. /\ handler \in [Peers -> Handler] /\ next \in [Peers -> Nat] /\ newest \in [Peers -> Int]
      /\ dropped \in [Peers -> SUBSET Nat]
  BY DEF AckInv, HistoryOK
<1>2. /\ handler' = [handler EXCEPT ![p] = g]
      /\ dropped' = [dropped EXCEPT ![p] = @ \cup (InFlight(handler[p]) \ InFlight(handler'[p]))]
      /\ UNCHANGED <<data_wire, ack_wire, next, arrived, noted, newest, acked>>
  BY DEF GatherDroppedPackets
<1>. HIDE DEF g
<1>3. /\ handler'[p] = g /\ dropped'[p] = dropped[p] \cup gone
      /\ \A q \in Peers : q # p => handler'[q] = handler[q] /\ dropped'[q] = dropped[q]
  BY <1>1, <1>2
<1>4. /\ g \in Handler
      /\ g.sequence_number = h.sequence_number
      /\ g.remote_ack_sequence_num = h.remote_ack_sequence_num
      /\ g.received_packets = h.received_packets
      /\ DOMAIN g.sent_packets = DOMAIN h.sent_packets \ DroppedSequences(h)
      /\ \A t \in DOMAIN g.sent_packets : g.sent_packets[t] = h.sent_packets[t]
  BY <1>1, DroppedFields DEF g
<1>5. InFlight(g) \subseteq InFlight(h)
  BY <1>4 DEF InFlight
<1>6. Exchanged' = Exchanged
  BY <1>2 DEF Exchanged
<1>7. ASSUME NEW n \in gone
      PROVE  n \in Nat /\ n + Redundant < newest[p] /\ n <= newest[p] /\ newest[p] \in Exchanged
  <2>1. PICK s \in DOMAIN h.sent_packets : n = h.sent_packets[s]
    BY DEF InFlight
  <2>2. s \in DroppedSequences(h)
    BY <1>4, <2>1 DEF InFlight
  <2>3. n \in Nat /\ n < next[p] /\ Near(n) /\ s = n % Modulus
    BY <2>1 DEF AckInv, SentIsRecent
  <2>. DEFINE r == h.remote_ack_sequence_num
              m == newest[p]
  <2>4. /\ m \in Int /\ m >= -1 /\ n - (m + 1) < MaxLag /\ (m + 1) - n <= MaxLag
        /\ r = WrappingSub((m + 1) % Modulus, 1) /\ m + 1 \in Nat
    BY <2>3, NearNewest DEF AckInv, NumbersOK
  <2>5. SequenceGreaterThan(r, s) /\ WrappingSub(r, s) > Redundant
    BY <2>2 DEF DroppedSequences, GivesUp, SequenceLessThan
  <2>. HIDE DEF r, m
  <2>6. ~ (n > m)
    <3>. SUFFICES ASSUME n > m PROVE FALSE
      OBVIOUS
    <3>. DEFINE u == (m + 1) % Modulus
                k == n - (m + 1)
    <3>1. k \in Nat /\ k + 1 \in 1 .. HalfRange - 1 /\ n - (m + 1) < Modulus /\ m + 1 <= n
      BY <2>3, <2>4, Bounds
    <3>2. u \in SequenceNumber /\ s \in SequenceNumber /\ WrappingSub(s, u) = k
      BY <2>3, <2>4, <3>1, NumbersApart
    <3>. HIDE DEF u, k
    <3>3. r \in SequenceNumber /\ WrappingSub(s, r) = k + 1
      <4>1. s \in 0 .. Modulus - 1 /\ u \in 0 .. Modulus - 1
        BY <3>2 DEF SequenceNumber
      <4>2. WrappingSub(u, 1) \in 0 .. Modulus - 1 /\ WrappingSub(s, WrappingSub(u, 1)) = k + 1
        BY <3>1, <3>2, <4>1, Bounds DEF WrappingSub
      <4>. QED
        BY <2>4, <4>2 DEF SequenceNumber, u
    <3>. QED
      BY <2>5, <3>1, <3>2, <3>3, AheadIsLater
  <2>7. WrappingSub(r, s) = m - n
    <3>1. m \in Nat /\ n <= m /\ m - n < Modulus /\ m <= m + 1 /\ m + 1 - m < Modulus /\ m + 1 - m = 1
      BY <2>3, <2>4, <2>6, Bounds
    <3>2. m % Modulus = WrappingSub((m + 1) % Modulus, 1)
      BY <2>4, <3>1, NumbersApart
    <3>. QED
      BY <2>3, <2>4, <3>1, <3>2, NumbersApart
  <2>8. n + Redundant < m /\ n <= m /\ m # -1
    BY <2>3, <2>4, <2>5, <2>7, Bounds
  <2>9. m \in Exchanged
    BY <2>8 DEF AckInv, NotedIsExchanged, m
  <2>. QED
    BY <2>3, <2>8, <2>9 DEF m
<1>8. HistoryOK'
  <2>1. handler' \in [Peers -> Handler]
    BY <1>1, <1>2, <1>4
  <2>2. dropped' \in [Peers -> SUBSET Nat]
    <3>1. dropped' = [dropped EXCEPT ![p] = @ \cup gone] /\ gone \subseteq Nat
      BY <1>2, <1>3, <1>7
    <3>. HIDE DEF gone
    <3>. QED
      BY <1>1, <3>1
  <2>. QED
    BY <1>2, <2>1, <2>2 DEF AckInv, HistoryOK
<1>9. NumbersOK'
  BY <1>2, <1>3, <1>4 DEF AckInv, NumbersOK
<1>10. NotedIsExchanged' /\ AckedWasReceived'
  BY <1>2, <1>6 DEF AckInv, NotedIsExchanged, AckedWasReceived
<1>11. SentIsRecent'
  BY <1>2, <1>3, <1>4 DEF AckInv, SentIsRecent, Near
<1>12. DataIsRecent' /\ AcksAreTrue'
  BY <1>2, <1>6 DEF AckInv, DataIsRecent, AcksAreTrue, Near
<1>13. NewestFollows'
  <2>. SUFFICES ASSUME NEW q \in Peers, NEW n \in acked[q] \cup dropped'[q] PROVE n <= newest[q]
    BY <1>2 DEF AckInv, NewestFollows
  <2>1. CASE n \in acked[q] \cup dropped[q]
    BY <2>1 DEF AckInv, NewestFollows
  <2>2. CASE n \notin acked[q] \cup dropped[q]
    BY <1>3, <1>7, <2>2
  <2>. QED
    BY <2>1, <2>2
<1>14. BufferIsExact'
  <2>. SUFFICES ASSUME NEW q \in Peers
                PROVE  /\ BufferIsSound(handler'[q].received_packets, newest[q] + 1, noted[q])
                       /\ BufferIsComplete(handler'[q].received_packets, newest[q] + 1, noted[q])
    BY <1>2 DEF BufferIsExact, BufferIsSound, BufferIsComplete
  <2>1. handler'[q].received_packets = handler[q].received_packets
    BY <1>3, <1>4
  <2>. QED
    BY <2>1 DEF AckInv, BufferIsExact
<1>15. EveryPacketAccounted'
  <2>. SUFFICES ASSUME NEW q \in Peers
                PROVE  /\ InFlight(handler'[q]) \cup acked[q] \cup dropped'[q] = 0 .. next[q] - 1
                       /\ acked[q] \cap dropped'[q] = {}
                       /\ InFlight(handler'[q]) \cap (acked[q] \cup dropped'[q]) = {}
    BY <1>2 DEF EveryPacketAccounted, InFlight
  <2>0. /\ InFlight(handler[q]) \cup acked[q] \cup dropped[q] = 0 .. next[q] - 1
        /\ acked[q] \cap dropped[q] = {}
        /\ InFlight(handler[q]) \cap (acked[q] \cup dropped[q]) = {}
    BY DEF AckInv, EveryPacketAccounted
  <2>1. CASE q = p
    BY <1>3, <1>5, <2>0, <2>1
  <2>2. CASE q # p
    BY <1>3, <2>0, <2>2
  <2>. QED
    BY <2>1, <2>2
<1>16. DroppedIsPastTheWindow'
  <2>. SUFFICES ASSUME NEW q \in Peers, NEW n \in dropped'[q]
                PROVE  \E m \in Exchanged : m > n + Redundant
    BY <1>6 DEF DroppedIsPastTheWindow
  <2>1. CASE n \in dropped[q]
    BY <2>1 DEF AckInv, DroppedIsPastTheWindow
  <2>2. CASE n \notin dropped[q]
    <3>1. q = p /\ n \in gone
      BY <1>3, <2>2
    <3>2. n \in Nat /\ n + Redundant < newest[p] /\ newest[p] \in Exchanged /\ newest[p] \in Int
      BY <1>1, <1>7, <3>1
    <3>. QED
      BY <3>2, Bounds
  <2>. QED
    BY <2>1, <2>2
<1>. QED
  BY <1>8, <1>9, <1>10, <1>11, <1>12, <1>13, <1>14, <1>15, <1>16 DEF AckInv

(* process_outgoing: the sequence number it takes is not in sent_packets.   *)
LEMMA SendKeepsInv ==
    ASSUME AckInv, NEW p \in Peers, Send(p)
    PROVE  AckInv'
<1>. DEFINE h == handler[p]
            n == next[p]
            g == ProcessOutgoing(h, n)
            packet == [to |-> Other(p), sequence |-> h.sequence_number, number |-> n]
<1>1. /\ handler \in [Peers -> Handler] /\ next \in [Peers -> Nat] /\ newest \in [Peers -> Int]
  BY DEF AckInv, HistoryOK
<1>2. /\ next' = [next EXCEPT ![p] = n + 1] /\ handler' = [handler EXCEPT ![p] = g]
      /\ \A q \in Peers : \A k \in InFlight(handler'[q]) : Recent(k)
      /\ data_wire' = {d \in data_wire : Recent(d.number)} \cup {packet}
      /\ ack_wire' = {a \in ack_wire : Recent(a.number)}
      /\ UNCHANGED <<arrived, noted, newest, acked, dropped>>
  BY DEF Send
<1>. HIDE DEF g
<1>3. /\ handler'[p] = g /\ next'[p] = n + 1 /\ n \in Nat
      /\ \A q \in Peers : q # p => handler'[q] = handler[q] /\ next'[q] = next[q]
  BY <1>1, <1>2
<1>4. \A q \in Peers : next[q] \in Nat /\ next'[q] \in Nat /\ next[q] <= next'[q]
  BY <1>1, <1>3
<1>5. /\ g \in Handler
      /\ g.sequence_number = WrappingAdd(h.sequence_number, 1)
      /\ g.remote_ack_sequence_num = h.remote_ack_sequence_num
      /\ g.received_packets = h.received_packets
      /\ DOMAIN g.sent_packets = DOMAIN h.sent_packets \cup {h.sequence_number}
      /\ \A t \in DOMAIN g.sent_packets :
           g.sent_packets[t] = IF t = h.sequence_number THEN n ELSE h.sent_packets[t]
  <2>1. h \in Handler /\ n \in Int
    BY <1>1, <1>3
  <2>. HIDE DEF h, n
  <2>. QED
    BY <2>1, OutgoingFields DEF g
<1>6. h.sequence_number = n % Modulus
  BY DEF AckInv, NumbersOK
<1>7. h.sequence_number \notin DOMAIN h.sent_packets
  <2>. SUFFICES ASSUME h.sequence_number \in DOMAIN h.sent_packets PROVE FALSE
    OBVIOUS
  <2>. DEFINE k == h.sent_packets[h.sequence_number]
  <2>1. k \in Nat /\ k < n /\ n - k <= MaxLag /\ k % Modulus = n % Modulus
    BY <1>6 DEF AckInv, SentIsRecent, Near
  <2>. HIDE DEF k, n
  <2>2. n \in Nat
    BY <1>1 DEF n
  <2>3. n - k < Modulus /\ k - n < Modulus
    BY <2>1, <2>2, Bounds
  <2>4. k = n
    BY <2>1, <2>2, <2>3, SameNumber
  <2>. QED
    BY <2>1, <2>4
<1>8. InFlight(g) = InFlight(h) \cup {n}
  BY <1>5, <1>7 DEF InFlight
<1>. HIDE DEF n
<1>9. Exchanged' = Exchanged
  BY <1>2 DEF Exchanged
<1>10. Recent(n)
  BY <1>2, <1>3, <1>8
<1>11. HistoryOK'
  <2>1. handler' \in [Peers -> Handler] /\ next' \in [Peers -> Nat]
    BY <1>1, <1>2, <1>3, <1>5
  <2>2. ASSUME NEW q \in Peers, NEW k \in arrived[q] PROVE k < next'[Other(q)]
    <3>1. k < next[Other(q)] /\ k \in Nat /\ Other(q) \in Peers
      BY TwoPeers DEF AckInv, HistoryOK
    <3>. QED
      BY <1>4, <3>1
  <2>. QED
    BY <1>2, <2>1, <2>2 DEF AckInv, HistoryOK
<1>12. NumbersOK'
  <2>1. g.sequence_number = (n + 1) % Modulus
    BY <1>3, <1>5, <1>6, SequenceAfter
  <2>. QED
    BY <1>2, <1>3, <1>5, <2>1 DEF AckInv, NumbersOK
<1>13. NotedIsExchanged' /\ AckedWasReceived' /\ DroppedIsPastTheWindow'
  BY <1>2, <1>9 DEF AckInv, NotedIsExchanged, AckedWasReceived, DroppedIsPastTheWindow
<1>14. SentIsRecent'
  <2>. SUFFICES ASSUME NEW q \in Peers, NEW s \in DOMAIN handler'[q].sent_packets
                PROVE  LET k == handler'[q].sent_packets[s]
                       IN  k \in Nat /\ k < next'[q] /\ Recent(k) /\ s = k % Modulus
    BY DEF SentIsRecent, Near, Recent
  <2>. DEFINE k == handler'[q].sent_packets[s]
  <2>1. Recent(k)
    BY <1>2 DEF InFlight
  <2>2. CASE q # p
    BY <1>3, <2>1, <2>2 DEF AckInv, SentIsRecent
  <2>3. CASE q = p /\ s = h.sequence_number
    <3>1. k = n
      BY <1>3, <1>5, <2>3
    <3>. QED
      BY <1>3, <1>6, <2>1, <2>3, <3>1
  <2>4. CASE q = p /\ s # h.sequence_number
    <3>1. s \in DOMAIN h.sent_packets /\ k = h.sent_packets[s]
      BY <1>3, <1>5, <2>4
    <3>2. k \in Nat /\ k < n /\ s = k % Modulus
      BY <3>1 DEF AckInv, SentIsRecent, n
    <3>. HIDE DEF k
    <3>3. k < next'[q]
      BY <1>3, <2>4, <3>2
    <3>. QED
      BY <2>1, <3>2, <3>3 DEF k
  <2>. QED
    BY <2>2, <2>3, <2>4
<1>15. DataIsRecent'
  <2>. SUFFICES ASSUME NEW d \in data_wire'
                PROVE  /\ d.to \in Peers /\ d.number \in Nat /\ d.number < next'[Other(d.to)]
                       /\ Recent(d.number) /\ d.sequence = d.number % Modulus
    BY DEF DataIsRecent, Near, Recent
  <2>1. CASE d = packet
    <3>1. d.to = Other(p) /\ d.sequence = h.sequence_number /\ d.number = n
      BY <2>1
    <3>2. Other(p) \in Peers /\ Other(Other(p)) = p /\ n < next'[p]
      BY <1>3, TwoPeers
    <3>. QED
      BY <1>3, <1>6, <1>10, <3>1, <3>2
  <2>2. CASE d \in data_wire /\ Recent(d.number)
    <3>1. /\ d.to \in Peers /\ d.number \in Nat /\ d.number < next[Other(d.to)]
          /\ d.sequence = d.number % Modulus /\ Other(d.to) \in Peers
      BY <2>2, TwoPeers DEF AckInv, DataIsRecent
    <3>2. d.number < next'[Other(d.to)]
      BY <1>4, <3>1
    <3>. QED
      BY <2>2, <3>1, <3>2
  <2>. QED
    BY <1>2, <2>1, <2>2
<1>16. AcksAreTrue'
  BY <1>2, <1>9 DEF AckInv, AcksAreTrue, Near, Recent
<1>17. NewestFollows'
  <2>. SUFFICES ASSUME NEW q \in Peers
                PROVE  newest[q] <= newest[Other(q)] \/ newest[q] < next'[Other(q)]
    BY <1>2 DEF AckInv, NewestFollows
  <2>1. /\ newest[q] \in Int /\ Other(q) \in Peers /\ next[Other(q)] <= next'[Other(q)]
        /\ next[Other(q)] \in Nat /\ next'[Other(q)] \in Nat
        /\ newest[q] <= newest[Other(q)] \/ newest[q] < next[Other(q)]
    BY <1>1, <1>4, TwoPeers DEF AckInv, NewestFollows
  <2>. QED
    BY <2>1
<1>18. BufferIsExact'
  <2>. SUFFICES ASSUME NEW q \in Peers
                PROVE  /\ BufferIsSound(handler'[q].received_packets, newest[q] + 1, noted[q])
                       /\ BufferIsComplete(handler'[q].received_packets, newest[q] + 1, noted[q])
    BY <1>2 DEF BufferIsExact, BufferIsSound, BufferIsComplete
  <2>1. handler'[q].received_packets = handler[q].received_packets
    BY <1>3, <1>5
  <2>. QED
    BY <2>1 DEF AckInv, BufferIsExact
<1>19. EveryPacketAccounted'
  <2>. SUFFICES ASSUME NEW q \in Peers
                PROVE  /\ InFlight(handler'[q]) \cup acked[q] \cup dropped[q] = 0 .. next'[q] - 1
                       /\ acked[q] \cap dropped[q] = {}
                       /\ InFlight(handler'[q]) \cap (acked[q] \cup dropped[q]) = {}
    BY <1>2 DEF EveryPacketAccounted, InFlight
  <2>0. /\ InFlight(handler[q]) \cup acked[q] \cup dropped[q] = 0 .. next[q] - 1
        /\ acked[q] \cap dropped[q] = {}
        /\ InFlight(handler[q]) \cap (acked[q] \cup dropped[q]) = {}
    BY DEF AckInv, EveryPacketAccounted
  <2>1. CASE q = p
    <3>1. 0 .. (n + 1) - 1 = (0 .. n - 1) \cup {n} /\ n \notin 0 .. n - 1
      BY <1>3
    <3>2. next[q] = n /\ next'[q] = n + 1 /\ handler[q] = h /\ handler'[q] = g
      BY <1>3, <2>1 DEF n
    <3>. QED
      BY <1>8, <2>0, <3>1, <3>2
  <2>2. CASE q # p
    BY <1>3, <2>0, <2>2
  <2>. QED
    BY <2>1, <2>2
<1>. QED
  BY <1>11, <1>12, <1>13, <1>14, <1>15, <1>16, <1>17, <1>18, <1>19 DEF AckInv

-----------------------------------------------------------------------------
(* The initial state. *)

(* The greatest element of a set of numbers below a bound.                  *)
LEMMA GreatestBelow ==
    ASSUME NEW n \in Nat, NEW S, S \subseteq 0 .. n - 1, S # {}
    PROVE  Max(S) \in S /\ \A y \in S : Max(S) >= y
<1>. DEFINE D == {j \in Nat : n - j \in S}
<1>1. D # {} /\ D \subseteq Nat
  <2>1. PICK x \in S : TRUE
    OBVIOUS
  <2>2. x \in Int /\ x <= n - 1
    OBVIOUS
  <2>3. n - x \in Nat /\ n - (n - x) = x
    BY <2>2
  <2>4. n - x \in D
    BY <2>3
  <2>. QED
    BY <2>4
<1>2. PICK j \in D : \A k \in D : j <= k
  BY <1>1, Facts!LeastNatural
<1>3. n - j \in S /\ j \in Nat
  BY <1>2
<1>4. \A y \in S : n - j >= y
  <2>. TAKE y \in S
  <2>1. y \in Int /\ y <= n - 1
    OBVIOUS
  <2>2. n - y \in Nat /\ n - (n - y) = y
    BY <2>1
  <2>3. j <= n - y
    BY <1>2, <2>2
  <2>. QED
    BY <1>3, <2>1, <2>3
<1>. HIDE DEF D
<1>5. \E x \in S : \A y \in S : x >= y
  BY <1>3, <1>4
<1>. QED
  BY <1>5 DEF Max

(* The handlers of a stream that starts at n satisfy the buffer's part of   *)
(* the invariant.                                                           *)
LEMMA BufferAtStart ==
    ASSUME NEW n \in Nat, NEW p, NEW b, b = HandlerAt(p, n).received_packets
    PROVE  /\ b \in Buffer /\ b.sequence_num = n % Modulus
           /\ BufferIsSound(b, n, 0 .. n - 1)
           /\ BufferIsComplete(b, n, 0 .. n - 1)
<1>. DEFINE latest(i) == {m \in Max({0, n - Size}) .. n - 1 : Index(m % Modulus) = i}
            a == n % Modulus
            e == LastReceived(n)
            lo == Max({0, n - Size})
<1>1. lo = IF n - Size > 0 THEN n - Size ELSE 0
  <2>. DEFINE x == IF n - Size > 0 THEN n - Size ELSE 0
  <2>1. x \in {0, n - Size} /\ \A y \in {0, n - Size} : x >= y
    BY Bounds
  <2>2. \A z \in {0, n - Size} : (\A y \in {0, n - Size} : z >= y) => z = x
    BY Bounds
  <2>. HIDE DEF x
  <2>3. lo = x
    BY <2>1, <2>2 DEF Max
  <2>. QED
    BY <2>3 DEF x
<1>2. /\ a \in SequenceNumber
      /\ \A k \in 0 .. n : k < Modulus => (n - k) % Modulus = WrappingSub(a, k)
  <2>1. 0 \in 0 .. n /\ 0 < Modulus
    BY Bounds
  <2>. QED
    BY <2>1, SequenceBefore
<1>3. \A i \in 0 .. Size - 1 :
        e[i] = IF latest(i) = {} THEN Empty ELSE Max(latest(i)) % Modulus
  BY DEF LastReceived
<1>4. \A i : latest(i) # {} => Max(latest(i)) \in latest(i) /\ \A y \in latest(i) : Max(latest(i)) >= y
  <2>. TAKE i
  <2>1. latest(i) \subseteq 0 .. n - 1
    BY <1>1, Bounds
  <2>. HIDE DEF latest
  <2>. QED
    BY <2>1, GreatestBelow
<1>. HIDE DEF lo, a
<1>5. \A i : \A m \in latest(i) :
        /\ m \in 0 .. n - 1 /\ n - m \in 1 .. Size /\ m % Modulus = WrappingSub(a, n - m)
        /\ m % Modulus \in SequenceNumber /\ Index(m % Modulus) = i
  <2>. TAKE i
  <2>. TAKE m \in latest(i)
  <2>1. m \in lo .. n - 1 /\ Index(m % Modulus) = i
    BY DEF lo
  <2>2. m \in 0 .. n - 1 /\ n - m \in 1 .. Size /\ n - m \in 0 .. n /\ n - m < Modulus /\ n - (n - m) = m
    BY <1>1, <2>1, Bounds
  <2>3. m % Modulus = WrappingSub(a, n - m) /\ n - m \in SequenceNumber
    <3>. DEFINE k == n - m
    <3>1. k \in 0 .. n /\ k < Modulus /\ n - k = m
      BY <2>2
    <3>. HIDE DEF k
    <3>2. m % Modulus = WrappingSub(a, k) /\ k \in SequenceNumber
      BY <1>2, <3>1, Bounds DEF SequenceNumber
    <3>. QED
      BY <3>2 DEF k
  <2>. QED
    BY <1>2, <2>1, <2>2, <2>3, DistanceType
<1>6. b.sequence_num = a /\ b.entry_sequences = e
      /\ DOMAIN b = {"sequence_num", "entry_sequences"}
      /\ b = [sequence_num |-> a, entry_sequences |-> e]
  BY DEF HandlerAt, NewBuffer, a
<1>7. e \in [0 .. Size - 1 -> SequenceNumber \cup {Empty}]
  <2>1. \A i \in 0 .. Size - 1 : e[i] \in SequenceNumber \cup {Empty}
    <3>. HIDE DEF latest, e
    <3>. QED
      BY <1>3, <1>4, <1>5
  <2>. QED
    BY <2>1 DEF LastReceived
<1>8. b \in Buffer
  BY <1>2, <1>6, <1>7 DEF Buffer
<1>. HIDE DEF e, latest
<1>9. BufferIsSound(b, n, 0 .. n - 1)
  <2>. SUFFICES ASSUME NEW i \in 0 .. Size - 1, e[i] # Empty
                PROVE  LET k == WrappingSub(a, e[i])
                       IN  n - k \in 0 .. n - 1
    BY <1>6 DEF BufferIsSound
  <2>. DEFINE m == Max(latest(i))
  <2>1. m \in latest(i) /\ e[i] = m % Modulus
    BY <1>3, <1>4
  <2>2. m \in 0 .. n - 1 /\ n - m \in 1 .. Size /\ e[i] = WrappingSub(a, n - m)
    BY <1>5, <2>1
  <2>. HIDE DEF m
  <2>3. n - m \in SequenceNumber /\ n - (n - m) = m
    BY <2>2, ConstantTypes
  <2>4. WrappingSub(a, e[i]) = n - m
    BY <1>2, <2>2, <2>3, DistanceBetween
  <2>. QED
    BY <2>2, <2>3, <2>4
<1>10. BufferIsComplete(b, n, 0 .. n - 1)
  <2>. DEFINE v == WrappingSub(a, 1)
  <2>. SUFFICES ASSUME NEW m \in 0 .. n - 1, n - 1 - m \in 0 .. Redundant, n - 1 - m <= v
                PROVE  e[Index(v - (n - 1 - m))] = v - (n - 1 - m)
    BY <1>6 DEF BufferIsComplete
  <2>. DEFINE i == n - 1 - m
              x == v - i
  <2>1. \A j \in 0 .. Redundant : j <= v /\ j + 1 <= n =>
           (n - (j + 1)) % Modulus = v - j /\ v - j \in Nat
    <3>. TAKE j \in 0 .. Redundant
    <3>. HAVE j <= v /\ j + 1 <= n
    <3>1. j + 1 \in 0 .. n /\ j + 1 < Modulus
      BY Bounds
    <3>2. (n - (j + 1)) % Modulus = WrappingSub(a, j + 1)
      BY <1>2, <3>1
    <3>3. WrappingSub(a, j + 1) = v - j /\ v - j \in Nat
      <4>1. j \in Nat /\ j <= Redundant
        BY Bounds
      <4>. QED
        BY <1>2, <4>1, ConstantTypes DEF WrappingSub
    <3>. QED
      BY <3>2, <3>3
  <2>. HIDE DEF v
  <2>2. i \in 0 .. Redundant /\ i + 1 <= n /\ m = n - (i + 1) /\ i \in Int
    BY Bounds
  <2>3. m % Modulus = x /\ x \in Nat
    BY <2>1, <2>2
  <2>4. m \in latest(Index(x))
    <3>1. m \in lo .. n - 1
      BY <1>1, Bounds
    <3>. QED
      BY <2>3, <3>1 DEF latest, lo
  <2>. DEFINE y == Max(latest(Index(x)))
  <2>5. y \in latest(Index(x)) /\ y >= m
    BY <1>4, <2>4
  <2>6. y \in 0 .. n - 1 /\ Index(y % Modulus) = Index(x)
    BY <1>5, <2>5
  <2>. HIDE DEF y
  <2>7. y = m
    <3>. SUFFICES ASSUME y > m PROVE FALSE
      BY <2>5, <2>6
    <3>. DEFINE j == n - 1 - y
    <3>1. j \in 0 .. Redundant /\ j < i /\ j <= v /\ j + 1 <= n /\ y = n - (j + 1)
      <4>1. m \in Int /\ y \in Int /\ n \in Int /\ y <= n - 1 /\ y >= 0
        BY <2>6
      <4>2. v \in Int
        BY <1>2, ConstantTypes DEF v, WrappingSub
      <4>. QED
        BY <2>2, <4>1, <4>2, Bounds
    <3>. HIDE DEF j
    <3>2. y % Modulus = v - j /\ v - j \in Nat
      BY <2>1, <3>1
    <3>. DEFINE z == v - j
    <3>3. x < z /\ z - x < Size
      <4>1. v \in Int
        BY <1>2, ConstantTypes DEF v, WrappingSub
      <4>2. i \in Int /\ j \in Int /\ i <= Redundant /\ j >= 0 /\ j < i
        BY <2>2, <3>1, Bounds
      <4>. HIDE DEF i
      <4>. QED
        BY <4>1, <4>2, Bounds
    <3>4. z \in Nat /\ Index(z) = Index(x)
      BY <2>6, <3>2
    <3>. HIDE DEF x, z
    <3>. QED
      BY <2>3, <3>3, <3>4, SlotsAreDistinct
  <2>8. e[Index(x)] = x
    <3>1. Index(x) \in 0 .. Size - 1 /\ latest(Index(x)) # {}
      BY <2>3, <2>4, SlotType
    <3>. HIDE DEF x
    <3>. QED
      BY <1>3, <2>3, <2>7, <3>1 DEF y
  <2>. QED
    BY <2>8
<1>. QED
  BY <1>6, <1>8, <1>9, <1>10 DEF a

(* The state after the first packets of the streams satisfies the           *)
(* invariant.                                                               *)
LEMMA InitAckInv == Init => AckInv
<1>. SUFFICES ASSUME Init PROVE AckInv
  OBVIOUS
<1>1. PICK n \in Starts :
        /\ handler = [p \in Peers |-> HandlerAt(p, n)]
        /\ next = [p \in Peers |-> SentBefore(p, n)]
        /\ arrived = [p \in Peers |-> 0 .. SentBefore(Other(p), n) - 1]
        /\ acked = [p \in Peers |-> 0 .. SentBefore(p, n) - 1]
        /\ noted = [p \in Peers |-> 0 .. n - 1] /\ newest = [p \in Peers |-> n - 1]
        /\ dropped = [p \in Peers |-> {}]
        /\ data_wire = {} /\ ack_wire = {}
  BY DEF Init
<1>2. n \in Nat
  BY AcknowledgmentAssumption
<1>3. \A p : SentBefore(p, n) \in Nat /\ SentBefore(p, n) <= n
  BY <1>2 DEF SentBefore
<1>. DEFINE z == (n + Modulus - 1) % Modulus
            a == n % Modulus
<1>4. a \in SequenceNumber /\ z \in SequenceNumber /\ z = WrappingSub(a, 1)
  <2>1. n + Modulus - 1 \in Nat /\ 0 \in 0 .. n + Modulus - 1 /\ 0 < Modulus /\ 0 \in 0 .. n
        /\ (n + Modulus - 1) + 1 = n + Modulus
    BY <1>2, Bounds
  <2>2. a \in SequenceNumber /\ z \in SequenceNumber
    BY <1>2, <2>1, SequenceBefore
  <2>3. (n + Modulus) % Modulus = WrappingAdd(z, 1)
    BY <2>1, SequenceAfter
  <2>4. (n + Modulus) % Modulus = a
    <3>. DEFINE q == n \div Modulus
    <3>0. Modulus \in Nat /\ Modulus > 0
      BY <2>1, Bounds
    <3>1. q \in Nat /\ a \in 0 .. Modulus - 1 /\ n = Modulus * q + a
      BY <1>2, <3>0, Facts!Division
    <3>. HIDE DEF q, a
    <3>2. n + Modulus = Modulus * (q + 1) + a /\ n + Modulus \in Nat /\ q + 1 \in Int
      BY <1>2, <3>0, <3>1
    <3>. QED
      BY <3>0, <3>1, <3>2, Facts!DivisionIsUnique
  <2>. HIDE DEF a, z
  <2>. QED
    BY <2>2, <2>3, <2>4, DistanceOfNext
<1>5. ASSUME NEW p \in Peers
      PROVE  /\ handler[p] \in Handler
             /\ handler[p].sequence_number = next[p] % Modulus
             /\ handler[p].received_packets.sequence_num = a
             /\ handler[p].remote_ack_sequence_num = z
             /\ DOMAIN handler[p].sent_packets = {}
             /\ BufferIsSound(handler[p].received_packets, n, 0 .. n - 1)
             /\ BufferIsComplete(handler[p].received_packets, n, 0 .. n - 1)
  <2>. DEFINE b == HandlerAt(p, n).received_packets
  <2>1. /\ b \in Buffer /\ b.sequence_num = a
        /\ BufferIsSound(b, n, 0 .. n - 1) /\ BufferIsComplete(b, n, 0 .. n - 1)
    BY <1>2, BufferAtStart
  <2>. DEFINE s == SentBefore(p, n) % Modulus
  <2>2. /\ HandlerAt(p, n) = [sequence_number |-> s, remote_ack_sequence_num |-> z,
                              sent_packets |-> [k \in {} |-> 0], received_packets |-> b]
        /\ s = next[p] % Modulus /\ handler[p] = HandlerAt(p, n)
    BY <1>1 DEF HandlerAt
  <2>3. s \in SequenceNumber
    <3>1. 0 \in 0 .. SentBefore(p, n) /\ 0 < Modulus /\ SentBefore(p, n) \in Nat
      BY <1>3, Bounds
    <3>. QED
      BY <3>1, SequenceBefore
  <2>. HIDE DEF b, s, z, a
  <2>4. [k \in {} |-> 0] \in Packets
    <3>1. [k \in {} |-> 0] \in [{} -> Int] /\ {} \in SUBSET SequenceNumber
      OBVIOUS
    <3>. QED
      BY <3>1, PacketsTable
  <2>5. handler[p] \in Handler
    BY <1>4, <2>1, <2>2, <2>3, <2>4 DEF Handler
  <2>. QED
    BY <2>1, <2>2, <2>5
<1>. HIDE DEF a, z
<1>6. \A p \in Peers :
        /\ next[p] = SentBefore(p, n) /\ next[p] \in Nat /\ next[p] <= n
        /\ arrived[p] = 0 .. next[Other(p)] - 1 /\ acked[p] = 0 .. next[p] - 1
        /\ noted[p] = 0 .. n - 1 /\ newest[p] = n - 1 /\ dropped[p] = {}
  BY <1>1, <1>3, TwoPeers
<1>7. 0 .. n - 1 \subseteq Exchanged
  <2>1. PICK r \in Senders : TRUE
    BY AcknowledgmentAssumption
  <2>2. r \in Peers /\ Other(r) \in Peers /\ Other(Other(r)) = r /\ next[r] = n
    BY <1>6, AcknowledgmentAssumption, TwoPeers DEF SentBefore
  <2>3. arrived[Other(r)] = 0 .. n - 1
    BY <1>6, <2>2
  <2>. QED
    BY <2>2, <2>3 DEF Exchanged
<1>8. HistoryOK
  <2>1. /\ handler \in [Peers -> Handler] /\ next \in [Peers -> Nat] /\ newest \in [Peers -> Int]
    BY <1>1, <1>2, <1>3, <1>5
  <2>2. /\ arrived \in [Peers -> SUBSET Nat] /\ noted \in [Peers -> SUBSET Nat]
        /\ acked \in [Peers -> SUBSET Nat] /\ dropped \in [Peers -> SUBSET Nat]
    BY <1>1
  <2>3. \A p \in Peers : \A m \in arrived[p] : m < next[Other(p)]
    BY <1>6, TwoPeers
  <2>. QED
    BY <2>1, <2>2, <2>3 DEF HistoryOK
<1>9. NumbersOK
  <2>. SUFFICES ASSUME NEW p \in Peers
                PROVE  /\ newest[p] + 1 \in Nat
                       /\ handler[p].sequence_number = next[p] % Modulus
                       /\ handler[p].received_packets.sequence_num = (newest[p] + 1) % Modulus
                       /\ handler[p].remote_ack_sequence_num
                            = WrappingSub((newest[p] + 1) % Modulus, 1)
    BY DEF NumbersOK
  <2>1. newest[p] + 1 = n
    BY <1>2, <1>6
  <2>. QED
    BY <1>2, <1>4, <1>5, <2>1 DEF a
<1>10. NotedIsExchanged
  <2>. SUFFICES ASSUME NEW p \in Peers
                PROVE  /\ noted[p] \subseteq Exchanged
                       /\ newest[p] = -1 \/ newest[p] \in noted[p]
                       /\ \A m \in noted[p] : m <= newest[p]
    BY DEF NotedIsExchanged
  <2>1. noted[p] = 0 .. n - 1 /\ newest[p] = n - 1
    BY <1>6
  <2>. QED
    BY <1>2, <1>7, <2>1
<1>11. SentIsRecent /\ DataIsRecent /\ AcksAreTrue
  BY <1>1, <1>5 DEF SentIsRecent, DataIsRecent, AcksAreTrue
<1>12. NewestFollows
  <2>. SUFFICES ASSUME NEW p \in Peers
                PROVE  /\ newest[p] <= newest[Other(p)]
                       /\ \A m \in acked[p] \cup dropped[p] : m <= newest[p]
    BY DEF NewestFollows
  <2>1. /\ newest[p] = n - 1 /\ newest[Other(p)] = n - 1 /\ next[p] \in Nat /\ next[p] <= n
        /\ acked[p] = 0 .. next[p] - 1 /\ dropped[p] = {}
    BY <1>6, TwoPeers
  <2>. QED
    BY <1>2, <2>1
<1>13. BufferIsExact
  <2>. SUFFICES ASSUME NEW p \in Peers
                PROVE  /\ BufferIsSound(handler[p].received_packets, newest[p] + 1, noted[p])
                       /\ BufferIsComplete(handler[p].received_packets, newest[p] + 1, noted[p])
    BY DEF BufferIsExact
  <2>1. newest[p] + 1 = n /\ noted[p] = 0 .. n - 1
    BY <1>2, <1>6
  <2>. QED
    BY <1>5, <2>1
<1>14. EveryPacketAccounted
  <2>1. \A p \in Peers : InFlight(handler[p]) = {}
    BY <1>5 DEF InFlight
  <2>. QED
    BY <1>6, <2>1 DEF EveryPacketAccounted
<1>15. AckedWasReceived /\ DroppedIsPastTheWindow
  <2>1. \A p \in Peers : acked[p] \subseteq 0 .. n - 1
    BY <1>2, <1>6
  <2>. QED
    BY <1>6, <1>7, <2>1 DEF AckedWasReceived, DroppedIsPastTheWindow
<1>. QED
  BY <1>8, <1>9, <1>10, <1>11, <1>12, <1>13, <1>14, <1>15 DEF AckInv

(* The invariant holds in every behaviour of the two handlers.              *)
LEMMA AckInvariant == Spec => []AckInv
<1>1. Init => AckInv
  BY InitAckInv
<1>2. AckInv /\ [Next]_vars => AckInv'
  <2>. SUFFICES ASSUME AckInv, [Next]_vars PROVE AckInv'
    OBVIOUS
  <2>1. CASE UNCHANGED vars
    BY <2>1, LossKeepsInv DEF vars
  <2>2. CASE \E p \in Peers : Send(p) \/ GatherDroppedPackets(p)
    BY <2>2, SendKeepsInv, GatherKeepsInv
  <2>3. CASE \E d \in data_wire : ReceiveData(d) \/ LoseData(d)
    BY <2>3, ReceiveDataKeepsInv, LossKeepsInv DEF LoseData
  <2>4. CASE \E a \in ack_wire : ReceiveAck(a) \/ LoseAck(a)
    BY <2>4, ReceiveAckKeepsInv, LossKeepsInv DEF LoseAck
  <2>. QED
    BY <2>1, <2>2, <2>3, <2>4 DEF Next
<1>. QED
  BY <1>1, <1>2, PTL DEF Spec

-----------------------------------------------------------------------------
(* The theorems. *)

(* A packet leaves sent_packets as acknowledged only if data with its very  *)
(* number was received, by the other end or, crossing it, by this one,      *)
(* whatever is lost, repeated or reordered and however often the sequence   *)
(* number wraps.                                                            *)
THEOREM AckedReceived == Spec => []AckedWasReceived
<1>1. AckInv => AckedWasReceived
  BY DEF AckInv
<1>. QED
  BY <1>1, AckInvariant, PTL

(* When only one end sends, what leaves its sent_packets as acknowledged    *)
(* was received by the other end: the counterexample to                     *)
(* InFlightUntilReceived needs data in both directions.                     *)
THEOREM OneWayInFlight ==
    ASSUME NEW sender \in Peers, Senders = {sender}
    PROVE  Spec => []InFlightUntilReceived
<1>. DEFINE Quiet == next[Other(sender)] = 0
<1>1. Init => Quiet
  BY TwoPeers DEF Init, SentBefore
<1>2. AckInv /\ Quiet /\ [Next]_vars => Quiet'
  <2>. SUFFICES ASSUME AckInv, Quiet, [Next]_vars PROVE Quiet'
    OBVIOUS
  <2>1. next \in [Peers -> Nat] /\ Other(sender) \in Peers /\ Other(sender) # sender
    BY TwoPeers DEF AckInv, HistoryOK
  <2>2. CASE \E p \in Peers : Send(p)
    BY <2>1, <2>2 DEF Send
  <2>3. CASE UNCHANGED next
    BY <2>3
  <2>. QED
    BY <2>2, <2>3 DEF Next, vars, GatherDroppedPackets, ReceiveData, ReceiveAck, LoseData, LoseAck
<1>3. AckInv /\ Quiet => InFlightUntilReceived
  <2>. SUFFICES ASSUME AckInv, Quiet, NEW p \in Peers, NEW n \in acked[p]
                PROVE  n \in arrived[Other(p)]
    BY DEF InFlightUntilReceived
  <2>1. /\ \A q \in Peers : arrived[q] \in SUBSET Nat /\ \A k \in arrived[q] : k < next[Other(q)]
        /\ Other(Other(sender)) = sender /\ Other(sender) \in Peers
    BY TwoPeers DEF AckInv, HistoryOK
  <2>2. arrived[sender] = {}
    <3>. SUFFICES ASSUME NEW k \in arrived[sender] PROVE FALSE
      OBVIOUS
    <3>1. k \in Nat /\ k < next[Other(sender)]
      BY <2>1
    <3>. QED
      BY <3>1
  <2>3. p = sender
    <3>. SUFFICES ASSUME p = Other(sender) PROVE FALSE
      BY TwoPeers
    <3>1. n \in 0 .. next[p] - 1
      BY DEF AckInv, EveryPacketAccounted
    <3>. QED
      BY <3>1
  <2>4. PICK q \in Peers : n \in arrived[q]
    BY DEF AckInv, AckedWasReceived, Exchanged
  <2>. QED
    BY <2>2, <2>3, <2>4, TwoPeers
<1>. QED
  BY <1>1, <1>2, <1>3, AckInvariant, PTL DEF Spec

(* dropped_packets gives up a packet only when data more than Redundant     *)
(* after it was received by one of the ends.                                *)
THEOREM DroppedPastTheWindow == Spec => []DroppedIsPastTheWindow
<1>1. AckInv => DroppedIsPastTheWindow
  BY DEF AckInv
<1>. QED
  BY <1>1, AckInvariant, PTL

(* Every packet process_outgoing recorded is in flight, acknowledged or     *)
(* dropped, and only one of these.                                          *)
THEOREM HandlerCorrect == Spec => []HandlerInv
<1>1. AckInv => HandlerInv
  <2>. SUFFICES ASSUME AckInv PROVE HandlerInv
    OBVIOUS
  <2>1. ASSUME NEW h \in Handler
        PROVE  /\ h.sequence_number \in SequenceNumber
               /\ h.remote_ack_sequence_num \in SequenceNumber
               /\ h.received_packets.sequence_num \in SequenceNumber
               /\ \A i \in 0 .. Size - 1 :
                     h.received_packets.entry_sequences[i] \in SequenceNumber \cup {Empty}
    BY DEF Handler, Buffer
  <2>2. \A p \in Peers : handler[p] \in Handler
    BY DEF AckInv, HistoryOK
  <2>3. \A p \in Peers : acked[p] \cup dropped[p] \subseteq 0 .. next[p] - 1
    BY DEF AckInv, EveryPacketAccounted
  <2>4. ASSUME NEW p \in Peers, NEW n \in arrived[p] PROVE n \in 0 .. next[Other(p)] - 1
    <3>1. n \in Nat /\ n < next[Other(p)] /\ next[Other(p)] \in Nat
      BY TwoPeers DEF AckInv, HistoryOK
    <3>. QED
      BY <3>1
  <2>. QED
    BY <2>1, <2>2, <2>3, <2>4 DEF AckInv, HandlerInv, TypeOK
<1>. QED
  BY <1>1, AckInvariant, PTL

(* ack_bitfield names only numbers that were recorded, each of which data   *)
(* was received under at one of the ends, and away from the wrap of the     *)
(* sequence number all of those it can name.                                *)
THEOREM BitfieldCorrect == Spec => []BitfieldIsExact
<1>1. AckInv => BitfieldIsExact
  <2>. SUFFICES ASSUME AckInv, NEW p \in Peers
                PROVE  LET seen == {i \in 1 .. Redundant : newest[p] - i \in noted[p]}
                       IN  /\ noted[p] \subseteq Exchanged
                           /\ AckBitfield(handler[p]) \subseteq seen
                           /\ AwayFromWrap(p) => AckBitfield(handler[p]) = seen
    BY DEF BitfieldIsExact
  <2>. DEFINE seen == {i \in 1 .. Redundant : newest[p] - i \in noted[p]}
              h == handler[p]
              b == h.received_packets
              v == RemoteSequenceNum(h)
              T == newest[p] + 1
  <2>1. /\ h \in Handler /\ T \in Nat /\ newest[p] \in Int /\ newest[p] = T - 1
        /\ b.sequence_num = T % Modulus
        /\ BufferIsSound(b, T, noted[p]) /\ BufferIsComplete(b, T, noted[p])
        /\ noted[p] \subseteq Exchanged /\ noted[p] \subseteq Nat
    BY DEF AckInv, HistoryOK, NumbersOK, BufferIsExact, NotedIsExchanged
  <2>. HIDE DEF b, v, T, h
  <2>2. ASSUME NEW i \in AckBitfield(h) PROVE i \in seen
    <3>1. i \in 1 .. Redundant /\ T - 1 - i \in noted[p]
      BY <2>1, BitfieldIsSound DEF b
    <3>. QED
      BY <2>1, <3>1
  <2>3. ASSUME AwayFromWrap(p), NEW i \in seen PROVE i \in AckBitfield(h)
    <3>. DEFINE m == T - 1 - i
    <3>1. i \in 1 .. Redundant /\ m \in noted[p] /\ m \in Nat
      BY <2>1
    <3>2. T - 1 \in Nat /\ i \in Int /\ i >= 1 /\ i <= Redundant /\ i <= T - 1
      BY <2>1, <3>1, Bounds
    <3>3. v = (T - 1) % Modulus /\ v \in SequenceNumber /\ v = WrappingSub(b.sequence_num, 1)
      <4>1. v = WrappingSub(b.sequence_num, 1)
        BY DEF v, RemoteSequenceNum, b
      <4>. DEFINE k == T - 1
      <4>2. k \in Nat /\ k <= T /\ T - k < Modulus /\ T - k = 1
        BY <2>1, <3>2, Bounds
      <4>. HIDE DEF k
      <4>3. k % Modulus \in SequenceNumber /\ k % Modulus = WrappingSub(T % Modulus, 1)
        BY <2>1, <4>2, NumbersApart
      <4>. QED
        BY <2>1, <4>1, <4>3 DEF k
    <3>4. v \in Nat /\ i <= v /\ (v - i >= Redundant \/ T - 1 = v)
      <4>1. v \in Nat
        BY <3>3, ConstantTypes
      <4>2. CASE T - 1 < Modulus
        <5>1. Modulus \in Nat /\ Modulus > 0 /\ T - 1 = Modulus * 0 + (T - 1)
              /\ T - 1 \in 0 .. Modulus - 1
          BY <3>2, <4>2, Bounds
        <5>2. v = T - 1
          BY <3>2, <3>3, <5>1, Facts!DivisionIsUnique
        <5>. QED
          BY <3>2, <4>1, <5>2
      <4>3. CASE v >= 2 * Redundant
        BY <3>2, <4>1, <4>3, Bounds
      <4>. QED
        BY <2>1, <2>3, <3>3, <4>2, <4>3 DEF AwayFromWrap
    <3>5. T - 1 - m = i
      BY <2>1, <3>2
    <3>6. b.entry_sequences[Index(v - i)] = v - i
      <4>1. i \in 0 .. Redundant
        BY <3>2, Bounds
      <4>. HIDE DEF m
      <4>. QED
        BY <2>1, <3>1, <3>3, <3>4, <3>5, <4>1 DEF BufferIsComplete
    <3>7. WrappingSub(v, i) = v - i
      BY <3>2, <3>4 DEF WrappingSub
    <3>. QED
      BY <3>1, <3>6, <3>7 DEF AckBitfield, Exists, b, v
  <2>. HIDE DEF seen
  <2>4. AckBitfield(h) \subseteq seen
    BY <2>2
  <2>5. AwayFromWrap(p) => AckBitfield(h) = seen
    BY <2>3, <2>4
  <2>. QED
    BY <2>1, <2>4, <2>5 DEF seen, h
<1>. QED
  BY <1>1, AckInvariant, PTL

=============================================================================
