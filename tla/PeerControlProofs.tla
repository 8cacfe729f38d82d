-------------------------- MODULE PeerControlProofs --------------------------
(***************************************************************************)
(* One Peer for every width of a byte, every configuration and whatever    *)
(* the remote sends: the decoder yields only well-formed commands, and the *)
(* handshake, the window, the answers, the round-trip estimate and the     *)
(* throttle stay correct.                                                  *)
(***************************************************************************)
EXTENDS PeerControl, SequenceTheorems, TLAPS

Numbers == INSTANCE SequenceFold WITH Op <- WithDigit
Fields == INSTANCE SequenceFold WITH Op <- ReadField
Packets == INSTANCE SequenceFold WITH Op <- DecodeNext
Runs == INSTANCE SequenceFold WITH Op <- WithRun
Sums == INSTANCE SequenceFold WITH Op <- WithByte
Processed == INSTANCE SequenceFold WITH Op <- ProcessIfOk
Views == INSTANCE SequenceFold WITH Op <- Observe
Answers == INSTANCE SequenceFold WITH Op <- WithAnswer
Totals == INSTANCE SequenceFold WITH Op <- WithCommandBytes

-----------------------------------------------------------------------------
(* The tables of the codec. *)

FieldTypes == {"u8", "u16", "u32", "flag", "data", "option"}

(* A layout names each field of a kind, with its type, an optional one last. *)
LayoutOK(k, L) ==
    /\ k \in Kinds /\ Len(L) \in Nat /\ DOMAIN L = 1 .. Len(L)
    /\ DOMAIN CommandFields[k] = {L[j][1] : j \in 1 .. Len(L)}
    /\ \A j \in 1 .. Len(L) : L[j][2] = CommandFields[k][L[j][1]] /\ L[j][2] \in FieldTypes
    /\ \A j \in 1 .. Len(L) : L[j][2] = "option" => j = Len(L)

LEMMA EncodeLayouts ==
    ASSUME NEW k \in Kinds
    PROVE  LayoutOK(k, EncodeIntoLayout[k])
<1>. USE DEF LayoutOK, Kinds, CommandFields, EncodeIntoLayout, FieldTypes, U8F, U16F, U32F, FlagF, DataF, OptionF
<1>1. LayoutOK("SendReliable", EncodeIntoLayout["SendReliable"])
  OBVIOUS
<1>2. LayoutOK("SendUnreliable", EncodeIntoLayout["SendUnreliable"])
  OBVIOUS
<1>3. LayoutOK("SendUnreliableSequenced", EncodeIntoLayout["SendUnreliableSequenced"])
  OBVIOUS
<1>4. LayoutOK("SendUnsequenced", EncodeIntoLayout["SendUnsequenced"])
  OBVIOUS
<1>5. LayoutOK("SendFragment", EncodeIntoLayout["SendFragment"])
  OBVIOUS
<1>6. LayoutOK("SendUnreliableFragment", EncodeIntoLayout["SendUnreliableFragment"])
  OBVIOUS
<1>7. LayoutOK("Acknowledge", EncodeIntoLayout["Acknowledge"])
  OBVIOUS
<1>8. LayoutOK("Ping", EncodeIntoLayout["Ping"])
  OBVIOUS
<1>9. LayoutOK("Pong", EncodeIntoLayout["Pong"])
  OBVIOUS
<1>10. LayoutOK("Connect", EncodeIntoLayout["Connect"])
  OBVIOUS
<1>11. LayoutOK("VerifyConnect", EncodeIntoLayout["VerifyConnect"])
  OBVIOUS
<1>12. LayoutOK("Disconnect", EncodeIntoLayout["Disconnect"])
  OBVIOUS
<1>13. LayoutOK("BandwidthLimit", EncodeIntoLayout["BandwidthLimit"])
  OBVIOUS
<1>14. LayoutOK("ThrottleConfigure", EncodeIntoLayout["ThrottleConfigure"])
  OBVIOUS
<1>15. LayoutOK("PMTUProbe", EncodeIntoLayout["PMTUProbe"])
  OBVIOUS
<1>16. LayoutOK("PMTUReply", EncodeIntoLayout["PMTUReply"])
  OBVIOUS
<1>17. k \in {"SendReliable", "SendUnreliable", "SendUnreliableSequenced", "SendUnsequenced", "SendFragment", "SendUnreliableFragment", "Acknowledge", "Ping", "Pong", "Connect", "VerifyConnect", "Disconnect", "BandwidthLimit", "ThrottleConfigure", "PMTUProbe", "PMTUReply"}
  OBVIOUS
<1>. HIDE DEF LayoutOK, Kinds, CommandFields, EncodeIntoLayout
<1>. QED
  BY <1>1, <1>2, <1>3, <1>4, <1>5, <1>6, <1>7, <1>8, <1>9, <1>10, <1>11, <1>12, <1>13, <1>14, <1>15, <1>16, <1>17

(* The decoder reads what the encoder writes, under the type it is given.   *)
ReadAs(t, k) == k \in Kinds /\ CommandType[k] = t /\ DecodeLayout[t] = <<k, EncodeIntoLayout[k]>>

LEMMA LayoutsAgree ==
    /\ DOMAIN DecodeLayout = 1 .. 16
    /\ ReadAs(1, "SendReliable")
    /\ ReadAs(2, "SendUnreliable")
    /\ ReadAs(3, "SendUnreliableSequenced")
    /\ ReadAs(4, "SendUnsequenced")
    /\ ReadAs(5, "SendFragment")
    /\ ReadAs(6, "SendUnreliableFragment")
    /\ ReadAs(7, "Acknowledge")
    /\ ReadAs(8, "Ping")
    /\ ReadAs(9, "Pong")
    /\ ReadAs(10, "Connect")
    /\ ReadAs(11, "VerifyConnect")
    /\ ReadAs(12, "Disconnect")
    /\ ReadAs(13, "BandwidthLimit")
    /\ ReadAs(14, "ThrottleConfigure")
    /\ ReadAs(15, "PMTUProbe")
    /\ ReadAs(16, "PMTUReply")
<1>. USE DEF DecodeLayout, DecodeDataLayout, DecodeControlLayout, EncodeIntoLayout
<1>1. DOMAIN DecodeLayout = 1 .. 16
  OBVIOUS
<1>2. DecodeLayout[1] = <<"SendReliable", EncodeIntoLayout["SendReliable"]>>
  OBVIOUS
<1>3. DecodeLayout[2] = <<"SendUnreliable", EncodeIntoLayout["SendUnreliable"]>>
  OBVIOUS
<1>4. DecodeLayout[3] = <<"SendUnreliableSequenced", EncodeIntoLayout["SendUnreliableSequenced"]>>
  OBVIOUS
<1>5. DecodeLayout[4] = <<"SendUnsequenced", EncodeIntoLayout["SendUnsequenced"]>>
  OBVIOUS
<1>6. DecodeLayout[5] = <<"SendFragment", EncodeIntoLayout["SendFragment"]>>
  OBVIOUS
<1>7. DecodeLayout[6] = <<"SendUnreliableFragment", EncodeIntoLayout["SendUnreliableFragment"]>>
  OBVIOUS
<1>8. DecodeLayout[7] = <<"Acknowledge", EncodeIntoLayout["Acknowledge"]>>
  OBVIOUS
<1>9. DecodeLayout[8] = <<"Ping", EncodeIntoLayout["Ping"]>>
  OBVIOUS
<1>10. DecodeLayout[9] = <<"Pong", EncodeIntoLayout["Pong"]>>
  OBVIOUS
<1>11. DecodeLayout[10] = <<"Connect", EncodeIntoLayout["Connect"]>>
  OBVIOUS
<1>12. DecodeLayout[11] = <<"VerifyConnect", EncodeIntoLayout["VerifyConnect"]>>
  OBVIOUS
<1>13. DecodeLayout[12] = <<"Disconnect", EncodeIntoLayout["Disconnect"]>>
  OBVIOUS
<1>14. DecodeLayout[13] = <<"BandwidthLimit", EncodeIntoLayout["BandwidthLimit"]>>
  OBVIOUS
<1>15. DecodeLayout[14] = <<"ThrottleConfigure", EncodeIntoLayout["ThrottleConfigure"]>>
  OBVIOUS
<1>16. DecodeLayout[15] = <<"PMTUProbe", EncodeIntoLayout["PMTUProbe"]>>
  OBVIOUS
<1>17. DecodeLayout[16] = <<"PMTUReply", EncodeIntoLayout["PMTUReply"]>>
  OBVIOUS
<1>. HIDE DEF DecodeLayout, DecodeDataLayout, DecodeControlLayout, EncodeIntoLayout
<1>. QED
  BY <1>1, <1>2, <1>3, <1>4, <1>5, <1>6, <1>7, <1>8, <1>9, <1>10, <1>11, <1>12, <1>13, <1>14, <1>15, <1>16, <1>17 DEF ReadAs, Kinds, CommandFields, CommandType

LEMMA DecodeLayouts ==
    ASSUME NEW t \in DOMAIN DecodeLayout
    PROVE  \E k \in Kinds : DecodeLayout[t] = <<k, EncodeIntoLayout[k]>>
<1>1. t \in 1 .. 16
  BY LayoutsAgree
<1>2. \E k : ReadAs(t, k)
  BY <1>1, LayoutsAgree
<1>. QED
  BY <1>2 DEF ReadAs

LEMMA DecodesKind ==
    ASSUME NEW k \in Kinds
    PROVE  /\ CommandType[k] \in DOMAIN DecodeLayout
           /\ DecodeLayout[CommandType[k]] = <<k, EncodeIntoLayout[k]>>
<1>1. k \in {"SendReliable", "SendUnreliable", "SendUnreliableSequenced", "SendUnsequenced", "SendFragment", "SendUnreliableFragment", "Acknowledge", "Ping", "Pong", "Connect", "VerifyConnect", "Disconnect", "BandwidthLimit", "ThrottleConfigure", "PMTUProbe", "PMTUReply"}
  BY DEF Kinds, CommandFields
<1>2. \E t \in 1 .. 16 : ReadAs(t, k)
  BY <1>1, LayoutsAgree
<1>. QED
  BY <1>2, LayoutsAgree DEF ReadAs

-----------------------------------------------------------------------------
(* Bytes and numbers. *)

Byte == 0 .. Base - 1

Bytes == Seq(Byte)

LEMMA Widths ==
    /\ Base \in Nat /\ Base > 16 /\ U16 \in Nat /\ U32 \in Nat /\ U16 * Base \in Nat
    /\ U16 = Base * Base /\ U16 * Base = (Base * Base) * Base /\ U32 = (U16 * Base) * Base
    /\ Base <= U16 /\ U16 <= U32 /\ U16 * Base >= 1 /\ {0, 1} \subseteq Byte
<1>1. Base \in Nat /\ Base > 16
  BY BaseAssumption
<1>2. ASSUME NEW x \in Nat, x >= 1 PROVE x * Base \in Nat /\ x <= x * Base
  <2>1. x * Base = x + x * (Base - 1) /\ x * (Base - 1) \in Nat
    BY <1>1, <1>2
  <2>. QED
    BY <1>1, <1>2, <2>1
<1>3. U16 \in Nat /\ Base <= U16
  BY <1>1, <1>2 DEF U16
<1>4. U16 * Base \in Nat /\ U16 <= U16 * Base
  BY <1>1, <1>2, <1>3
<1>5. (U16 * Base) * Base \in Nat /\ U16 * Base <= (U16 * Base) * Base
  <2>. DEFINE x == U16 * Base
  <2>1. x \in Nat /\ x >= 1
    BY <1>1, <1>3, <1>4
  <2>. HIDE DEF x
  <2>2. x * Base \in Nat /\ x <= x * Base
    BY <1>2, <2>1
  <2>. QED
    BY <2>2 DEF x
<1>6. U16 * U16 = (U16 * Base) * Base
  BY <1>1 DEF U16
<1>. QED
  BY <1>1, <1>3, <1>4, <1>5, <1>6 DEF U16, U32, Byte

(* One digit more.                                                          *)
LEMMA DigitMore ==
    ASSUME NEW m \in Nat, NEW x \in 0 .. m - 1, NEW b \in Byte
    PROVE  x * Base + b \in 0 .. m * Base - 1
<1>. DEFINE d == m - 1 - x
<1>1. d \in Nat /\ m = x + 1 + d /\ b \in Nat /\ b <= Base - 1 /\ Base \in Nat /\ x \in Nat
  BY Widths DEF Byte
<1>. HIDE DEF d
<1>2. (x + 1 + d) * Base = x * Base + Base + d * Base /\ x * Base \in Nat /\ d * Base \in Nat
  BY <1>1
<1>3. m * Base = x * Base + Base + d * Base
  BY <1>1, <1>2
<1>. DEFINE y == x * Base
            z == d * Base
            w == m * Base
<1>4. y \in Nat /\ z \in Nat /\ w = y + Base + z
  BY <1>2, <1>3
<1>. HIDE DEF y, z, w
<1>5. y + b \in 0 .. w - 1
  BY <1>1, <1>4
<1>. QED
  BY <1>5 DEF y, w

LEMMA DigitsType ==
    ASSUME NEW v \in Nat, NEW n \in {1, 2, 4}
    PROVE  Digits(v, n) \in Bytes /\ Len(Digits(v, n)) = n
<1>1. \A j \in 1 .. 4 : PlaceValue[j] \in Nat /\ PlaceValue[j] > 0
  BY Widths DEF PlaceValue
<1>2. ASSUME NEW i \in 1 .. n PROVE (v \div PlaceValue[n + 1 - i]) % Base \in Byte
  <2>. DEFINE p == PlaceValue[n + 1 - i]
  <2>1. p \in Nat /\ p > 0
    BY <1>1
  <2>. HIDE DEF p
  <2>2. v \div p \in Nat
    BY <2>1, Numbers!Division
  <2>3. (v \div p) % Base \in 0 .. Base - 1
    BY <2>2, Widths, Numbers!Division
  <2>. QED
    BY <2>3 DEF p, Byte
<1>3. Digits(v, n) \in [1 .. n -> Byte]
  BY <1>2 DEF Digits
<1>. QED
  BY <1>3 DEF Bytes

LEMMA NumbersIsFold ==
    ASSUME NEW base, NEW s
    PROVE  FoldLeft(WithDigit, base, s) = Numbers!Folded(base, s)
BY DEF Numbers!Folded, FoldLeft, MapThenFoldSet, Max, Numbers!Largest

(* What n bytes can say.                                                    *)
Below(n) == IF n = 1 THEN 0 .. Base - 1 ELSE IF n = 2 THEN 0 .. U16 - 1 ELSE 0 .. U32 - 1

LEMMA NumberType ==
    ASSUME NEW s \in Bytes
    PROVE  /\ Number(s) \in Nat
           /\ \A n \in {1, 2, 4} : Len(s) = n => Number(s) \in Below(n)
<1>. DEFINE l == Len(s)
<1>1. l \in Nat /\ DOMAIN s = 1 .. l /\ \A i \in 1 .. l : s[i] \in Byte
  BY DEF Bytes
<1>. HIDE DEF l
<1>2. PICK f : /\ f[0] = 0
               /\ \A i \in 0 .. l - 1 : f[i + 1] = WithDigit(f[i], s[i + 1])
               /\ Number(s) = f[l]
  <2>1. Number(s) = Numbers!Folded(0, s)
    BY NumbersIsFold DEF Number
  <2>2. PICK f : Numbers!PrefixValues(0, s, l, f)
    BY <1>1, Numbers!FoldHasValues
  <2>. QED
    BY <2>1, <2>2 DEF Numbers!PrefixValues
<1>3. Number(s) \in Nat
  <2>. DEFINE S == {i \in Nat : i <= l => f[i] \in Nat}
  <2>1. 0 \in S
    BY <1>2
  <2>2. ASSUME NEW i \in Nat, i \in S PROVE i + 1 \in S
    <3>. SUFFICES ASSUME i + 1 <= l PROVE f[i + 1] \in Nat
      OBVIOUS
    <3>1. f[i] \in Nat /\ s[i + 1] \in Byte /\ f[i + 1] = f[i] * Base + s[i + 1]
      BY <1>1, <1>2, <2>2 DEF WithDigit
    <3>2. f[i] * Base \in Nat
      BY <3>1, Widths
    <3>. QED
      BY <3>1, <3>2, Widths DEF Byte
  <2>3. Nat \subseteq S
    <3>. HIDE DEF S
    <3>. QED
      BY <2>1, <2>2, Numbers!SetInduction
  <2>. QED
    BY <1>1, <1>2, <2>3
<1>4. l >= 1 => f[1] \in 0 .. Base - 1
  <2>. SUFFICES ASSUME l >= 1 PROVE f[1] \in 0 .. Base - 1
    OBVIOUS
  <2>1. 0 \in 0 .. l - 1 /\ 0 + 1 = 1 /\ s[1] \in Byte
    BY <1>1
  <2>2. f[1] = 0 * Base + s[1]
    BY <1>2, <2>1 DEF WithDigit
  <2>. QED
    BY <2>1, <2>2, Widths DEF Byte
<1>5. ASSUME NEW i \in 1 .. 3, i + 1 <= l, NEW m \in Nat, f[i] \in 0 .. m - 1
      PROVE  f[i + 1] \in 0 .. m * Base - 1
  <2>1. i \in 0 .. l - 1 /\ s[i + 1] \in Byte
    BY <1>1, <1>5
  <2>2. f[i + 1] = f[i] * Base + s[i + 1]
    BY <1>2, <2>1 DEF WithDigit
  <2>. QED
    BY <1>5, <2>1, <2>2, DigitMore
<1>6. l >= 2 => f[2] \in 0 .. U16 - 1
  BY <1>1, <1>4, <1>5, Widths
<1>7. l >= 4 => f[4] \in 0 .. U32 - 1
  <2>. SUFFICES ASSUME l >= 4 PROVE f[4] \in 0 .. U32 - 1
    OBVIOUS
  <2>1. f[3] \in 0 .. U16 * Base - 1
    BY <1>1, <1>5, <1>6, Widths
  <2>. DEFINE m == U16 * Base
  <2>2. m \in Nat /\ f[3] \in 0 .. m - 1
    BY <2>1, Widths
  <2>. HIDE DEF m
  <2>3. f[4] \in 0 .. m * Base - 1
    BY <1>1, <1>5, <2>2
  <2>. QED
    BY <2>3, Widths DEF m
<1>. QED
  BY <1>1, <1>2, <1>3, <1>4, <1>6, <1>7 DEF Below, l

(* A part of a sequence.                                                    *)
LEMMA SliceType ==
    ASSUME NEW V, NEW s \in Seq(V), NEW pos \in Nat, NEW n \in Int
    PROVE  /\ Slice(s, pos, n) \in Seq(V)
           /\ n \in Nat /\ pos + n <= Len(s) => Len(Slice(s, pos, n)) = n
           /\ n \in Nat => Len(Slice(s, pos, n)) <= n
<1>. DEFINE l == Len(s)
            e == IF pos + n < Len(s) THEN pos + n ELSE Len(s)
<1>1. l \in Nat /\ e \in Int /\ e <= l /\ e <= pos + n
  OBVIOUS
<1>2. Slice(s, pos, n) = IF e <= pos THEN << >> ELSE SubSeq(s, pos + 1, e)
  BY DEF Slice
<1>3. n \in Nat /\ pos + n <= l => e = pos + n
  BY <1>1
<1>4. CASE e <= pos
  <2>1. Slice(s, pos, n) = << >> /\ Len(<< >>) = 0
    BY <1>2, <1>4
  <2>2. n \in Nat /\ pos + n <= l => n = 0
    BY <1>1, <1>3, <1>4
  <2>. QED
    BY <2>1, <2>2
<1>5. CASE ~ (e <= pos)
  <2>1. pos + 1 \in 1 .. l /\ e \in pos + 1 .. l
    BY <1>1, <1>5
  <2>. HIDE DEF e, l
  <2>2. SubSeq(s, pos + 1, e) \in Seq(V)
    BY <2>1 DEF l
  <2>3. Len(SubSeq(s, pos + 1, e)) = e - (pos + 1) + 1
    BY <2>1 DEF l
  <2>. QED
    BY <1>1, <1>2, <1>3, <1>5, <2>1, <2>2, <2>3 DEF l
<1>. QED
  BY <1>4, <1>5

-----------------------------------------------------------------------------
(* What is written are bytes. *)

LEMMA ConcatType ==
    ASSUME NEW V, NEW s \in Seq(V), NEW t \in Seq(V)
    PROVE  s \o t \in Seq(V) /\ Len(s \o t) = Len(s) + Len(t)
OBVIOUS

(* f joins the parts one by one.                                            *)
Joined(V, n, seqs, f) ==
    /\ f[0] = << >> /\ FlattenSeq(seqs) = f[n]
    /\ \A i \in 0 .. n : f[i] \in Seq(V)
    /\ \A i \in 0 .. n - 1 : f[i + 1] = f[i] \o seqs[i + 1]

LEMMA FlattenType ==
    ASSUME NEW V, NEW n \in Nat, NEW seqs \in [1 .. n -> Seq(V)]
    PROVE  FlattenSeq(seqs) \in Seq(V) /\ \E f : Joined(V, n, seqs, f)
<1>1. FlattenSeq(seqs) = Numbers!Flattened(seqs)
  BY DEF FlattenSeq, Numbers!Flattened
<1>2. PICK f : /\ f[0] = << >>
               /\ \A i \in 0 .. n - 1 : f[i + 1] = f[i] \o seqs[i + 1]
               /\ FlattenSeq(seqs) = f[n]
  <2>1. PICK f : Numbers!Joins(seqs, n, f)
    BY Numbers!FlattenPrefixes
  <2>. QED
    BY <1>1, <2>1 DEF Numbers!Joins
<1>. DEFINE S == {i \in Nat : i <= n => f[i] \in Seq(V)}
<1>3. 0 \in S
  <2>1. << >> \in Seq(V)
    OBVIOUS
  <2>. QED
    BY <1>2, <2>1
<1>4. ASSUME NEW i \in Nat, i \in S PROVE i + 1 \in S
  <2>. SUFFICES ASSUME i + 1 <= n PROVE f[i + 1] \in Seq(V)
    OBVIOUS
  <2>1. i \in 0 .. n - 1 /\ i + 1 \in 1 .. n /\ f[i] \in Seq(V)
    BY <1>4
  <2>2. seqs[i + 1] \in Seq(V)
    BY <2>1
  <2>. QED
    BY <1>2, <2>1, <2>2, ConcatType
<1>5. Nat \subseteq S
  <2>. HIDE DEF S
  <2>. QED
    BY <1>3, <1>4, Numbers!SetInduction
<1>6. \A i \in 0 .. n : f[i] \in Seq(V)
  BY <1>5
<1>7. n \in 0 .. n
  OBVIOUS
<1>. HIDE DEF S
<1>8. Joined(V, n, seqs, f)
  BY <1>2, <1>6, Zenon DEF Joined
<1>. QED
  BY <1>2, <1>6, <1>7, <1>8

LEMMA FieldBytesType ==
    ASSUME NEW type \in FieldTypes, NEW v, HasType(v, type)
    PROVE  FieldBytes(type, v) \in Bytes
<1>1. CASE type = "u8"
  BY <1>1, DigitsType, Widths DEF HasType, FieldBytes
<1>2. CASE type = "u16"
  BY <1>2, DigitsType, Widths DEF HasType, FieldBytes
<1>3. CASE type = "u32"
  BY <1>3, DigitsType, Widths DEF HasType, FieldBytes
<1>4. CASE type = "flag"
  <2>1. <<1>> \in Bytes /\ <<0>> \in Bytes
    BY Widths DEF Bytes
  <2>. QED
    BY <1>4, <2>1 DEF HasType, FieldBytes
<1>5. CASE type = "data"
  <2>1. v \in Bytes /\ Len(v) \in Nat
    BY <1>5 DEF HasType, Bytes, Byte
  <2>2. Digits(Len(v), 2) \in Bytes
    BY <2>1, DigitsType
  <2>3. Digits(Len(v), 2) \o v \in Bytes
    BY <2>1, <2>2, ConcatType DEF Bytes
  <2>. QED
    BY <1>5, <2>3 DEF FieldBytes
<1>6. CASE type = "option"
  <2>1. << >> \in Bytes
    BY DEF Bytes
  <2>2. v = NoTime \/ v \in Nat
    BY <1>6, Widths DEF HasType
  <2>3. v \in Nat => Digits(v, 4) \in Bytes
    BY DigitsType
  <2>. QED
    BY <1>6, <2>1, <2>2, <2>3 DEF FieldBytes
<1>. QED
  BY <1>1, <1>2, <1>3, <1>4, <1>5, <1>6 DEF FieldTypes

(* A command with the fields of its kind.                                   *)
LEMMA IsCommandMade ==
    ASSUME NEW k \in Kinds, NEW args, DOMAIN args = DOMAIN CommandFields[k],
           args = [g \in DOMAIN args |-> args[g]],
           \A g \in DOMAIN args : HasType(args[g], CommandFields[k][g])
    PROVE  IsCommand(Command(k, args))
<1>. DEFINE c == Command(k, args)
<1>1. c.kind = k /\ c.args = args
  BY DEF Command
<1>. HIDE DEF c
<1>2. c = Command(c.kind, [f \in DOMAIN c.args |-> c.args[f]])
  <2>1. [f \in DOMAIN c.args |-> c.args[f]] = args
    BY <1>1
  <2>. QED
    BY <1>1, <2>1 DEF c
<1>. QED
  BY <1>1, <1>2 DEF IsCommand, c

LEMMA EncodeCommandType ==
    ASSUME NEW c, IsCommand(c)
    PROVE  EncodeCommandInto(c) \in Bytes
<1>. DEFINE L == EncodeIntoLayout[c.kind]
            n == Len(L)
            parts == [i \in DOMAIN L |-> FieldBytes(L[i][2], c.args[L[i][1]])]
<1>1. LayoutOK(c.kind, L)
  BY EncodeLayouts DEF IsCommand
<1>. HIDE DEF L
<1>2. n \in Nat /\ DOMAIN L = 1 .. n
  BY <1>1 DEF LayoutOK
<1>. HIDE DEF n
<1>3. ASSUME NEW i \in 1 .. n PROVE FieldBytes(L[i][2], c.args[L[i][1]]) \in Seq(Byte)
  <2>1. L[i][1] \in DOMAIN c.args /\ L[i][2] = CommandFields[c.kind][L[i][1]] /\ L[i][2] \in FieldTypes
    BY <1>1 DEF LayoutOK, IsCommand, n
  <2>2. HasType(c.args[L[i][1]], L[i][2])
    BY <2>1 DEF IsCommand
  <2>. QED
    BY <2>1, <2>2, FieldBytesType DEF Bytes
<1>4. parts \in [1 .. n -> Seq(Byte)]
  BY <1>2, <1>3
<1>5. FlattenSeq(parts) \in Seq(Byte)
  <2>. HIDE DEF parts
  <2>. QED
    BY <1>2, <1>4, FlattenType
<1>6. <<CommandType[c.kind]>> \in Seq(Byte)
  <2>1. CommandType[c.kind] \in 1 .. 16
    BY DEF IsCommand, Kinds, CommandFields, CommandType
  <2>2. CommandType[c.kind] \in Byte
    BY <2>1, Widths DEF Byte
  <2>. QED
    BY <2>2
<1>7. EncodeCommandInto(c) = <<CommandType[c.kind]>> \o FlattenSeq(parts)
  BY DEF EncodeCommandInto, Encoded, L
<1>. QED
  BY <1>5, <1>6, <1>7, ConcatType DEF Bytes

(* A sequence of commands.                                                  *)
LEMMA CommandsForm ==
    ASSUME NEW cs, AreCommands(cs)
    PROVE  /\ Len(cs) \in Nat /\ DOMAIN cs = 1 .. Len(cs)
           /\ \A i \in 1 .. Len(cs) : IsCommand(cs[i])
BY DEF AreCommands

LEMMA NoCommands == AreCommands(<< >>)
BY DEF AreCommands

LEMMA AppendCommand ==
    ASSUME NEW cs, AreCommands(cs), NEW c, IsCommand(c)
    PROVE  AreCommands(Append(cs, c))
<1>. DEFINE n == Len(cs)
            a == Append(cs, c)
            V == Range(cs) \cup {c}
<1>1. cs \in Seq(Range(cs)) /\ \A i \in DOMAIN cs : IsCommand(cs[i])
  BY DEF AreCommands
<1>2. n \in Nat /\ DOMAIN cs = 1 .. n /\ \A i \in 1 .. n : cs[i] \in V
  BY <1>1
<1>3. Len(a) = n + 1 /\ DOMAIN a = 1 .. n + 1 /\ a[n + 1] = c /\ \A i \in 1 .. n : a[i] = cs[i]
  BY <1>1
<1>4. a = [i \in 1 .. n + 1 |-> a[i]]
  <2>1. cs \in Seq(V)
    <3>1. cs \in [1 .. n -> Range(cs)]
      BY <1>1
    <3>2. cs \in [1 .. n -> V]
      BY <3>1
    <3>. HIDE DEF n, V
    <3>. QED
      BY <1>2, <3>2
  <2>2. c \in V
    OBVIOUS
  <2>. HIDE DEF V
  <2>3. a \in Seq(V)
    BY <2>1, <2>2
  <2>. HIDE DEF a
  <2>4. a \in [1 .. Len(a) -> V]
    BY <2>3
  <2>. QED
    BY <1>3, <2>4
<1>. HIDE DEF n, a
<1>5. \A i \in 1 .. n + 1 : IsCommand(a[i])
  BY <1>1, <1>2, <1>3
<1>6. \A i \in 1 .. n + 1 : a[i] \in Range(a)
  BY <1>3 DEF Range
<1>7. a \in Seq(Range(a))
  BY <1>2, <1>4, <1>6
<1>. QED
  BY <1>3, <1>5, <1>7 DEF AreCommands, a

(* What encode_packet_into writes for one command.                          *)
Framed(c) ==
    LET bytes == EncodeCommandInto(c)
    IN  <<(Len(bytes) \div Base) % Base, Len(bytes) % Base>> \o bytes

LEMMA FramedType ==
    ASSUME NEW c, IsCommand(c)
    PROVE  Framed(c) \in Bytes /\ Len(Framed(c)) = 2 + Len(EncodeCommandInto(c))
<1>. DEFINE b == EncodeCommandInto(c)
            l == Len(b)
            p == <<(l \div Base) % Base, l % Base>>
<1>1. b \in Seq(Byte) /\ l \in Nat
  BY EncodeCommandType DEF Bytes
<1>2. Framed(c) = p \o b
  BY DEF Framed
<1>. HIDE DEF b, l
<1>3. l \div Base \in Nat /\ l % Base \in 0 .. Base - 1
  BY <1>1, Widths, Numbers!Division
<1>4. (l \div Base) % Base \in 0 .. Base - 1
  BY <1>3, Widths, Numbers!Division
<1>5. p \in Seq(Byte) /\ Len(p) = 2
  BY <1>3, <1>4 DEF Byte
<1>. HIDE DEF p
<1>6. p \o b \in Seq(Byte) /\ Len(p \o b) = 2 + Len(b)
  BY <1>1, <1>5, ConcatType
<1>. QED
  BY <1>2, <1>6 DEF Bytes, b

LEMMA EncodePacketType ==
    ASSUME NEW cs, AreCommands(cs)
    PROVE  /\ EncodePacketInto(cs) \in Bytes
           /\ EncodePacketInto(cs) = <<Len(cs) % Base>> \o FlattenSeq([i \in 1 .. Len(cs) |-> Framed(cs[i])])
           /\ FlattenSeq([i \in 1 .. Len(cs) |-> Framed(cs[i])]) \in Bytes
           /\ [i \in 1 .. Len(cs) |-> Framed(cs[i])] \in [1 .. Len(cs) -> Bytes]
           /\ Len(EncodePacketInto(cs)) = 1 + Len(FlattenSeq([i \in 1 .. Len(cs) |-> Framed(cs[i])]))
<1>. DEFINE n == Len(cs)
            parts == [i \in 1 .. n |-> Framed(cs[i])]
            head == <<n % Base>>
<1>1. n \in Nat /\ DOMAIN cs = 1 .. n
  BY CommandsForm
<1>2. EncodePacketInto(cs) = head \o FlattenSeq(parts)
  BY <1>1 DEF EncodePacketInto, Framed
<1>3. parts \in [1 .. n -> Seq(Byte)]
  BY CommandsForm, FramedType DEF Bytes
<1>4. head \in Seq(Byte) /\ Len(head) = 1
  <2>1. n % Base \in Byte
    BY <1>1, Widths, Numbers!Division DEF Byte
  <2>. HIDE DEF n
  <2>. QED
    BY <2>1
<1>. HIDE DEF n, parts, head
<1>5. FlattenSeq(parts) \in Seq(Byte)
  BY <1>1, <1>3, FlattenType
<1>6. head \o FlattenSeq(parts) \in Seq(Byte) /\ Len(head \o FlattenSeq(parts)) = 1 + Len(FlattenSeq(parts))
  BY <1>4, <1>5, ConcatType
<1>. QED
  BY <1>2, <1>3, <1>5, <1>6 DEF Bytes, n, parts, head

LEMMA RunsIsFold ==
    ASSUME NEW base, NEW s
    PROVE  FoldLeft(WithRun, base, s) = Runs!Folded(base, s)
BY DEF Runs!Folded, FoldLeft, MapThenFoldSet, Max, Runs!Largest

LEMMA SumsIsFold ==
    ASSUME NEW base, NEW s
    PROVE  FoldLeft(WithByte, base, s) = Sums!Folded(base, s)
BY DEF Sums!Folded, FoldLeft, MapThenFoldSet, Max, Sums!Largest

LEMMA DeflateType ==
    ASSUME NEW data \in Bytes
    PROVE  Deflate(data) \in Bytes
<1>. DEFINE n == Len(data)
<1>1. n \in Nat /\ DOMAIN data = 1 .. n /\ \A i \in 1 .. n : data[i] \in Byte
  BY DEF Bytes
<1>2. ASSUME NEW r \in Bytes, NEW b \in Byte PROVE WithRun(r, b) \in Bytes
  <2>1. CASE r # << >> /\ r[Len(r)] < Base - 1
    <3>1. Len(r) \in DOMAIN r /\ r[Len(r)] \in Byte
      BY <2>1 DEF Bytes
    <3>2. r[Len(r)] + 1 \in Byte
      BY <2>1, <3>1, Widths DEF Byte
    <3>3. [r EXCEPT ![Len(r)] = @ + 1] \in Bytes
      BY <3>1, <3>2 DEF Bytes
    <3>4. <<b, 1>> \in Bytes
      BY Widths DEF Bytes
    <3>5. r \o <<b, 1>> \in Bytes
      BY <3>4, ConcatType DEF Bytes
    <3>. QED
      BY <3>3, <3>5 DEF WithRun
  <2>2. CASE ~ (r # << >> /\ r[Len(r)] < Base - 1)
    <3>1. <<b, 1>> \in Bytes
      BY Widths DEF Bytes
    <3>2. r \o <<b, 1>> \in Bytes
      BY <3>1, ConcatType DEF Bytes
    <3>. QED
      BY <2>2, <3>2 DEF WithRun
  <2>. QED
    BY <2>1, <2>2
<1>3. << >> \in Bytes
  BY DEF Bytes
<1>4. Deflate(data) = Runs!Folded(<< >>, data)
  BY RunsIsFold DEF Deflate
<1>. HIDE DEF n
<1>. QED
  BY <1>1, <1>2, <1>3, <1>4, Runs!FoldType

LEMMA HashType ==
    ASSUME NEW data \in Bytes
    PROVE  Hash(data) \in Bytes /\ Len(Hash(data)) = 4
<1>. DEFINE n == Len(data)
            sum == FoldLeft(WithByte, 0, data)
<1>1. n \in Nat /\ DOMAIN data = 1 .. n /\ \A i \in 1 .. n : data[i] \in Nat
  BY Widths DEF Bytes, Byte
<1>2. \A x \in Nat, i \in 1 .. n : WithByte(x, data[i]) \in Nat
  BY <1>1 DEF WithByte
<1>3. sum = Sums!Folded(0, data)
  BY SumsIsFold
<1>. HIDE DEF n, sum
<1>4. sum \in Nat
  BY <1>1, <1>2, <1>3, Sums!FoldType
<1>5. U32 > 0
  BY Widths
<1>6. sum % U32 \in 0 .. U32 - 1
  BY <1>4, <1>5, Widths, Numbers!Division
<1>7. sum % U32 \in Nat
  BY <1>6, Widths
<1>. QED
  BY <1>7, DigitsType DEF Hash, sum

LEMMA CompressType ==
    ASSUME NEW data \in Bytes, NEW algorithm \in Algorithms
    PROVE  /\ Compress(data, algorithm, Threshold) \in Bytes
           /\ Len(Compress(data, algorithm, Threshold)) \in Nat
           /\ Len(Compress(data, algorithm, Threshold)) <= 1 + Len(data)
<1>. DEFINE packed == Deflate(data)
            size == Digits(Len(data), 4)
<1>1. packed \in Seq(Byte) /\ data \in Seq(Byte) /\ Len(packed) \in Nat /\ Len(data) \in Nat
  BY DeflateType DEF Bytes
<1>2. size \in Seq(Byte) /\ Len(size) = 4
  BY <1>1, DigitsType DEF Bytes
<1>3. <<0>> \in Seq(Byte) /\ <<1>> \in Seq(Byte) /\ <<2>> \in Seq(Byte)
  <2>1. 2 \in Byte
    BY Widths DEF Byte
  <2>. QED
    BY <2>1, Widths
<1>. DEFINE out == Compress(data, algorithm, Threshold)
<1>4. \/ out = <<1>> \o packed /\ Len(packed) < Len(data)
      \/ out = (<<2>> \o size) \o packed /\ Len(packed) + 4 < Len(data)
      \/ out = <<0>> \o data
  BY DEF Compress
<1>. HIDE DEF packed, size, out
<1>5. <<1>> \o packed \in Seq(Byte) /\ Len(<<1>> \o packed) = 1 + Len(packed)
  BY <1>1, <1>3, ConcatType
<1>6. <<0>> \o data \in Seq(Byte) /\ Len(<<0>> \o data) = 1 + Len(data)
  BY <1>1, <1>3, ConcatType
<1>7. <<2>> \o size \in Seq(Byte) /\ Len(<<2>> \o size) = 5
  <2>. DEFINE two == <<2>>
  <2>1. two \in Seq(Byte) /\ Len(two) = 1
    BY <1>3
  <2>. HIDE DEF two
  <2>2. two \o size \in Seq(Byte) /\ Len(two \o size) = 1 + 4
    BY <1>2, <2>1, ConcatType
  <2>. QED
    BY <2>2 DEF two
<1>8. (<<2>> \o size) \o packed \in Seq(Byte) /\ Len((<<2>> \o size) \o packed) = 5 + Len(packed)
  BY <1>1, <1>7, ConcatType
<1>9. out \in Seq(Byte) /\ Len(out) <= 1 + Len(data) /\ Len(out) \in Nat
  <2>1. CASE out = <<1>> \o packed /\ Len(packed) < Len(data)
    BY <1>1, <1>5, <2>1
  <2>2. CASE out = (<<2>> \o size) \o packed /\ Len(packed) + 4 < Len(data)
    BY <1>1, <1>8, <2>2
  <2>3. CASE out = <<0>> \o data
    BY <1>1, <1>6, <2>3
  <2>. QED
    BY <1>4, <2>1, <2>2, <2>3
<1>. QED
  BY <1>9 DEF Bytes, out

(* What goes out, and how long it is at most.                               *)
LEMMA DatagramType ==
    ASSUME NEW cs, AreCommands(cs), NEW c \in Configs
    PROVE  /\ Datagram(cs, c) \in Bytes
           /\ Len(Datagram(cs, c)) <= 1 + Len(EncodePacketInto(cs)) + IF c.checksums THEN 4 ELSE 0
<1>. DEFINE e == EncodePacketInto(cs)
            d == Compress(e, c.algorithm, Threshold)
<1>1. c.algorithm \in Algorithms /\ c.checksums \in BOOLEAN
  BY DEF Configs
<1>2. e \in Bytes
  BY EncodePacketType
<1>. HIDE DEF e
<1>3. d \in Bytes /\ Len(d) \in Nat /\ Len(d) <= 1 + Len(e) /\ Len(e) \in Nat
  BY <1>1, <1>2, CompressType DEF Bytes
<1>4. Datagram(cs, c) = IF c.checksums THEN d \o Hash(d) ELSE d
  BY DEF Datagram, AppendChecksum, e
<1>. HIDE DEF d
<1>5. d \o Hash(d) \in Bytes /\ Len(d \o Hash(d)) = Len(d) + 4
  <2>. DEFINE h == Hash(d)
  <2>1. h \in Seq(Byte) /\ Len(h) = 4 /\ d \in Seq(Byte)
    BY <1>3, HashType DEF Bytes
  <2>. HIDE DEF h
  <2>2. d \o h \in Seq(Byte) /\ Len(d \o h) = Len(d) + 4
    BY <2>1, ConcatType
  <2>. QED
    BY <2>2 DEF h, Bytes
<1>6. CASE c.checksums
  BY <1>3, <1>4, <1>5, <1>6 DEF e
<1>7. CASE ~c.checksums
  BY <1>3, <1>4, <1>7 DEF e
<1>. QED
  BY <1>6, <1>7

-----------------------------------------------------------------------------
(* What is read are commands. *)

LEMMA InflateType ==
    ASSUME NEW b \in Bytes
    PROVE  Inflate(b).ok \in BOOLEAN /\ (Inflate(b).ok => Inflate(b).value \in Bytes)
<1>. DEFINE n == Len(b) \div 2
            parts == [i \in 1 .. n |-> [j \in 1 .. b[2 * i] |-> b[2 * i - 1]]]
<1>1. CASE Len(b) % 2 # 0
  BY <1>1 DEF Inflate, Failure
<1>2. CASE Len(b) % 2 = 0
  <2>. DEFINE l == Len(b)
  <2>1. l \in Nat /\ l % 2 = 0 /\ n = l \div 2 /\ \A i \in 1 .. l : b[i] \in Byte
    BY <1>2 DEF Bytes
  <2>. HIDE DEF l
  <2>2. n \in Nat /\ \A i \in 1 .. n : 2 * i \in 1 .. l /\ 2 * i - 1 \in 1 .. l
    BY <2>1
  <2>. HIDE DEF n
  <2>3. ASSUME NEW i \in 1 .. n PROVE [j \in 1 .. b[2 * i] |-> b[2 * i - 1]] \in Seq(Byte)
    <3>1. b[2 * i] \in Nat /\ b[2 * i - 1] \in Byte
      BY <2>1, <2>2, Widths DEF Byte
    <3>. QED
      BY <3>1
  <2>4. parts \in [1 .. n -> Seq(Byte)]
    BY <2>3
  <2>5. Inflate(b) = Success(FlattenSeq(parts))
    BY <1>2 DEF Inflate, n
  <2>. HIDE DEF parts
  <2>6. FlattenSeq(parts) \in Seq(Byte)
    BY <2>2, <2>4, FlattenType
  <2>. QED
    BY <2>5, <2>6 DEF Success, Bytes
<1>. QED
  BY <1>1, <1>2

LEMMA TailType ==
    ASSUME NEW b \in Bytes, b # << >>
    PROVE  Tail(b) \in Bytes /\ Head(b) \in Byte
BY DEF Bytes

LEMMA DecompressType ==
    ASSUME NEW b \in Bytes
    PROVE  Decompress(b).ok \in BOOLEAN /\ (Decompress(b).ok => Decompress(b).value \in Bytes)
<1>1. CASE b = << >>
  BY <1>1 DEF Decompress, Failure
<1>2. CASE b # << >>
  <2>. DEFINE payload == Tail(b)
              rest == Slice(payload, 4, Len(payload))
              unpacked == Inflate(rest)
  <2>1. payload \in Bytes
    BY <1>2, TailType
  <2>. HIDE DEF payload
  <2>2. rest \in Bytes
    BY <2>1, SliceType DEF Bytes
  <2>. HIDE DEF rest
  <2>3. unpacked.ok \in BOOLEAN /\ (unpacked.ok => unpacked.value \in Bytes)
    BY <2>2, InflateType
  <2>4. Inflate(payload).ok \in BOOLEAN /\ (Inflate(payload).ok => Inflate(payload).value \in Bytes)
    BY <2>1, InflateType
  <2>5. \/ Decompress(b) = Success(payload)
        \/ Decompress(b) = Inflate(payload)
        \/ Decompress(b) = unpacked
        \/ Decompress(b) = Failure
    BY <1>2 DEF Decompress, payload, rest
  <2>. HIDE DEF unpacked
  <2>6. CASE Decompress(b) = Success(payload)
    BY <2>1, <2>6 DEF Success
  <2>7. CASE Decompress(b) = Inflate(payload)
    BY <2>4, <2>7
  <2>8. CASE Decompress(b) = unpacked
    BY <2>3, <2>8
  <2>9. CASE Decompress(b) = Failure
    BY <2>9 DEF Failure
  <2>. QED
    BY <2>5, <2>6, <2>7, <2>8, <2>9
<1>. QED
  BY <1>1, <1>2

(* A cursor of decode_command.                                              *)
IsCursor(cur) ==
    /\ cur = [bytes |-> cur.bytes, pos |-> cur.pos, ok |-> cur.ok, args |-> cur.args]
    /\ cur.bytes \in Bytes /\ cur.pos \in Nat /\ cur.ok \in BOOLEAN

(* The cursor after a field was read into it, or after that failed.         *)
HasRead(cur, field, next) ==
    \/ next = Broken(cur)
    \/ \E v, n : n \in Nat /\ HasType(v, field[2]) /\ next = WithField(cur, field[1], v, n)

LEMMA ReadType ==
    ASSUME NEW cur, IsCursor(cur), NEW n \in Nat
    PROVE  Read(cur, n) \in Bytes /\ (CanRead(cur, n) => Len(Read(cur, n)) = n) /\ Len(Read(cur, n)) <= n
<1>. DEFINE b == cur.bytes
            pos == cur.pos
<1>1. b \in Seq(Byte) /\ pos \in Nat /\ n \in Int
  BY DEF IsCursor, Bytes
<1>2. Read(cur, n) = Slice(b, pos, n) /\ CanRead(cur, n) = (pos + n <= Len(b))
  BY DEF Read, CanRead
<1>. HIDE DEF b, pos
<1>3. /\ Slice(b, pos, n) \in Seq(Byte)
      /\ n \in Nat /\ pos + n <= Len(b) => Len(Slice(b, pos, n)) = n
      /\ n \in Nat => Len(Slice(b, pos, n)) <= n
  BY <1>1, SliceType
<1>. QED
  BY <1>2, <1>3 DEF Bytes

LEMMA ReadNumberType ==
    ASSUME NEW cur, IsCursor(cur), NEW field, NEW n \in {1, 2, 4},
           \A v \in Below(n) : HasType(v, field[2])
    PROVE  HasRead(cur, field, ReadNumber(cur, field[1], n))
<1>1. CASE CanRead(cur, n)
  <2>1. Read(cur, n) \in Bytes /\ Len(Read(cur, n)) = n
    BY <1>1, ReadType
  <2>2. Number(Read(cur, n)) \in Below(n)
    BY <2>1, NumberType
  <2>3. HasType(Number(Read(cur, n)), field[2])
    BY <2>2
  <2>4. ReadNumber(cur, field[1], n) = WithField(cur, field[1], Number(Read(cur, n)), n)
    BY <1>1 DEF ReadNumber
  <2>5. n \in Nat
    OBVIOUS
  <2>. QED
    BY <2>3, <2>4, <2>5, Zenon DEF HasRead
<1>2. CASE ~CanRead(cur, n)
  BY <1>2 DEF ReadNumber, HasRead
<1>. QED
  BY <1>1, <1>2

LEMMA ReadDataType ==
    ASSUME NEW cur, IsCursor(cur), NEW field, field[2] = "data"
    PROVE  HasRead(cur, field, ReadData(cur, field[1]))
<1>. DEFINE p == Read(cur, 2)
            l == Number(p)
            later == [cur EXCEPT !.pos = @ + 2]
            v == Read(later, l)
<1>1. CASE CanRead(cur, 2) /\ CanRead(cur, 2 + l)
  <2>1. p \in Bytes /\ Len(p) = 2
    BY <1>1, ReadType
  <2>. HIDE DEF p
  <2>2. l \in Nat /\ l \in 0 .. U16 - 1
    BY <2>1, NumberType DEF Below
  <2>3. ReadData(cur, field[1]) = WithField(cur, field[1], v, 2 + l)
    BY <1>1 DEF ReadData, p
  <2>. HIDE DEF l
  <2>4. IsCursor(later) /\ later.bytes = cur.bytes /\ later.pos = cur.pos + 2
    BY DEF IsCursor
  <2>. HIDE DEF later
  <2>5. v \in Bytes /\ Len(v) <= l
    BY <2>2, <2>4, ReadType
  <2>. HIDE DEF v
  <2>6. v \in Seq(0 .. Base - 1) /\ Len(v) < U16
    BY <2>2, <2>5, Widths DEF Bytes, Byte
  <2>7. HasType(v, field[2])
    BY <2>6 DEF HasType
  <2>8. 2 + l \in Nat
    BY <2>2
  <2>. QED
    BY <2>3, <2>7, <2>8, Zenon DEF HasRead
<1>2. CASE ~ (CanRead(cur, 2) /\ CanRead(cur, 2 + l))
  BY <1>2 DEF ReadData, HasRead
<1>. QED
  BY <1>1, <1>2

LEMMA ReadFieldType ==
    ASSUME NEW cur, IsCursor(cur), cur.ok, NEW field, field[2] \in FieldTypes
    PROVE  HasRead(cur, field, ReadField(cur, field))
<1>1. CASE field[2] = "u8"
  <2>1. ReadField(cur, field) = ReadNumber(cur, field[1], 1)
    BY <1>1 DEF ReadField
  <2>2. \A v \in Below(1) : HasType(v, field[2])
    BY <1>1 DEF Below, HasType
  <2>. QED
    BY <2>1, <2>2, ReadNumberType
<1>2. CASE field[2] = "u16"
  <2>1. ReadField(cur, field) = ReadNumber(cur, field[1], 2)
    BY <1>2 DEF ReadField
  <2>2. \A v \in Below(2) : HasType(v, field[2])
    BY <1>2 DEF Below, HasType
  <2>. QED
    BY <2>1, <2>2, ReadNumberType
<1>3. CASE field[2] = "u32"
  <2>1. ReadField(cur, field) = ReadNumber(cur, field[1], 4)
    BY <1>3 DEF ReadField
  <2>2. \A v \in Below(4) : HasType(v, field[2])
    BY <1>3 DEF Below, HasType
  <2>. QED
    BY <2>1, <2>2, ReadNumberType
<1>4. CASE field[2] = "flag"
  <2>1. ReadField(cur, field) = ReadFlag(cur, field[1])
    BY <1>4 DEF ReadField
  <2>2. HasType(Read(cur, 1) # <<0>>, field[2])
    BY <1>4 DEF HasType
  <2>3. \/ ReadFlag(cur, field[1]) = Broken(cur)
        \/ ReadFlag(cur, field[1]) = WithField(cur, field[1], Read(cur, 1) # <<0>>, 1)
    BY DEF ReadFlag
  <2>4. 1 \in Nat
    OBVIOUS
  <2>. QED
    BY <2>1, <2>2, <2>3, <2>4, Zenon DEF HasRead
<1>5. CASE field[2] = "data"
  <2>1. ReadField(cur, field) = ReadData(cur, field[1])
    BY <1>5 DEF ReadField
  <2>. QED
    BY <1>5, <2>1, ReadDataType
<1>6. CASE field[2] = "option"
  <2>1. ReadField(cur, field) = ReadOption(cur, field[1])
    BY <1>6 DEF ReadField
  <2>2. \A v \in Below(4) : HasType(v, field[2])
    BY <1>6 DEF Below, HasType
  <2>3. HasRead(cur, field, ReadNumber(cur, field[1], 4))
    BY <2>2, ReadNumberType
  <2>4. HasType(NoTime, field[2]) /\ 0 \in Nat
    BY <1>6 DEF HasType
  <2>5. HasRead(cur, field, WithField(cur, field[1], NoTime, 0))
    BY <2>4, Zenon DEF HasRead
  <2>. QED
    BY <2>1, <2>3, <2>5 DEF ReadOption
<1>. QED
  BY <1>1, <1>2, <1>3, <1>4, <1>5, <1>6 DEF FieldTypes

(* After i fields of the layout L of the kind k.                            *)
CursorOK(cur, k, L, i) ==
    /\ IsCursor(cur)
    /\ cur.ok => /\ DOMAIN cur.args = {L[j][1] : j \in 1 .. i}
                 /\ cur.args = [g \in DOMAIN cur.args |-> cur.args[g]]
                 /\ \A g \in DOMAIN cur.args : HasType(cur.args[g], CommandFields[k][g])

LEMMA ReadFieldStep ==
    ASSUME NEW k, NEW L, LayoutOK(k, L), NEW i \in Nat, i + 1 <= Len(L),
           NEW cur, CursorOK(cur, k, L, i)
    PROVE  CursorOK(ReadField(cur, L[i + 1]), k, L, i + 1)
<1>. DEFINE field == L[i + 1]
            next == ReadField(cur, field)
<1>0. IsCursor(cur) /\ Len(L) \in Nat
  BY DEF CursorOK, LayoutOK
<1>1. IsCursor(cur) /\ i + 1 \in 1 .. Len(L)
  BY <1>0
<1>2. field[2] = CommandFields[k][field[1]] /\ field[2] \in FieldTypes
  BY <1>1 DEF LayoutOK
<1>3. CASE ~cur.ok
  <2>1. next = cur
    BY <1>3 DEF ReadField
  <2>. QED
    BY <1>1, <1>3, <2>1 DEF CursorOK
<1>4. CASE cur.ok
  <2>1. HasRead(cur, field, next)
    BY <1>1, <1>2, <1>4, ReadFieldType
  <2>2. 1 .. i + 1 = (1 .. i) \cup {i + 1}
    OBVIOUS
  <2>3. {L[j][1] : j \in 1 .. i + 1} = {L[j][1] : j \in 1 .. i} \cup {field[1]}
    BY <2>2
  <2>. HIDE DEF field, next
  <2>4. CASE next = Broken(cur)
    BY <1>1, <2>4 DEF CursorOK, IsCursor, Broken, next, field
  <2>5. CASE \E v, n : n \in Nat /\ HasType(v, field[2]) /\ next = WithField(cur, field[1], v, n)
    <3>1. PICK v, n : n \in Nat /\ HasType(v, field[2]) /\ next = WithField(cur, field[1], v, n)
      BY <2>5
    <3>2. next = [bytes |-> cur.bytes, pos |-> cur.pos + n, ok |-> cur.ok,
                  args |-> [g \in DOMAIN cur.args \cup {field[1]} |->
                               IF g = field[1] THEN v ELSE cur.args[g]]]
      BY <1>1, <3>1 DEF WithField, IsCursor
    <3>3. IsCursor(next) /\ DOMAIN next.args = DOMAIN cur.args \cup {field[1]}
      BY <1>1, <3>1, <3>2 DEF IsCursor
    <3>4. DOMAIN next.args = {L[j][1] : j \in 1 .. i + 1}
      BY <1>4, <2>3, <3>3 DEF CursorOK
    <3>5. ASSUME NEW g \in DOMAIN next.args PROVE HasType(next.args[g], CommandFields[k][g])
      <4>1. CASE g = field[1]
        <5>1. next.args[g] = v
          BY <3>2, <3>3, <4>1
        <5>. QED
          BY <1>2, <3>1, <4>1, <5>1 DEF field
      <4>2. CASE g # field[1]
        <5>1. g \in DOMAIN cur.args /\ next.args[g] = cur.args[g]
          BY <3>2, <3>3, <4>2
        <5>. QED
          BY <1>4, <5>1 DEF CursorOK
      <4>. QED
        BY <4>1, <4>2
    <3>6. next.args = [g \in DOMAIN next.args |-> next.args[g]]
      BY <3>2
    <3>. QED
      BY <3>3, <3>4, <3>5, <3>6 DEF CursorOK, next, field
  <2>. QED
    BY <2>1, <2>4, <2>5 DEF HasRead
<1>. QED
  BY <1>1, <1>3, <1>4 DEF IsCursor

LEMMA FieldsIsFold ==
    ASSUME NEW base, NEW s
    PROVE  FoldLeft(ReadField, base, s) = Fields!Folded(base, s)
BY DEF Fields!Folded, FoldLeft, MapThenFoldSet, Max, Fields!Largest

(* A command that decode_command accepts has all fields of its kind, each   *)
(* within its type, whatever the bytes.                                     *)
LEMMA DecodeCommandType ==
    ASSUME NEW b \in Bytes
    PROVE  DecodeCommand(b).ok \in BOOLEAN /\ (DecodeCommand(b).ok => IsCommand(DecodeCommand(b).value))
<1>1. CASE b = << >> \/ Head(b) \notin DOMAIN DecodeLayout
  BY <1>1 DEF DecodeCommand, Failure
<1>2. CASE ~ (b = << >> \/ Head(b) \notin DOMAIN DecodeLayout)
  <2>1. PICK k \in Kinds : DecodeLayout[Head(b)] = <<k, EncodeIntoLayout[k]>>
    BY <1>2, DecodeLayouts
  <2>. DEFINE L == EncodeIntoLayout[k]
              n == Len(L)
              start == [bytes |-> b, pos |-> 1, ok |-> TRUE, args |-> << >>]
              end == FoldLeft(ReadField, start, L)
  <2>2. DecodeCommand(b) = IF end.ok THEN Success(Command(k, end.args)) ELSE Failure
    BY <1>2, <2>1 DEF DecodeCommand
  <2>3. LayoutOK(k, L)
    BY EncodeLayouts
  <2>. HIDE DEF L
  <2>4. n \in Nat /\ DOMAIN L = 1 .. n
    BY <2>3 DEF LayoutOK
  <2>5. CursorOK(start, k, L, 0)
    <3>1. DOMAIN start.args = {} /\ 1 .. 0 = {} /\ IsCursor(start)
      BY DEF IsCursor
    <3>2. start.args = [g \in DOMAIN start.args |-> start.args[g]]
      OBVIOUS
    <3>. HIDE DEF start
    <3>. QED
      BY <3>1, <3>2 DEF CursorOK
  <2>6. end = Fields!Folded(start, L)
    BY FieldsIsFold
  <2>. HIDE DEF start, end, n
  <2>7. PICK f : /\ f[0] = start
                 /\ \A i \in 0 .. n - 1 : f[i + 1] = ReadField(f[i], L[i + 1])
                 /\ end = f[n]
    <3>1. PICK f : Fields!PrefixValues(start, L, n, f)
      BY <2>4, Fields!FoldHasValues
    <3>. QED
      BY <2>6, <3>1 DEF Fields!PrefixValues
  <2>. DEFINE S == {i \in Nat : i <= n => CursorOK(f[i], k, L, i)}
  <2>8. 0 \in S
    BY <2>5, <2>7
  <2>9. ASSUME NEW i \in Nat, i \in S PROVE i + 1 \in S
    <3>. SUFFICES ASSUME i + 1 <= n PROVE CursorOK(f[i + 1], k, L, i + 1)
      OBVIOUS
    <3>1. i \in 0 .. n - 1 /\ CursorOK(f[i], k, L, i)
      BY <2>4, <2>9
    <3>2. CursorOK(ReadField(f[i], L[i + 1]), k, L, i + 1)
      BY <2>3, <3>1, ReadFieldStep DEF n
    <3>. QED
      BY <2>7, <3>1, <3>2
  <2>10. Nat \subseteq S
    <3>. HIDE DEF S
    <3>. QED
      BY <2>8, <2>9, Fields!SetInduction
  <2>11. CursorOK(end, k, L, n)
    BY <2>4, <2>7, <2>10
  <2>12. end.ok \in BOOLEAN
    BY <2>11 DEF CursorOK, IsCursor
  <2>13. end.ok => IsCommand(Command(k, end.args))
    <3>1. end.ok => DOMAIN end.args = DOMAIN CommandFields[k]
      BY <2>3, <2>11 DEF CursorOK, LayoutOK, n
    <3>. QED
      BY <2>11, <3>1, IsCommandMade DEF CursorOK
  <2>14. CASE end.ok
    BY <2>2, <2>13, <2>14 DEF Success
  <2>15. CASE ~end.ok
    BY <2>2, <2>15 DEF Failure
  <2>. QED
    BY <2>12, <2>14, <2>15
<1>. QED
  BY <1>1, <1>2

LEMMA PacketsIsFold ==
    ASSUME NEW base, NEW s
    PROVE  FoldLeft(DecodeNext, base, s) = Packets!Folded(base, s)
BY DEF Packets!Folded, FoldLeft, MapThenFoldSet, Max, Packets!Largest

(* What decode_packet has read so far.                                      *)
PacketOK(p) ==
    /\ p = [ok |-> p.ok, rest |-> p.rest, commands |-> p.commands]
    /\ p.ok \in BOOLEAN /\ p.rest \in Bytes /\ AreCommands(p.commands)

LEMMA DecodeNextStep ==
    ASSUME NEW p, PacketOK(p), NEW n
    PROVE  PacketOK(DecodeNext(p, n))
<1>. DEFINE prefix == Slice(p.rest, 0, 2)
            l == Number(prefix)
            decoded == DecodeCommand(Slice(p.rest, 2, l))
            after == Slice(p.rest, 2 + l, Len(p.rest))
<1>1. p.rest \in Seq(Byte) /\ Len(p.rest) \in Nat
  BY DEF PacketOK, Bytes
<1>2. prefix \in Bytes
  BY <1>1, SliceType DEF Bytes
<1>3. l \in Nat
  BY <1>2, NumberType
<1>. HIDE DEF l
<1>4. Slice(p.rest, 2, l) \in Bytes /\ after \in Bytes
  <2>1. 2 \in Nat /\ 2 + l \in Nat /\ l \in Int /\ Len(p.rest) \in Int
    BY <1>1, <1>3
  <2>2. Slice(p.rest, 2, l) \in Seq(Byte)
    BY <1>1, <2>1, SliceType
  <2>3. Slice(p.rest, 2 + l, Len(p.rest)) \in Seq(Byte)
    BY <1>1, <2>1, SliceType
  <2>. QED
    BY <2>2, <2>3 DEF Bytes
<1>5. decoded.ok => IsCommand(decoded.value)
  BY <1>4, DecodeCommandType
<1>6. \/ DecodeNext(p, n) = [p EXCEPT !.ok = FALSE]
      \/ decoded.ok /\ DecodeNext(p, n) = [p EXCEPT !.commands = Append(@, decoded.value), !.rest = after]
  BY DEF DecodeNext, l, PacketOK
<1>. HIDE DEF decoded, after
<1>7. CASE DecodeNext(p, n) = [p EXCEPT !.ok = FALSE]
  BY <1>7 DEF PacketOK
<1>8. CASE decoded.ok /\ DecodeNext(p, n) = [p EXCEPT !.commands = Append(@, decoded.value), !.rest = after]
  <2>1. DecodeNext(p, n) = [ok |-> p.ok, rest |-> after, commands |-> Append(p.commands, decoded.value)]
    BY <1>8 DEF PacketOK
  <2>2. AreCommands(Append(p.commands, decoded.value))
    BY <1>5, <1>8, AppendCommand DEF PacketOK
  <2>3. p.ok \in BOOLEAN
    BY DEF PacketOK
  <2>. QED
    BY <1>4, <2>1, <2>2, <2>3 DEF PacketOK
<1>. QED
  BY <1>6, <1>7, <1>8

(* Whatever bytes arrive, decode_packet yields well-formed commands or an   *)
(* error.                                                                   *)
LEMMA DecodePacketType ==
    ASSUME NEW b \in Bytes
    PROVE  DecodePacket(b).ok \in BOOLEAN /\ (DecodePacket(b).ok => AreCommands(DecodePacket(b).value))
<1>1. CASE b = << >>
  BY <1>1 DEF DecodePacket, Failure
<1>2. CASE b # << >>
  <2>. DEFINE start == [ok |-> TRUE, rest |-> Tail(b), commands |-> << >>]
              count == Head(b)
              turns == [n \in 1 .. count |-> n]
              end == FoldLeft(DecodeNext, start, turns)
  <2>1. Tail(b) \in Bytes /\ count \in Nat
    BY <1>2, TailType, Widths DEF Byte
  <2>2. DecodePacket(b) = IF end.ok THEN Success(end.commands) ELSE Failure
    BY <1>2 DEF DecodePacket
  <2>3. PacketOK(start)
    BY <2>1, NoCommands DEF PacketOK
  <2>4. end = Packets!Folded(start, turns)
    BY PacketsIsFold
  <2>5. DOMAIN turns = 1 .. count
    OBVIOUS
  <2>. HIDE DEF start, end, count, turns
  <2>6. PICK f : /\ f[0] = start
                 /\ \A i \in 0 .. count - 1 : f[i + 1] = DecodeNext(f[i], turns[i + 1])
                 /\ end = f[count]
    <3>1. PICK f : Packets!PrefixValues(start, turns, count, f)
      BY <2>1, <2>5, Packets!FoldHasValues
    <3>. QED
      BY <2>4, <3>1 DEF Packets!PrefixValues
  <2>. DEFINE S == {i \in Nat : i <= count => PacketOK(f[i])}
  <2>7. 0 \in S
    BY <2>3, <2>6
  <2>8. ASSUME NEW i \in Nat, i \in S PROVE i + 1 \in S
    <3>. SUFFICES ASSUME i + 1 <= count PROVE PacketOK(f[i + 1])
      OBVIOUS
    <3>1. i \in 0 .. count - 1 /\ PacketOK(f[i])
      BY <2>1, <2>8
    <3>. QED
      BY <2>6, <3>1, DecodeNextStep
  <2>9. Nat \subseteq S
    <3>. HIDE DEF S
    <3>. QED
      BY <2>7, <2>8, Packets!SetInduction
  <2>10. PacketOK(end)
    BY <2>1, <2>6, <2>9
  <2>11. CASE end.ok
    BY <2>2, <2>10, <2>11 DEF PacketOK, Success
  <2>12. CASE ~end.ok
    BY <2>2, <2>10, <2>12 DEF PacketOK, Failure
  <2>. QED
    BY <2>11, <2>12
<1>. QED
  BY <1>1, <1>2

LEMMA StripChecksumType ==
    ASSUME NEW b \in Bytes
    PROVE  /\ StripChecksum(b).ok \in BOOLEAN
           /\ StripChecksum(b).ok => StripChecksum(b).value \in Bytes
<1>. DEFINE payload == Slice(b, 0, Len(b) - 4)
<1>1. b \in Seq(Byte) /\ 0 \in Nat /\ Len(b) - 4 \in Int
  BY DEF Bytes
<1>2. payload \in Bytes
  BY <1>1, SliceType DEF Bytes
<1>3. StripChecksum(b) = Success(payload) \/ StripChecksum(b) = Failure
  BY DEF StripChecksum
<1>. HIDE DEF payload
<1>4. CASE StripChecksum(b) = Success(payload)
  BY <1>2, <1>4 DEF Success
<1>5. CASE StripChecksum(b) = Failure
  BY <1>5 DEF Failure
<1>. QED
  BY <1>3, <1>4, <1>5

(* Whatever bytes arrive, process_command_packet either rejects them or yields      *)
(* well-formed commands: every field of every one in its range.             *)
THEOREM ParseYieldsCommands ==
    ASSUME NEW b \in Bytes, NEW c \in Configs
    PROVE  Parse(b, c).ok \in BOOLEAN /\ (Parse(b, c).ok => AreCommands(Parse(b, c).value))
<1>. DEFINE stripped == IF c.checksums THEN StripChecksum(b) ELSE Success(b)
            unpacked == Decompress(stripped.value)
<1>1. stripped.ok => stripped.value \in Bytes
  <2>1. CASE c.checksums
    BY <2>1, StripChecksumType
  <2>2. CASE ~c.checksums
    BY <2>2 DEF Success
  <2>. QED
    BY <2>1, <2>2
<1>2. Parse(b, c) = IF stripped.ok /\ unpacked.ok THEN DecodePacket(unpacked.value) ELSE Failure
  BY DEF Parse
<1>. HIDE DEF stripped
<1>3. stripped.ok /\ unpacked.ok => unpacked.value \in Bytes
  BY <1>1, DecompressType
<1>. HIDE DEF unpacked
<1>4. CASE stripped.ok /\ unpacked.ok
  BY <1>2, <1>3, <1>4, DecodePacketType
<1>5. CASE ~ (stripped.ok /\ unpacked.ok)
  <2>1. Parse(b, c) = Failure
    BY <1>2, <1>5, Zenon
  <2>. QED
    BY <2>1 DEF Failure
<1>. QED
  BY <1>4, <1>5

-----------------------------------------------------------------------------
(* Decoding undoes encoding. *)

LEMMA TwoDigits ==
    ASSUME NEW l \in Nat
    PROVE  Digits(l, 2) = <<(l \div Base) % Base, l % Base>>
<1>1. PlaceValue[1] = 1 /\ PlaceValue[2] = Base
  BY DEF PlaceValue
<1>2. l \div 1 = l
  OBVIOUS
<1>. DEFINE x == (l \div Base) % Base
            y == l % Base
            d == Digits(l, 2)
<1>3. d = [i \in 1 .. 2 |-> (l \div PlaceValue[2 + 1 - i]) % Base]
  BY DEF Digits
<1>4. d[1] = x /\ d[2] = y
  <2>1. 1 \in 1 .. 2 /\ 2 \in 1 .. 2 /\ 2 + 1 - 1 = 2 /\ 2 + 1 - 2 = 1
    OBVIOUS
  <2>2. d[1] = (l \div PlaceValue[2 + 1 - 1]) % Base /\ d[2] = (l \div PlaceValue[2 + 1 - 2]) % Base
    BY <1>3, <2>1
  <2>. QED
    BY <1>1, <1>2, <2>1, <2>2
<1>5. d = [i \in 1 .. 2 |-> d[i]]
  BY <1>3
<1>. HIDE DEF d, x, y
<1>6. <<x, y>> = [i \in 1 .. 2 |-> d[i]]
  BY <1>4
<1>. QED
  BY <1>5, <1>6 DEF d, x, y

LEMMA ConcatAt ==
    ASSUME NEW V, NEW s \in Seq(V), NEW t \in Seq(V)
    PROVE  /\ \A i \in 1 .. Len(s) : (s \o t)[i] = s[i]
           /\ \A i \in 1 .. Len(t) : (s \o t)[Len(s) + i] = t[i]
OBVIOUS

(* What lies between two parts of a sequence is read by its place.          *)
LEMMA SliceBetween ==
    ASSUME NEW V, NEW p \in Seq(V), NEW x \in Seq(V), NEW q \in Seq(V)
    PROVE  Slice(p \o (x \o q), Len(p), Len(x)) = x
<1>. DEFINE r == x \o q
            s == p \o r
            a == Len(p)
            b == Len(x)
            t == SubSeq(s, a + 1, a + b)
<1>1. r \in Seq(V) /\ Len(r) = b + Len(q) /\ \A i \in 1 .. b : r[i] = x[i]
  BY ConcatProperties
<1>. HIDE DEF r
<1>3. a \in Nat /\ b \in Nat /\ Len(q) \in Nat /\ \A i \in 1 .. b : x[i] \in V
  OBVIOUS
<1>2. /\ s \in Seq(V) /\ Len(s) = a + b + Len(q)
      /\ \A i \in 1 .. b : s[a + i] = x[i]
  <2>1. s \in Seq(V) /\ Len(s) = a + Len(r) /\ \A i \in 1 .. Len(r) : s[a + i] = r[i]
    <3>1. r \in Seq(V)
      BY <1>1
    <3>. QED
      BY <3>1
  <2>. HIDE DEF s, a, b
  <2>. QED
    BY <1>1, <1>3, <2>1
<1>. HIDE DEF s, a, b
<1>4. CASE b = 0
  <2>1. x = << >>
    BY <1>4 DEF b
  <2>. QED
    BY <1>2, <1>3, <1>4, <2>1 DEF Slice, s, r, a, b
<1>5. CASE b > 0
  <2>1. \A i \in a + 1 .. a + b : s[i] \in V
    <3>. TAKE i \in a + 1 .. a + b
    <3>1. i - a \in 1 .. b /\ a + (i - a) = i
      BY <1>3
    <3>. QED
      BY <1>2, <1>3, <3>1
  <2>2. t \in Seq(V) /\ Len(t) = b /\ \A i \in 1 .. b : t[i] = s[a + i]
    <3>1. a + 1 \in Int /\ a + b \in Int /\ a + b - (a + 1) + 1 = b /\ \A i \in 1 .. b : (a + 1) + i - 1 = a + i
      BY <1>3
    <3>. QED
      BY <1>3, <1>5, <2>1, <3>1, SubSeqProperties
  <2>. HIDE DEF t
  <2>3. t = x
    BY <1>2, <2>2, SeqEqual DEF b
  <2>. QED
    <3>. DEFINE l == Len(s)
                m == Len(q)
    <3>0. l = a + b + m /\ m \in Nat
      BY <1>2, <1>3
    <3>. HIDE DEF l, m
    <3>1. (IF a + b < l THEN a + b ELSE l) = a + b /\ ~ (a + b <= a)
      BY <1>3, <1>5, <3>0
    <3>2. Slice(s, a, b) = t
      BY <3>1 DEF Slice, t, l
    <3>. QED
      BY <2>3, <3>2 DEF s, r, a, b
<1>. QED
  BY <1>3, <1>4, <1>5

(* The end of a sequence.                                                   *)
LEMMA SliceEnd ==
    ASSUME NEW V, NEW p \in Seq(V), NEW x \in Seq(V), NEW n \in Nat, n >= Len(x)
    PROVE  Slice(p \o x, Len(p), n) = x
<1>1. x \o << >> = x
  BY ConcatEmptySeq
<1>2. Slice(p \o x, Len(p), Len(x)) = x
  <2>1. << >> \in Seq(V)
    OBVIOUS
  <2>2. Slice(p \o (x \o << >>), Len(p), Len(x)) = x
    BY <2>1, SliceBetween
  <2>. QED
    BY <1>1, <2>2
<1>3. Len(p \o x) = Len(p) + Len(x) /\ Len(p) \in Nat /\ Len(x) \in Nat
  OBVIOUS
<1>. DEFINE s == p \o x
            e == Len(p) + Len(x)
<1>4. (IF Len(p) + n < Len(s) THEN Len(p) + n ELSE Len(s)) = Len(s)
  BY <1>3
<1>5. (IF Len(p) + Len(x) < Len(s) THEN Len(p) + Len(x) ELSE Len(s)) = Len(s)
  BY <1>3
<1>. HIDE DEF s
<1>6. Slice(s, Len(p), n) = Slice(s, Len(p), Len(x))
  BY <1>4, <1>5 DEF Slice
<1>. QED
  BY <1>2, <1>6 DEF s

(* The beginning of a sequence.                                             *)
LEMMA SliceStart ==
    ASSUME NEW V, NEW x \in Seq(V), NEW q \in Seq(V)
    PROVE  Slice(x \o q, 0, Len(x)) = x
<1>1. << >> \in Seq(V) /\ Len(<< >>) = 0 /\ x \o q \in Seq(V)
  OBVIOUS
<1>2. << >> \o (x \o q) = x \o q
  BY <1>1, ConcatEmptySeq
<1>3. Slice(<< >> \o (x \o q), Len(<< >>), Len(x)) = x
  BY <1>1, SliceBetween
<1>. QED
  BY <1>1, <1>2, <1>3

(* One sequence begins another.                                            *)
Begins(V, s, t) == \E q \in Seq(V) : t = s \o q

LEMMA BeginsItself ==
    ASSUME NEW V, NEW s \in Seq(V)
    PROVE  Begins(V, s, s)
<1>1. << >> \in Seq(V) /\ s = s \o << >>
  BY ConcatEmptySeq
<1>. QED
  BY <1>1 DEF Begins

LEMMA BeginsMore ==
    ASSUME NEW V, NEW s \in Seq(V), NEW t \in Seq(V), NEW u \in Seq(V), Begins(V, s, t)
    PROVE  Begins(V, s, t \o u)
<1>1. PICK q \in Seq(V) : t = s \o q
  BY DEF Begins
<1>2. (s \o q) \o u = s \o (q \o u) /\ q \o u \in Seq(V)
  BY ConcatAssociative, SMTT(30)
<1>. QED
  BY <1>1, <1>2 DEF Begins

(* t consists of s, x and something that follows.                          *)
Continues(V, s, x, t) == \E q \in Seq(V) : t = s \o (x \o q) /\ t = (s \o x) \o q

LEMMA NextPart ==
    ASSUME NEW V, NEW s \in Seq(V), NEW x \in Seq(V), NEW y, y = s \o x, NEW t, Begins(V, y, t)
    PROVE  Continues(V, s, x, t)
<1>1. PICK q \in Seq(V) : t = y \o q
  BY DEF Begins
<1>2. y \o q = s \o (x \o q)
  <2>1. (s \o x) \o q = s \o (x \o q) /\ x \o q \in Seq(V)
    BY ConcatAssociative, SMTT(30)
  <2>. QED
    BY <2>1
<1>. QED
  BY <1>1, <1>2 DEF Continues

(* What was joined up to one part begins what was joined in the end, and    *)
(* the next part follows it.                                                *)
LEMMA JoinedSplits ==
    ASSUME NEW V, NEW n \in Nat, NEW seqs \in [1 .. n -> Seq(V)], NEW f, Joined(V, n, seqs, f)
    PROVE  /\ \A i \in 0 .. n : f[i] \in Seq(V) /\ Begins(V, f[i], f[n])
           /\ \A i \in 0 .. n - 1 : Continues(V, f[i], seqs[i + 1], f[n])
<1>1. /\ \A i \in 0 .. n : f[i] \in Seq(V)
      /\ \A i \in 0 .. n - 1 : f[i + 1] = f[i] \o seqs[i + 1]
  BY Zenon DEF Joined
<1>2. \A i \in 0 .. n - 1 : i + 1 \in 1 .. n /\ seqs[i + 1] \in Seq(V)
  OBVIOUS
<1>. DEFINE S == {k \in Nat : k <= n => \A i \in 0 .. k : Begins(V, f[i], f[k])}
<1>3. 0 \in S
  <2>1. ASSUME NEW i \in 0 .. 0 PROVE Begins(V, f[i], f[0])
    <3>1. i = 0 /\ f[0] \in Seq(V)
      BY <1>1
    <3>. QED
      BY <3>1, BeginsItself
  <2>. QED
    BY <2>1
<1>4. ASSUME NEW k \in Nat, k \in S PROVE k + 1 \in S
  <2>. SUFFICES ASSUME k + 1 <= n, NEW i \in 0 .. k + 1 PROVE Begins(V, f[i], f[k + 1])
    OBVIOUS
  <2>1. CASE i = k + 1
    BY <1>1, <2>1, BeginsItself
  <2>2. CASE i \in 0 .. k
    <3>1. Begins(V, f[i], f[k])
      BY <1>4, <2>2
    <3>2. k \in 0 .. n - 1 /\ i \in 0 .. n /\ k \in 0 .. n
      BY <2>2
    <3>3. f[k + 1] = f[k] \o seqs[k + 1] /\ seqs[k + 1] \in Seq(V) /\ f[i] \in Seq(V) /\ f[k] \in Seq(V)
      BY <1>1, <1>2, <3>2
    <3>. QED
      BY <3>1, <3>3, BeginsMore
  <2>. QED
    BY <2>1, <2>2
<1>5. Nat \subseteq S
  <2>. HIDE DEF S
  <2>. QED
    BY <1>3, <1>4, Numbers!SetInduction
<1>6. \A i \in 0 .. n : Begins(V, f[i], f[n])
  BY <1>5
<1>7. ASSUME NEW i \in 0 .. n - 1
      PROVE  Continues(V, f[i], seqs[i + 1], f[n])
  <2>1. i + 1 \in 0 .. n /\ i \in 0 .. n
    OBVIOUS
  <2>2. Begins(V, f[i + 1], f[n])
    BY <1>6, <2>1
  <2>3. f[i] \in Seq(V) /\ seqs[i + 1] \in Seq(V) /\ f[i + 1] = f[i] \o seqs[i + 1]
    BY <1>1, <1>2, <2>1
  <2>. QED
    BY <2>2, <2>3, NextPart
<1>. QED
  BY <1>1, <1>6, <1>7

(* Dividing twice.                                                          *)
LEMMA DivisionTwice ==
    ASSUME NEW a \in Nat, a > 0, NEW b \in Nat, b > 0, NEW x \in Nat
    PROVE  (x \div a) \div b = x \div (a * b)
<1>. DEFINE q == x \div a
            r == x % a
            p == q \div b
            t == q % b
            d == a * b
            s == a * t + r
<1>1. q \in Nat /\ r \in 0 .. a - 1 /\ x = a * q + r
  BY Numbers!Division
<1>. HIDE DEF q, r
<1>2. p \in Nat /\ t \in 0 .. b - 1 /\ q = b * p + t
  BY <1>1, Numbers!Division
<1>. HIDE DEF p, t
<1>3. x = d * p + s
  <2>1. a * (b * p + t) = (a * b) * p + a * t
    BY <1>2
  <2>2. a * q = d * p + a * t
    BY <1>2, <2>1
  <2>3. a * t \in Nat /\ d * p \in Nat /\ a * q \in Nat
    BY <1>1, <1>2
  <2>. DEFINE y == a * q
              z == d * p
              w == a * t
  <2>4. y = z + w /\ y \in Nat /\ z \in Nat /\ w \in Nat /\ x = y + r /\ s = w + r
    BY <1>1, <2>2, <2>3
  <2>. HIDE DEF y, z, w, s
  <2>5. x = z + s
    BY <1>1, <2>4
  <2>. QED
    BY <2>5 DEF z
<1>4. s \in 0 .. d - 1 /\ d \in Nat /\ d > 0
  <2>. DEFINE e == b - 1 - t
  <2>1. e \in Nat /\ b = t + 1 + e
    BY <1>2
  <2>. HIDE DEF e
  <2>2. a * (t + 1 + e) = a * t + a + a * e /\ a * t \in Nat /\ a * e \in Nat
    BY <1>2, <2>1
  <2>3. d = a * t + a + a * e
    BY <2>1, <2>2
  <2>. DEFINE y == a * t
              z == a * e
  <2>4. y \in Nat /\ z \in Nat /\ d = y + a + z /\ s = y + r
    BY <2>2, <2>3
  <2>. HIDE DEF y, z, d, s
  <2>. QED
    BY <1>1, <2>4
<1>. HIDE DEF d, s
<1>5. x \div d = p
  BY <1>2, <1>3, <1>4, Numbers!DivisionIsUnique
<1>. QED
  BY <1>5 DEF p, q, d

(* A number below a product has a quotient below one factor.                *)
LEMMA QuotientBelow ==
    ASSUME NEW a \in Nat, a > 0, NEW b \in Nat, NEW x \in 0 .. a * b - 1
    PROVE  x \div a \in 0 .. b - 1
<1>. DEFINE q == x \div a
            r == x % a
<1>1. q \in Nat /\ r \in 0 .. a - 1 /\ x = a * q + r /\ x \in Nat
  <2>1. x \in Nat
    OBVIOUS
  <2>. QED
    BY <2>1, Numbers!Division
<1>. HIDE DEF q, r
<1>2. ASSUME q >= b PROVE FALSE
  <2>. DEFINE e == q - b
  <2>1. e \in Nat /\ q = b + e
    BY <1>1, <1>2
  <2>. HIDE DEF e
  <2>2. a * (b + e) = a * b + a * e /\ a * b \in Nat /\ a * e \in Nat
    BY <2>1
  <2>3. a * q = a * b + a * e
    BY <2>1, <2>2
  <2>. DEFINE w == a * b
              z == a * e
              y == a * q
  <2>4. w \in Nat /\ z \in Nat /\ y = w + z /\ x = y + r /\ x \in 0 .. w - 1
    BY <1>1, <2>2, <2>3
  <2>. HIDE DEF w, z, y
  <2>. QED
    BY <1>1, <2>4
<1>. QED
  BY <1>1, <1>2 DEF q

(* What one, two and four bytes say.                                        *)
LEMMA NumberValue ==
    ASSUME NEW s \in Bytes
    PROVE  /\ Len(s) = 1 => Number(s) = s[1]
           /\ Len(s) = 2 => Number(s) = s[1] * Base + s[2]
           /\ Len(s) = 4 => Number(s) = ((s[1] * Base + s[2]) * Base + s[3]) * Base + s[4]
<1>. DEFINE l == Len(s)
<1>1. l \in Nat /\ DOMAIN s = 1 .. l /\ \A i \in 1 .. l : s[i] \in Byte
  BY DEF Bytes
<1>. HIDE DEF l
<1>2. PICK f : /\ f[0] = 0
               /\ \A i \in 0 .. l - 1 : f[i + 1] = WithDigit(f[i], s[i + 1])
               /\ Number(s) = f[l]
  <2>1. Number(s) = Numbers!Folded(0, s)
    BY NumbersIsFold DEF Number
  <2>2. PICK f : Numbers!PrefixValues(0, s, l, f)
    BY <1>1, Numbers!FoldHasValues
  <2>. QED
    BY <2>1, <2>2 DEF Numbers!PrefixValues
<1>3. l >= 1 => f[1] = s[1]
  <2>. SUFFICES ASSUME l >= 1 PROVE f[1] = s[1]
    OBVIOUS
  <2>1. 0 \in 0 .. l - 1 /\ 0 + 1 = 1 /\ s[1] \in Byte
    BY <1>1
  <2>2. f[1] = 0 * Base + s[1]
    BY <1>2, <2>1 DEF WithDigit
  <2>. QED
    BY <2>1, <2>2, Widths DEF Byte
<1>4. l >= 2 => f[2] = f[1] * Base + s[2]
  <2>1. l >= 2 => 1 \in 0 .. l - 1 /\ 1 + 1 = 2
    BY <1>1
  <2>. QED
    BY <1>2, <2>1 DEF WithDigit
<1>5. l >= 4 => f[3] = f[2] * Base + s[3] /\ f[4] = f[3] * Base + s[4]
  <2>1. l >= 4 => 2 \in 0 .. l - 1 /\ 2 + 1 = 3 /\ 3 \in 0 .. l - 1 /\ 3 + 1 = 4
    BY <1>1
  <2>. QED
    BY <1>2, <2>1 DEF WithDigit
<1>6. CASE l = 1
  BY <1>2, <1>3, <1>6 DEF l
<1>7. CASE l = 2
  BY <1>2, <1>3, <1>4, <1>7 DEF l
<1>8. CASE l = 4
  <2>1. f[1] = s[1] /\ f[2] = f[1] * Base + s[2] /\ f[3] = f[2] * Base + s[3] /\ f[4] = f[3] * Base + s[4]
    BY <1>3, <1>4, <1>5, <1>8
  <2>2. Number(s) = f[4] /\ Len(s) = 4
    BY <1>2, <1>8 DEF l
  <2>. QED
    BY <2>1, <2>2, Zenon
<1>. QED
  BY <1>6, <1>7, <1>8 DEF l

LEMMA DigitItself ==
    ASSUME NEW b \in 0 .. Base - 1
    PROVE  b % Base = b
<1>1. b \in Nat /\ Base \in Nat /\ Base > 0 /\ 0 \in Int /\ b = Base * 0 + b
  BY Widths
<1>. QED
  BY <1>1, Numbers!DivisionIsUnique

(* Reading a number gives what was written.                                 *)
LEMMA NumberOfDigits ==
    ASSUME NEW n \in {1, 2, 4}, NEW v \in Below(n)
    PROVE  Number(Digits(v, n)) = v
<1>. DEFINE s == Digits(v, n)
            q1 == v \div Base
            q2 == q1 \div Base
            q3 == q2 \div Base
<1>1. v \in Nat
  BY Widths DEF Below
<1>2. s \in Bytes /\ Len(s) = n
  BY <1>1, DigitsType
<1>3. q1 \in Nat /\ v % Base \in Nat /\ v = Base * q1 + (v % Base)
  BY <1>1, Widths, Numbers!Division
<1>4. v \div 1 = v
  BY <1>1
<1>5. CASE n = 1
  <2>1. s[1] = (v \div 1) % Base
    BY <1>5 DEF Digits, PlaceValue
  <2>2. v \in 0 .. Base - 1
    BY <1>5 DEF Below
  <2>3. v % Base = v
    BY <2>2, DigitItself
  <2>. HIDE DEF s
  <2>. QED
    BY <1>2, <1>4, <1>5, <2>1, <2>3, NumberValue DEF s
<1>6. CASE n = 2
  <2>1. s[1] = (v \div Base) % Base /\ s[2] = (v \div 1) % Base
    BY <1>6 DEF Digits, PlaceValue
  <2>2. v \in 0 .. Base * Base - 1
    BY <1>6, Widths DEF Below
  <2>3. q1 \in 0 .. Base - 1
    BY <2>2, Widths, QuotientBelow
  <2>. HIDE DEF q1, s
  <2>4. q1 % Base = q1
    BY <2>3, DigitItself
  <2>5. s[1] = q1 /\ s[2] = v % Base
    BY <1>4, <2>1, <2>4 DEF q1
  <2>6. Number(s) = s[1] * Base + s[2]
    BY <1>2, <1>6, NumberValue
  <2>7. q1 * Base + (v % Base) = v
    BY <1>3, Widths
  <2>. QED
    BY <2>5, <2>6, <2>7 DEF s
<1>7. CASE n = 4
  <2>1. /\ s[1] = (v \div (U16 * Base)) % Base /\ s[2] = (v \div U16) % Base
        /\ s[3] = (v \div Base) % Base /\ s[4] = (v \div 1) % Base
    BY <1>7 DEF Digits, PlaceValue
  <2>2. q2 \in Nat /\ q1 % Base \in Nat /\ q1 = Base * q2 + (q1 % Base)
    <3>. HIDE DEF q1
    <3>. QED
      BY <1>3, Widths, Numbers!Division
  <2>3. q3 \in Nat /\ q2 % Base \in Nat /\ q2 = Base * q3 + (q2 % Base)
    <3>. HIDE DEF q2
    <3>. QED
      BY <2>2, Widths, Numbers!Division
  <2>4. v \div U16 = q2
    BY <1>1, Widths, DivisionTwice DEF U16
  <2>5. v \div (U16 * Base) = q3
    <3>1. U16 \in Nat /\ U16 > 0 /\ Base \in Nat /\ Base > 0
      BY Widths
    <3>2. (v \div U16) \div Base = v \div (U16 * Base)
      BY <1>1, <3>1, DivisionTwice
    <3>. QED
      BY <2>4, <3>2
  <2>6. q3 \in 0 .. Base - 1
    <3>. DEFINE m == U16 * Base
    <3>1. m \in Nat /\ m > 0 /\ v \in 0 .. m * Base - 1 /\ Base \in Nat
      BY <1>7, Widths DEF Below
    <3>. HIDE DEF m
    <3>2. v \div m \in 0 .. Base - 1
      BY <3>1, QuotientBelow
    <3>. QED
      BY <2>5, <3>2 DEF m
  <2>. HIDE DEF q1, q2, q3, s
  <2>7. q3 % Base = q3
    BY <2>6, DigitItself
  <2>8. s[1] = q3 /\ s[2] = q2 % Base /\ s[3] = q1 % Base /\ s[4] = v % Base
    BY <1>4, <2>1, <2>4, <2>5, <2>7 DEF q1
  <2>9. Number(s) = ((s[1] * Base + s[2]) * Base + s[3]) * Base + s[4]
    BY <1>2, <1>7, NumberValue
  <2>10. q3 * Base + (q2 % Base) = q2
    BY <2>3, Widths
  <2>11. q2 * Base + (q1 % Base) = q1
    BY <2>2, Widths
  <2>12. q1 * Base + (v % Base) = v
    BY <1>3, Widths
  <2>13. Number(s) = ((q3 * Base + (q2 % Base)) * Base + (q1 % Base)) * Base + (v % Base)
    BY <2>8, <2>9, Zenon
  <2>14. Number(s) = v
    BY <2>10, <2>11, <2>12, <2>13, Zenon
  <2>. QED
    BY <2>14 DEF s
<1>. QED
  BY <1>5, <1>6, <1>7

(* A cursor that has read the first pos bytes without an error.             *)
At(b, pos, args) == [bytes |-> b, pos |-> pos, ok |-> TRUE, args |-> args]

(* The bytes b are p, x and q, one after the other.                         *)
Split(b, p, x, q) == p \in Bytes /\ x \in Bytes /\ q \in Bytes /\ b = p \o (x \o q)

LEMMA SplitSize ==
    ASSUME NEW b, NEW p, NEW x, NEW q, Split(b, p, x, q)
    PROVE  /\ b \in Bytes /\ Len(b) = Len(p) + Len(x) + Len(q)
           /\ Len(p) \in Nat /\ Len(x) \in Nat /\ Len(q) \in Nat
<1>1. p \in Bytes /\ x \in Bytes /\ q \in Bytes /\ b = p \o (x \o q)
  BY DEF Split
<1>2. x \o q \in Bytes /\ Len(x \o q) = Len(x) + Len(q)
  BY <1>1, ConcatType DEF Bytes
<1>3. b \in Bytes /\ Len(b) = Len(p) + Len(x \o q)
  BY <1>1, <1>2, ConcatType DEF Bytes
<1>4. Len(p) \in Nat /\ Len(x) \in Nat /\ Len(q) \in Nat
  BY <1>1 DEF Bytes
<1>. QED
  BY <1>2, <1>3, <1>4

(* The middle may be split again.                                           *)
LEMMA Regrouped ==
    ASSUME NEW p \in Bytes, NEW x \in Bytes, NEW r \in Bytes
    PROVE  (p \o x) \o r = p \o (x \o r)
BY ConcatAssociative DEF Bytes

LEMMA SplitAgain ==
    ASSUME NEW b, NEW p, NEW x, NEW v, NEW q, x \in Bytes, v \in Bytes, Split(b, p, x \o v, q)
    PROVE  Split(b, p, x, v \o q) /\ Split(b, p \o x, v, q)
<1>1. p \in Bytes /\ q \in Bytes /\ b = p \o ((x \o v) \o q)
  BY DEF Split
<1>2. (x \o v) \o q = x \o (v \o q)
  BY <1>1, Regrouped
<1>. DEFINE r == v \o q
<1>3. r \in Bytes /\ p \o x \in Bytes
  BY <1>1, ConcatType DEF Bytes
<1>. HIDE DEF r
<1>4. (p \o x) \o r = p \o (x \o r)
  <2>1. p \in Bytes /\ r \in Bytes
    BY <1>1, <1>3
  <2>. QED
    BY <2>1, Regrouped
<1>5. b = p \o (x \o r)
  BY <1>1, <1>2 DEF r
<1>6. Split(b, p, x, r)
  BY <1>1, <1>3, <1>5 DEF Split
<1>7. b = (p \o x) \o (v \o q)
  BY <1>4, <1>5 DEF r
<1>8. Split(b, p \o x, v, q)
  BY <1>1, <1>3, <1>7, Zenon DEF Split
<1>. QED
  BY <1>6, <1>8 DEF r

LEMMA ReadBetween ==
    ASSUME NEW b, NEW p, NEW x, NEW q, Split(b, p, x, q), NEW args,
           NEW pos, pos = Len(p), NEW n, n = Len(x)
    PROVE  Read(At(b, pos, args), n) = x /\ CanRead(At(b, pos, args), n)
<1>1. Slice(b, Len(p), Len(x)) = x
  BY SliceBetween DEF Split, Bytes
<1>2. Len(p) + Len(x) <= Len(b)
  BY SplitSize
<1>. QED
  BY <1>1, <1>2 DEF Read, CanRead, At

LEMMA AtLater ==
    ASSUME NEW b, NEW pos \in Nat, NEW args
    PROVE  [At(b, pos, args) EXCEPT !.pos = @ + 2] = At(b, pos + 2, args)
<1>. DEFINE cur == At(b, pos, args)
            m == pos + 2
<1>1. cur.pos = pos
  BY DEF At
<1>. HIDE DEF m
<1>2. [cur EXCEPT !.pos = m] = At(b, m, args)
  <2>1. ASSUME NEW t
        PROVE  [[bytes |-> b, pos |-> pos, ok |-> t, args |-> args] EXCEPT !.pos = m] =
                   [bytes |-> b, pos |-> m, ok |-> t, args |-> args]
    OBVIOUS
  <2>. QED
    BY <2>1, Zenon DEF At
<1>. HIDE DEF cur
<1>. QED
  BY <1>1, <1>2 DEF m, cur

LEMMA NumberReadBack ==
    ASSUME NEW n \in {1, 2, 4}, NEW v \in Below(n),
           NEW b, NEW p, NEW q, Split(b, p, Digits(v, n), q), NEW args, NEW name
    PROVE  ReadNumber(At(b, Len(p), args), name, n) = WithField(At(b, Len(p), args), name, v, n)
<1>. DEFINE x == Digits(v, n)
            cur == At(b, Len(p), args)
<1>1. v \in Nat
  BY Widths DEF Below
<1>2. x \in Bytes /\ Len(x) = n
  BY <1>1, DigitsType
<1>3. Number(x) = v
  BY NumberOfDigits
<1>4. Split(b, p, x, q)
  OBVIOUS
<1>. HIDE DEF x
<1>5. Read(cur, n) = x /\ CanRead(cur, n)
  BY <1>2, <1>4, ReadBetween
<1>. HIDE DEF cur
<1>6. ReadNumber(cur, name, n) = WithField(cur, name, v, n)
  BY <1>3, <1>5 DEF ReadNumber
<1>. QED
  BY <1>6 DEF cur

LEMMA DataReadBack ==
    ASSUME NEW v \in Bytes, Len(v) < U16,
           NEW b, NEW p, NEW q, Split(b, p, Digits(Len(v), 2) \o v, q), NEW args, NEW name
    PROVE  ReadData(At(b, Len(p), args), name) = WithField(At(b, Len(p), args), name, v, 2 + Len(v))
<1>. DEFINE l == Len(v)
            x == Digits(l, 2)
            cur == At(b, Len(p), args)
            later == [cur EXCEPT !.pos = @ + 2]
<1>1. l \in Nat /\ l \in Below(2)
  BY Widths DEF Bytes, Below
<1>2. x \in Bytes /\ Len(x) = 2 /\ Number(x) = l
  BY <1>1, DigitsType, NumberOfDigits
<1>3. Split(b, p, x \o v, q)
  OBVIOUS
<1>. HIDE DEF x, l
<1>4. Split(b, p, x, v \o q) /\ Split(b, p \o x, v, q)
  BY <1>2, <1>3, SplitAgain
<1>5. Read(cur, 2) = x /\ CanRead(cur, 2)
  BY <1>2, <1>4, ReadBetween
<1>6. CanRead(cur, 2 + l)
  <2>1. Len(x \o v) = 2 + l
    BY <1>2, ConcatType DEF Bytes, l
  <2>. QED
    BY <1>3, <2>1, ReadBetween
<1>7. later = At(b, Len(p) + 2, args)
  <2>1. Len(p) \in Nat
    BY <1>3, SplitSize
  <2>. QED
    BY <2>1, AtLater
<1>8. Read(later, l) = v
  <2>. DEFINE before == p \o x
  <2>0. Split(b, before, v, q)
    BY <1>4
  <2>2. Len(before) = Len(p) + 2
    <3>1. p \in Bytes
      BY <1>3 DEF Split
    <3>2. Len(p \o x) = Len(p) + Len(x)
      BY <1>2, <3>1, ConcatType DEF Bytes
    <3>. QED
      BY <1>2, <3>2
  <2>. HIDE DEF later, before
  <2>1. Read(At(b, Len(p) + 2, args), l) = v
    BY <2>0, <2>2, ReadBetween DEF l
  <2>. QED
    BY <1>7, <2>1
<1>. HIDE DEF cur, later
<1>9. ReadData(cur, name) = WithField(cur, name, v, 2 + l)
  <2>1. Number(Read(cur, 2)) = l
    BY <1>2, <1>5
  <2>. QED
    BY <1>5, <1>6, <1>8, <2>1 DEF ReadData, later
<1>. QED
  BY <1>9 DEF cur, l

(* Each field is read back as it was written, and no byte more is taken;    *)
(* for an optional field, provided that nothing follows.                    *)
LEMMA FieldReadBack ==
    ASSUME NEW field, field[2] \in FieldTypes, NEW v, HasType(v, field[2]),
           NEW b, NEW p, NEW q, Split(b, p, FieldBytes(field[2], v), q),
           field[2] = "option" => q = << >>, NEW args
    PROVE  ReadField(At(b, Len(p), args), field) =
               WithField(At(b, Len(p), args), field[1], v, Len(FieldBytes(field[2], v)))
<1>. DEFINE type == field[2]
            x == FieldBytes(type, v)
            cur == At(b, Len(p), args)
<1>0. Split(b, p, x, q)
  OBVIOUS
<1>1. cur.ok /\ cur.bytes = b /\ cur.pos = Len(p)
  BY DEF At
<1>. HIDE DEF type, cur
<1>. SUFFICES ReadField(cur, field) = WithField(cur, field[1], v, Len(x))
  BY DEF cur, type
<1>2. ASSUME NEW n \in {1, 2, 4}, v \in Below(n), x = Digits(v, n)
      PROVE  ReadNumber(cur, field[1], n) = WithField(cur, field[1], v, Len(x)) /\ Len(x) = n
  <2>1. v \in Nat
    BY <1>2, Widths DEF Below
  <2>2. Len(x) = n
    BY <1>2, <2>1, DigitsType
  <2>. HIDE DEF x
  <2>. QED
    BY <1>0, <1>2, <2>2, NumberReadBack DEF cur
<1>3. CASE type = "u8"
  <2>1. x = Digits(v, 1) /\ v \in Below(1)
    BY <1>3 DEF FieldBytes, HasType, Below, type
  <2>2. ReadField(cur, field) = ReadNumber(cur, field[1], 1)
    BY <1>1, <1>3 DEF ReadField, type
  <2>. QED
    BY <1>2, <2>1, <2>2
<1>4. CASE type = "u16"
  <2>1. x = Digits(v, 2) /\ v \in Below(2)
    BY <1>4 DEF FieldBytes, HasType, Below, type
  <2>2. ReadField(cur, field) = ReadNumber(cur, field[1], 2)
    BY <1>1, <1>4 DEF ReadField, type
  <2>. QED
    BY <1>2, <2>1, <2>2
<1>5. CASE type = "u32"
  <2>1. x = Digits(v, 4) /\ v \in Below(4)
    BY <1>5 DEF FieldBytes, HasType, Below, type
  <2>2. ReadField(cur, field) = ReadNumber(cur, field[1], 4)
    BY <1>1, <1>5 DEF ReadField, type
  <2>. QED
    BY <1>2, <2>1, <2>2
<1>6. CASE type = "flag"
  <2>1. x = (IF v THEN <<1>> ELSE <<0>>) /\ v \in BOOLEAN
    BY <1>6 DEF FieldBytes, HasType, type
  <2>2. ReadField(cur, field) = ReadFlag(cur, field[1])
    BY <1>1, <1>6 DEF ReadField, type
  <2>3. <<1>> \in Bytes /\ <<0>> \in Bytes /\ Len(<<1>>) = 1 /\ Len(<<0>>) = 1 /\ <<1>> # <<0>>
    BY Widths DEF Bytes
  <2>4. x \in Bytes /\ Len(x) = 1 /\ (x # <<0>>) = v
    BY <2>1, <2>3
  <2>. HIDE DEF x
  <2>5. Read(cur, 1) = x /\ CanRead(cur, 1)
    BY <1>0, <2>4, ReadBetween DEF cur
  <2>. QED
    BY <2>2, <2>4, <2>5 DEF ReadFlag
<1>7. CASE type = "data"
  <2>1. x = Digits(Len(v), 2) \o v /\ v \in Bytes /\ Len(v) < U16
    BY <1>7 DEF FieldBytes, HasType, Bytes, Byte, type
  <2>2. ReadField(cur, field) = ReadData(cur, field[1])
    BY <1>1, <1>7 DEF ReadField, type
  <2>3. Len(x) = 2 + Len(v)
    <3>1. Len(v) \in Nat
      BY <2>1 DEF Bytes
    <3>2. Digits(Len(v), 2) \in Bytes /\ Len(Digits(Len(v), 2)) = 2
      BY <3>1, DigitsType
    <3>. QED
      BY <2>1, <3>2, ConcatType DEF Bytes
  <2>. HIDE DEF x
  <2>4. ReadData(cur, field[1]) = WithField(cur, field[1], v, 2 + Len(v))
    BY <1>0, <2>1, DataReadBack DEF cur
  <2>. QED
    BY <2>2, <2>3, <2>4
<1>8. CASE type = "option"
  <2>1. ReadField(cur, field) = ReadOption(cur, field[1])
    BY <1>1, <1>8 DEF ReadField, type
  <2>2. q = << >> /\ (v = NoTime \/ v \in Below(4))
    BY <1>8 DEF HasType, Below, type
  <2>3. CASE v = NoTime
    <3>1. x = << >>
      BY <1>8, <2>3 DEF FieldBytes, type
    <3>2. Len(x) = 0 /\ Len(q) = 0
      BY <2>2, <3>1
    <3>3. Len(b) = Len(p) + Len(x) + Len(q) /\ Len(p) \in Nat
      BY <1>0, SplitSize
    <3>4. ~ (cur.pos < Len(cur.bytes))
      BY <1>1, <3>2, <3>3
    <3>. QED
      BY <2>1, <2>3, <3>2, <3>4 DEF ReadOption
  <2>4. CASE v # NoTime
    <3>1. x = Digits(v, 4) /\ v \in Below(4)
      BY <1>8, <2>2, <2>4 DEF FieldBytes, type
    <3>2. ReadNumber(cur, field[1], 4) = WithField(cur, field[1], v, Len(x)) /\ Len(x) = 4
      BY <1>2, <3>1
    <3>. HIDE DEF x
    <3>4. Len(b) = Len(p) + Len(x) + Len(q) /\ Len(p) \in Nat /\ Len(q) \in Nat
      BY <1>0, SplitSize
    <3>5. cur.pos < Len(cur.bytes)
      BY <1>1, <3>2, <3>4
    <3>. QED
      BY <2>1, <3>2, <3>5 DEF ReadOption
  <2>. QED
    BY <2>3, <2>4
<1>. QED
  BY <1>3, <1>4, <1>5, <1>6, <1>7, <1>8 DEF FieldTypes, type

(* One part of a joined sequence, after a header.                           *)
LEMMA PartAt ==
    ASSUME NEW n \in Nat, NEW seqs \in [1 .. n -> Bytes], NEW f, Joined(Byte, n, seqs, f),
           NEW h \in Bytes, NEW i \in 0 .. n - 1
    PROVE  \E q : Split(h \o f[n], h \o f[i], seqs[i + 1], q) /\ (i + 1 = n => q = << >>)
<1>. DEFINE p == f[i]
            x == seqs[i + 1]
            t == f[n]
<1>1. p \in Bytes /\ x \in Bytes /\ t \in Bytes /\ i + 1 \in 1 .. n
  <2>1. i \in 0 .. n /\ n \in 0 .. n /\ i + 1 \in 1 .. n
    OBVIOUS
  <2>. QED
    BY <2>1, Zenon DEF Joined, Bytes
<1>2. \E q \in Bytes : t = p \o (x \o q) /\ (i + 1 = n => q = << >>)
  <2>1. CASE i + 1 = n
    <3>1. t = p \o x
      BY <2>1 DEF Joined
    <3>. HIDE DEF p, x, t
    <3>2. x \o << >> = x /\ << >> \in Bytes
      BY <1>1, ConcatEmptySeq DEF Bytes
    <3>. QED
      BY <3>1, <3>2
  <2>2. CASE i + 1 # n
    <3>0. seqs \in [1 .. n -> Seq(Byte)]
      BY DEF Bytes
    <3>1. Continues(Byte, p, x, t)
      BY <3>0, JoinedSplits
    <3>. HIDE DEF p, x, t
    <3>. QED
      BY <2>2, <3>1 DEF Continues, Bytes
  <2>. QED
    BY <2>1, <2>2
<1>. HIDE DEF p, x, t
<1>3. PICK q \in Bytes : t = p \o (x \o q) /\ (i + 1 = n => q = << >>)
  BY <1>2
<1>. DEFINE r == x \o q
<1>4. r \in Bytes /\ h \o p \in Bytes
  BY <1>1, ConcatType DEF Bytes
<1>. HIDE DEF r
<1>5. (h \o p) \o r = h \o (p \o r)
  <2>1. p \in Bytes /\ r \in Bytes
    BY <1>1, <1>4
  <2>. QED
    BY <2>1, Regrouped
<1>6. h \o t = (h \o p) \o (x \o q)
  BY <1>3, <1>5 DEF r
<1>7. Split(h \o t, h \o p, x, q)
  BY <1>1, <1>4, <1>6, Zenon DEF Split
<1>. QED
  BY <1>3, <1>7 DEF p, x, t

(* The fields of c named in the first i places of the layout L.             *)
ArgsUpTo(c, L, i) == [g \in {L[j][1] : j \in 1 .. i} |-> c.args[g]]

LEMMA OneMoreArg ==
    ASSUME NEW c, NEW L, NEW i \in Nat, NEW b, NEW pos \in Nat, NEW m \in Nat
    PROVE  WithField(At(b, pos, ArgsUpTo(c, L, i)), L[i + 1][1], c.args[L[i + 1][1]], m) =
               At(b, pos + m, ArgsUpTo(c, L, i + 1))
<1>. DEFINE a == ArgsUpTo(c, L, i)
            g0 == L[i + 1][1]
            v == c.args[g0]
            cur == At(b, pos, a)
            e == pos + m
            more == [g \in DOMAIN a \cup {g0} |-> IF g = g0 THEN v ELSE a[g]]
<1>1. 1 .. i + 1 = (1 .. i) \cup {i + 1}
  OBVIOUS
<1>2. {L[j][1] : j \in 1 .. i + 1} = {L[j][1] : j \in 1 .. i} \cup {g0}
  BY <1>1
<1>3. more = ArgsUpTo(c, L, i + 1)
  BY <1>2 DEF ArgsUpTo
<1>4. cur.pos = pos /\ cur.args = a
  BY DEF At
<1>. HIDE DEF a, g0, v, more, e
<1>5. [cur EXCEPT !.args = more, !.pos = e] = At(b, e, more)
  <2>1. ASSUME NEW u
        PROVE  [[bytes |-> b, pos |-> pos, ok |-> u, args |-> a] EXCEPT !.args = more] =
                   [bytes |-> b, pos |-> pos, ok |-> u, args |-> more]
    OBVIOUS
  <2>2. ASSUME NEW u
        PROVE  [[bytes |-> b, pos |-> pos, ok |-> u, args |-> more] EXCEPT !.pos = e] =
                   [bytes |-> b, pos |-> e, ok |-> u, args |-> more]
    OBVIOUS
  <2>. QED
    BY <2>1, <2>2, Zenon DEF At
<1>. HIDE DEF cur
<1>6. WithField(cur, g0, v, m) = [cur EXCEPT !.args = more, !.pos = e]
  BY <1>4 DEF WithField, more, e
<1>. QED
  BY <1>3, <1>5, <1>6 DEF cur, a, g0, v, e

(* decode_command reads back what encode_command_into wrote.                *)
LEMMA CommandReadBack ==
    ASSUME NEW c, IsCommand(c)
    PROVE  DecodeCommand(EncodeCommandInto(c)) = Success(c)
<1>. DEFINE k == c.kind
            t == CommandType[k]
            L == EncodeIntoLayout[k]
            n == Len(L)
            parts == [i \in 1 .. n |-> FieldBytes(L[i][2], c.args[L[i][1]])]
            h == <<t>>
            b == EncodeCommandInto(c)
<1>1. k \in Kinds /\ LayoutOK(k, L)
  BY EncodeLayouts DEF IsCommand
<1>2. t \in DOMAIN DecodeLayout /\ DecodeLayout[t] = <<k, L>>
  BY <1>1, DecodesKind
<1>3. t \in Byte
  <2>1. t \in 1 .. 16
    BY <1>2, LayoutsAgree
  <2>. QED
    BY <2>1, Widths DEF Byte
<1>4. DOMAIN c.args = DOMAIN CommandFields[k] /\ c = Command(k, [g \in DOMAIN c.args |-> c.args[g]])
  BY DEF IsCommand
<1>5. \A g \in DOMAIN c.args : HasType(c.args[g], CommandFields[k][g])
  BY DEF IsCommand
<1>6. n \in Nat /\ DOMAIN L = 1 .. n
  BY <1>1 DEF LayoutOK
<1>7. b = h \o FlattenSeq(parts)
  BY <1>6 DEF EncodeCommandInto, Encoded
<1>. HIDE DEF k, t, L, n, b
<1>8. ASSUME NEW i \in 1 .. n
      PROVE  /\ L[i][2] \in FieldTypes /\ HasType(c.args[L[i][1]], L[i][2])
             /\ FieldBytes(L[i][2], c.args[L[i][1]]) \in Bytes
             /\ L[i][2] = "option" => i = n
  <2>1. L[i][1] \in DOMAIN c.args /\ L[i][2] = CommandFields[k][L[i][1]] /\ L[i][2] \in FieldTypes
    BY <1>1, <1>4 DEF LayoutOK, n
  <2>2. HasType(c.args[L[i][1]], L[i][2])
    BY <1>5, <2>1
  <2>3. L[i][2] = "option" => i = n
    BY <1>1 DEF LayoutOK, n
  <2>. QED
    BY <2>1, <2>2, <2>3, FieldBytesType
<1>9. parts \in [1 .. n -> Bytes] /\ \A i \in 1 .. n : parts[i] = FieldBytes(L[i][2], c.args[L[i][1]])
  BY <1>8
<1>10. h \in Bytes /\ Len(h) = 1 /\ h[1] = t
  BY <1>3 DEF Bytes
<1>. HIDE DEF parts, h
<1>11. PICK f : Joined(Byte, n, parts, f)
  BY <1>6, <1>9, FlattenType DEF Bytes
<1>12. f[0] = << >> /\ FlattenSeq(parts) = f[n]
  BY <1>11 DEF Joined
<1>13. b = h \o f[n]
  BY <1>7, <1>12
<1>14. \A i \in 0 .. n : f[i] \in Bytes /\ Len(f[i]) \in Nat /\ Len(h \o f[i]) = 1 + Len(f[i])
  <2>. SUFFICES ASSUME NEW i \in 0 .. n
                PROVE  f[i] \in Bytes /\ Len(f[i]) \in Nat /\ Len(h \o f[i]) = 1 + Len(f[i])
    OBVIOUS
  <2>1. f[i] \in Bytes
    BY <1>11, Zenon DEF Joined, Bytes
  <2>2. h \in Seq(Byte) /\ f[i] \in Seq(Byte)
    BY <1>10, <2>1 DEF Bytes
  <2>3. Len(h \o f[i]) = Len(h) + Len(f[i])
    BY <2>2, ConcatType
  <2>4. Len(f[i]) \in Nat
    BY <2>2
  <2>. QED
    BY <1>10, <2>1, <2>3, <2>4
<1>15. \A i \in 0 .. n - 1 : Len(f[i + 1]) = Len(f[i]) + Len(parts[i + 1])
  <2>. SUFFICES ASSUME NEW i \in 0 .. n - 1
                PROVE  Len(f[i + 1]) = Len(f[i]) + Len(parts[i + 1])
    OBVIOUS
  <2>1. f[i + 1] = f[i] \o parts[i + 1]
    BY <1>11 DEF Joined
  <2>2. f[i] \in Seq(Byte) /\ parts[i + 1] \in Seq(Byte)
    BY <1>6, <1>9, <1>14 DEF Bytes
  <2>. QED
    BY <2>1, <2>2, ConcatType
<1>. DEFINE cursor(i) == At(b, 1 + Len(f[i]), ArgsUpTo(c, L, i))
<1>16. ASSUME NEW i \in 0 .. n - 1
       PROVE  cursor(i + 1) = ReadField(cursor(i), L[i + 1])
  <2>. DEFINE field == L[i + 1]
              v == c.args[field[1]]
              x == parts[i + 1]
              p == h \o f[i]
  <2>1. i + 1 \in 1 .. n /\ i \in 0 .. n /\ i + 1 \in 0 .. n /\ i \in Nat
    BY <1>6
  <2>2. field[2] \in FieldTypes /\ HasType(v, field[2]) /\ (field[2] = "option" => i + 1 = n)
    BY <1>8, <2>1
  <2>3. x = FieldBytes(field[2], v) /\ x \in Bytes
    BY <1>9, <2>1
  <2>4. PICK q : Split(b, p, x, q) /\ (i + 1 = n => q = << >>)
    BY <1>6, <1>9, <1>10, <1>11, <1>13, PartAt
  <2>5. Len(p) = 1 + Len(f[i]) /\ Len(f[i]) \in Nat
    BY <1>14, <2>1
  <2>6. Len(f[i + 1]) = Len(f[i]) + Len(x)
    BY <1>15
  <2>7. Len(x) \in Nat
    BY <2>3 DEF Bytes
  <2>. HIDE DEF field, v, x, p
  <2>8. \A a : ReadField(At(b, Len(p), a), field) = WithField(At(b, Len(p), a), field[1], v, Len(x))
    <3>. SUFFICES ASSUME NEW a
                  PROVE  ReadField(At(b, Len(p), a), field) =
                             WithField(At(b, Len(p), a), field[1], v, Len(x))
      OBVIOUS
    <3>1. Split(b, p, FieldBytes(field[2], v), q) /\ (field[2] = "option" => q = << >>)
      BY <2>2, <2>3, <2>4
    <3>2. ReadField(At(b, Len(p), a), field) =
              WithField(At(b, Len(p), a), field[1], v, Len(FieldBytes(field[2], v)))
      BY <2>2, <3>1, FieldReadBack
    <3>. QED
      BY <2>3, <3>2
  <2>. DEFINE a0 == ArgsUpTo(c, L, i)
              pos == 1 + Len(f[i])
  <2>9. pos \in Nat /\ pos + Len(x) = 1 + Len(f[i + 1])
    BY <2>5, <2>6, <2>7
  <2>10. WithField(At(b, pos, a0), field[1], v, Len(x)) = At(b, pos + Len(x), ArgsUpTo(c, L, i + 1))
    <3>. HIDE DEF pos
    <3>. QED
      BY <2>1, <2>7, <2>9, OneMoreArg DEF field, v
  <2>11. ReadField(At(b, pos, a0), field) = WithField(At(b, pos, a0), field[1], v, Len(x))
    BY <2>5, <2>8
  <2>. QED
    BY <2>9, <2>10, <2>11 DEF field
<1>17. cursor(0) = At(b, 1, << >>)
  <2>1. ArgsUpTo(c, L, 0) = << >>
    <3>1. {L[j][1] : j \in 1 .. 0} = {}
      OBVIOUS
    <3>. QED
      BY <3>1 DEF ArgsUpTo
  <2>2. 1 + Len(f[0]) = 1
    BY <1>12
  <2>. QED
    BY <2>1, <2>2
<1>18. FoldLeft(ReadField, At(b, 1, << >>), L) = cursor(n)
  <2>. DEFINE g == [i \in 0 .. n |-> cursor(i)]
  <2>1. \A i \in 0 .. n - 1 : i \in 0 .. n /\ i + 1 \in 0 .. n
    BY <1>6
  <2>2. 0 \in 0 .. n /\ n \in 0 .. n
    BY <1>6
  <2>. HIDE DEF cursor
  <2>3. g[0] = At(b, 1, << >>) /\ g[n] = cursor(n)
    BY <1>17, <2>2
  <2>4. \A i \in 0 .. n - 1 : g[i + 1] = ReadField(g[i], L[i + 1])
    BY <1>16, <2>1
  <2>. HIDE DEF g
  <2>5. Fields!Folded(At(b, 1, << >>), L) = g[n]
    BY <1>6, <2>3, <2>4, Fields!FoldComputed
  <2>. QED
    BY <2>3, <2>5, FieldsIsFold
<1>19. ArgsUpTo(c, L, n) = [g \in DOMAIN c.args |-> c.args[g]]
  <2>1. {L[j][1] : j \in 1 .. n} = DOMAIN c.args
    BY <1>1, <1>4 DEF LayoutOK, n
  <2>. QED
    BY <2>1 DEF ArgsUpTo
<1>20. cursor(n).ok /\ cursor(n).args = ArgsUpTo(c, L, n)
  BY DEF At
<1>21. b # << >> /\ Head(b) = t
  <2>1. n \in 0 .. n
    BY <1>6
  <2>2. f[n] \in Seq(Byte)
    BY <1>14, <2>1 DEF Bytes
  <2>3. Len(b) = Len(h) + Len(f[n]) /\ b \in Seq(Byte) /\ Len(f[n]) \in Nat
    <3>1. h \in Seq(Byte)
      BY <1>10 DEF Bytes
    <3>2. Len(h \o f[n]) = Len(h) + Len(f[n]) /\ h \o f[n] \in Seq(Byte)
      BY <2>2, <3>1, ConcatType
    <3>. QED
      BY <1>13, <2>2, <3>2
  <2>4. 1 \in 1 .. Len(h)
    BY <1>10
  <2>5. b[1] = h[1]
    BY <1>10, <1>13, <2>2, <2>4, ConcatAt DEF Bytes
  <2>. QED
    BY <1>10, <2>3, <2>5
<1>. HIDE DEF cursor
<1>22. FoldLeft(ReadField, [bytes |-> b, pos |-> 1, ok |-> TRUE, args |-> << >>], L) = cursor(n)
  BY <1>18 DEF At
<1>23. DecodeCommand(b) = Success(Command(k, cursor(n).args))
  BY <1>2, <1>20, <1>21, <1>22 DEF DecodeCommand
<1>. QED
  BY <1>4, <1>19, <1>20, <1>23 DEF b

(* What decode_packet has read without an error.                            *)
ReadUpTo(rest, cs) == [ok |-> TRUE, rest |-> rest, commands |-> cs]

(* A command is read back within its length, and skipped by it.             *)
LEMMA NextReadBack ==
    ASSUME NEW c, IsCommand(c), Len(EncodeCommandInto(c)) < U16, NEW r \in Bytes, NEW cs, NEW m
    PROVE  DecodeNext(ReadUpTo(Framed(c) \o r, cs), m) = ReadUpTo(r, Append(cs, c))
<1>. DEFINE b == EncodeCommandInto(c)
            l == Len(b)
            pre == <<(l \div Base) % Base, l % Base>>
            rest == Framed(c) \o r
            packet == ReadUpTo(rest, cs)
<1>1. b \in Bytes /\ l \in Nat /\ l < U16 /\ DecodeCommand(b) = Success(c)
  BY EncodeCommandType, CommandReadBack DEF Bytes
<1>2. Framed(c) = pre \o b
  BY DEF Framed
<1>. HIDE DEF b
<1>3. pre \in Bytes /\ Len(pre) = 2 /\ Number(pre) = l
  <2>1. l \in Below(2)
    BY <1>1, Widths DEF Below
  <2>2. pre = Digits(l, 2)
    <3>. HIDE DEF l
    <3>. QED
      BY <1>1, TwoDigits
  <2>. HIDE DEF l, pre
  <2>. QED
    BY <1>1, <2>1, <2>2, DigitsType, NumberOfDigits
<1>. HIDE DEF pre
<1>4. pre \o b \in Bytes /\ Len(pre \o b) = 2 + l /\ b \o r \in Bytes
  BY <1>1, <1>3, ConcatType DEF Bytes
<1>5. rest = (pre \o b) \o r
  BY <1>2
<1>6. rest = pre \o (b \o r)
  BY <1>1, <1>3, <1>5, Regrouped
<1>7. rest \in Bytes /\ Len(rest) = 2 + l + Len(r) /\ Len(r) \in Nat
  <2>1. pre \o b \in Seq(Byte) /\ r \in Seq(Byte)
    BY <1>4 DEF Bytes
  <2>2. (pre \o b) \o r \in Seq(Byte) /\ Len((pre \o b) \o r) = Len(pre \o b) + Len(r)
    BY <2>1, ConcatType
  <2>. QED
    BY <1>4, <1>5, <2>1, <2>2 DEF Bytes
<1>8. Slice(rest, 0, 2) = pre
  BY <1>3, <1>4, <1>6, SliceStart DEF Bytes
<1>9. Slice(rest, 2, l) = b
  <2>1. pre \in Seq(Byte) /\ b \in Seq(Byte) /\ r \in Seq(Byte)
    BY <1>1, <1>3 DEF Bytes
  <2>2. Slice(pre \o (b \o r), Len(pre), Len(b)) = b
    BY <2>1, SliceBetween
  <2>. QED
    BY <1>3, <1>6, <2>2
<1>10. Slice(rest, 2 + l, Len(rest)) = r
  <2>. DEFINE before == pre \o b
              w == Len(rest)
  <2>1. before \in Seq(Byte) /\ r \in Seq(Byte) /\ Len(before) = 2 + l /\ rest = before \o r
    BY <1>4, <1>5 DEF Bytes
  <2>2. w \in Nat /\ w >= Len(r)
    BY <1>1, <1>7
  <2>. HIDE DEF before, w, rest
  <2>3. Slice(before \o r, Len(before), w) = r
    BY <2>1, <2>2, SliceEnd
  <2>. QED
    BY <2>1, <2>3 DEF w
<1>. HIDE DEF rest, l
<1>11. packet.ok /\ packet.rest = rest /\ packet.commands = cs
  BY DEF ReadUpTo
<1>12. DecodeNext(packet, m) = [packet EXCEPT !.commands = Append(cs, c), !.rest = r]
  <2>. HIDE DEF packet
  <2>1. Success(c).ok /\ Success(c).value = c
    BY DEF Success
  <2>2. ~ (2 + l > Len(rest)) /\ ~ (Len(pre) < 2)
    BY <1>1, <1>3, <1>7
  <2>. QED
    BY <1>1, <1>3, <1>8, <1>9, <1>10, <1>11, <2>1, <2>2 DEF DecodeNext
<1>13. [packet EXCEPT !.commands = Append(cs, c), !.rest = r] = ReadUpTo(r, Append(cs, c))
  <2>. DEFINE more == Append(cs, c)
  <2>. HIDE DEF more
  <2>1. ASSUME NEW u
        PROVE  [[ok |-> u, rest |-> rest, commands |-> cs] EXCEPT !.commands = more] =
                   [ok |-> u, rest |-> rest, commands |-> more]
    OBVIOUS
  <2>2. ASSUME NEW u
        PROVE  [[ok |-> u, rest |-> rest, commands |-> more] EXCEPT !.rest = r] =
                   [ok |-> u, rest |-> r, commands |-> more]
    OBVIOUS
  <2>3. [packet EXCEPT !.commands = more, !.rest = r] = ReadUpTo(r, more)
    BY <2>1, <2>2, Zenon DEF ReadUpTo
  <2>. QED
    BY <2>3 DEF more
<1>. HIDE DEF packet
<1>14. DecodeNext(packet, m) = ReadUpTo(r, Append(cs, c))
  BY <1>12, <1>13
<1>. QED
  BY <1>14 DEF packet, rest

LEMMA OneMoreTaken ==
    ASSUME NEW V, NEW s \in Seq(V), NEW i \in 0 .. Len(s) - 1
    PROVE  Append(SubSeq(s, 1, i), s[i + 1]) = SubSeq(s, 1, i + 1)
<1>. DEFINE t == SubSeq(s, 1, i)
            u == SubSeq(s, 1, i + 1)
            a == Append(t, s[i + 1])
<1>1. Len(s) \in Nat /\ i \in Nat /\ i + 1 \in 1 .. Len(s) /\ s[i + 1] \in V
  OBVIOUS
<1>2. t \in Seq(V) /\ Len(t) = i /\ \A j \in 1 .. i : t[j] = s[j]
  BY <1>1
<1>3. u \in Seq(V) /\ Len(u) = i + 1 /\ \A j \in 1 .. i + 1 : u[j] = s[j]
  BY <1>1
<1>. HIDE DEF t, u
<1>4. a \in Seq(V) /\ Len(a) = i + 1 /\ a[i + 1] = s[i + 1] /\ \A j \in 1 .. i : a[j] = t[j]
  BY <1>1, <1>2
<1>. HIDE DEF a
<1>5. \A j \in 1 .. i + 1 : a[j] = u[j]
  BY <1>1, <1>2, <1>3, <1>4
<1>6. a = u
  BY <1>3, <1>4, <1>5, SeqEqual
<1>. QED
  BY <1>6 DEF a, t, u

LEMMA HeaderFirst ==
    ASSUME NEW t \in Byte, NEW s \in Bytes
    PROVE  /\ <<t>> \o s \in Bytes /\ <<t>> \o s # << >>
           /\ Head(<<t>> \o s) = t /\ Tail(<<t>> \o s) = s
<1>. DEFINE h == <<t>>
            b == h \o s
<1>1. h \in Seq(Byte) /\ Len(h) = 1 /\ h[1] = t /\ 1 \in 1 .. Len(h)
  OBVIOUS
<1>2. s \in Seq(Byte) /\ Len(s) \in Nat
  BY DEF Bytes
<1>. HIDE DEF h
<1>3. b \in Seq(Byte) /\ Len(b) = 1 + Len(s)
  BY <1>1, <1>2, ConcatType
<1>4. /\ \A i \in 1 .. Len(h) : b[i] = h[i]
      /\ \A i \in 1 .. Len(s) : b[Len(h) + i] = s[i]
  <2>1. h \in Seq(Byte) /\ s \in Seq(Byte)
    BY <1>1, <1>2
  <2>. QED
    BY <2>1, ConcatAt
<1>. HIDE DEF b
<1>5. b[1] = t /\ \A i \in 1 .. Len(s) : b[1 + i] = s[i]
  BY <1>1, <1>4
<1>6. Head(b) = t /\ b # << >>
  BY <1>2, <1>3, <1>5
<1>7. Tail(b) \in Seq(Byte) /\ Len(Tail(b)) = Len(s)
  BY <1>2, <1>3, <1>6
<1>8. \A i \in 1 .. Len(s) : Tail(b)[i] = s[i]
  BY <1>2, <1>3, <1>5, <1>6
<1>9. Tail(b) = s
  BY <1>2, <1>7, <1>8, SeqEqual
<1>. QED
  BY <1>3, <1>6, <1>9 DEF b, h, Bytes

(* Every command of a packet has a length that fits its two bytes, and the  *)
(* packet no more commands than its count can say.                          *)
Fits(cs) == Len(cs) < Base /\ \A i \in 1 .. Len(cs) : Len(EncodeCommandInto(cs[i])) < U16

(* decode_packet reads back what encode_packet_into wrote.                  *)
THEOREM PacketReadBack ==
    ASSUME NEW cs, AreCommands(cs), Fits(cs)
    PROVE  DecodePacket(EncodePacketInto(cs)) = Success(cs)
<1>. DEFINE n == Len(cs)
            parts == [i \in 1 .. n |-> Framed(cs[i])]
            flat == FlattenSeq(parts)
            h == <<n % Base>>
            b == EncodePacketInto(cs)
            V == Range(cs)
<1>1. n \in Nat /\ n < Base /\ \A i \in 1 .. n : IsCommand(cs[i]) /\ Len(EncodeCommandInto(cs[i])) < U16
  BY CommandsForm DEF Fits
<1>2. cs \in Seq(V)
  BY DEF AreCommands
<1>3. b \in Bytes /\ b = h \o flat /\ flat \in Bytes /\ parts \in [1 .. n -> Bytes]
  BY EncodePacketType
<1>4. \A i \in 1 .. n : parts[i] = Framed(cs[i])
  OBVIOUS
<1>5. n % Base = n
  <2>1. n \in 0 .. Base - 1
    BY <1>1, Widths
  <2>. QED
    BY <2>1, DigitItself
<1>6. h \in Seq(Byte) /\ Len(h) = 1 /\ h[1] = n
  <2>1. n \in Byte
    BY <1>1, Widths DEF Byte
  <2>. HIDE DEF n
  <2>. QED
    BY <1>5, <2>1
<1>. HIDE DEF n, parts, h, b, flat, V
<1>7. b # << >> /\ Head(b) = n /\ Tail(b) = flat
  <2>1. n \in Byte
    BY <1>1, Widths DEF Byte
  <2>. QED
    BY <1>3, <1>5, <2>1, HeaderFirst DEF h
<1>8. PICK f : Joined(Byte, n, parts, f)
  BY <1>1, <1>3, FlattenType DEF Bytes
<1>9. f[0] = << >> /\ flat = f[n]
  BY <1>8 DEF Joined, flat
<1>. DEFINE rest(i) == Slice(flat, Len(f[i]), Len(flat))
            state(i) == ReadUpTo(rest(i), SubSeq(cs, 1, i))
<1>10. ASSUME NEW i \in 0 .. n - 1
       PROVE  \E q \in Bytes : rest(i) = parts[i + 1] \o q /\ rest(i + 1) = q
  <2>. DEFINE p == f[i]
              x == parts[i + 1]
  <2>1. parts \in [1 .. n -> Seq(Byte)] /\ i + 1 \in 1 .. n /\ i \in 0 .. n
    BY <1>1, <1>3 DEF Bytes
  <2>2. Continues(Byte, p, x, flat)
    BY <1>1, <1>8, <1>9, <2>1, JoinedSplits
  <2>3. p \in Seq(Byte) /\ x \in Seq(Byte) /\ f[i + 1] = p \o x
    <3>1. p \in Seq(Byte)
      BY <1>8, <2>1, Zenon DEF Joined
    <3>2. f[i + 1] = p \o x
      BY <1>8 DEF Joined
    <3>. QED
      BY <2>1, <3>1, <3>2
  <2>. HIDE DEF p, x
  <2>4. PICK q \in Seq(Byte) : flat = p \o (x \o q) /\ flat = (p \o x) \o q
    BY <2>2 DEF Continues
  <2>. DEFINE y == x \o q
              before == p \o x
              w == Len(flat)
  <2>5. y \in Seq(Byte) /\ before \in Seq(Byte)
    BY <2>3, ConcatType
  <2>6. flat = p \o y /\ flat = before \o q /\ f[i + 1] = before
    BY <2>3, <2>4
  <2>. HIDE DEF y, before
  <2>7. Len(p) \in Nat /\ Len(y) \in Nat /\ Len(before) \in Nat /\ Len(q) \in Nat
    BY <2>3, <2>5
  <2>8. Len(p \o y) = Len(p) + Len(y)
    BY <2>3, <2>5, ConcatType
  <2>9. Len(before \o q) = Len(before) + Len(q)
    BY <2>5, ConcatType
  <2>10. w \in Nat /\ w >= Len(y) /\ w >= Len(q)
    BY <2>6, <2>7, <2>8, <2>9
  <2>. HIDE DEF w
  <2>11. Slice(p \o y, Len(p), w) = y
    BY <2>3, <2>5, <2>10, SliceEnd
  <2>12. Slice(before \o q, Len(before), w) = q
    BY <2>5, <2>10, SliceEnd
  <2>13. rest(i) = y
    BY <2>6, <2>11 DEF w, p
  <2>14. rest(i + 1) = q
    BY <2>6, <2>12 DEF w
  <2>. QED
    BY <2>13, <2>14 DEF y, x, Bytes
<1>11. ASSUME NEW i \in 0 .. n - 1, NEW m
       PROVE  state(i + 1) = DecodeNext(state(i), m)
  <2>1. PICK q \in Bytes : rest(i) = parts[i + 1] \o q /\ rest(i + 1) = q
    BY <1>10
  <2>. DEFINE c == cs[i + 1]
              done == SubSeq(cs, 1, i)
  <2>2. i + 1 \in 1 .. n
    BY <1>1
  <2>3. parts[i + 1] = Framed(c) /\ IsCommand(c) /\ Len(EncodeCommandInto(c)) < U16
    BY <1>1, <1>4, <2>2
  <2>4. Append(done, c) = SubSeq(cs, 1, i + 1)
    <3>1. cs \in Seq(V) /\ i \in 0 .. Len(cs) - 1 /\ Len(cs) \in Nat
      BY <1>1, <1>2 DEF n
    <3>. QED
      BY <3>1, OneMoreTaken
  <2>. HIDE DEF c, done
  <2>5. DecodeNext(ReadUpTo(Framed(c) \o q, done), m) = ReadUpTo(q, Append(done, c))
    BY <2>3, NextReadBack
  <2>. QED
    BY <2>1, <2>3, <2>4, <2>5 DEF done
<1>12. state(0) = ReadUpTo(flat, << >>) /\ state(n).ok /\ state(n).commands = cs
  <2>1. SubSeq(cs, 1, 0) = << >>
    OBVIOUS
  <2>2. rest(0) = flat
    <3>. DEFINE w == Len(flat)
                e == f[0]
    <3>1. e \in Seq(Byte) /\ flat \in Seq(Byte) /\ w \in Nat /\ w >= Len(flat)
      BY <1>3, <1>9 DEF Bytes
    <3>2. e \o flat = flat
      BY <1>9, <3>1, ConcatEmptySeq
    <3>. HIDE DEF w, e
    <3>3. Slice(e \o flat, Len(e), w) = flat
      BY <3>1, SliceEnd
    <3>. QED
      BY <3>2, <3>3 DEF w, e
  <2>3. SubSeq(cs, 1, n) = cs
    BY <1>2, SubSeqFull DEF n
  <2>. HIDE DEF rest
  <2>. QED
    BY <2>1, <2>2, <2>3 DEF ReadUpTo
<1>. DEFINE turns == [m \in 1 .. n |-> m]
            start == [ok |-> TRUE, rest |-> flat, commands |-> << >>]
<1>13. FoldLeft(DecodeNext, start, turns) = state(n)
  <2>. DEFINE g == [i \in 0 .. n |-> state(i)]
  <2>1. \A i \in 0 .. n - 1 : i \in 0 .. n /\ i + 1 \in 0 .. n
    BY <1>1
  <2>2. 0 \in 0 .. n /\ n \in 0 .. n /\ DOMAIN turns = 1 .. n
    BY <1>1
  <2>. HIDE DEF state, turns
  <2>3. g[0] = start /\ g[n] = state(n)
    BY <1>12, <2>2 DEF ReadUpTo
  <2>4. \A i \in 0 .. n - 1 : g[i + 1] = DecodeNext(g[i], turns[i + 1])
    BY <1>11, <2>1
  <2>. HIDE DEF g, start
  <2>5. Packets!Folded(start, turns) = g[n]
    <3>1. n \in Nat /\ DOMAIN turns = 1 .. n /\ g[0] = start
      BY <1>1, <2>2, <2>3
    <3>. HIDE DEF turns
    <3>. QED
      BY <2>4, <3>1, Packets!FoldComputed
  <2>. QED
    BY <2>3, <2>5, PacketsIsFold
<1>. HIDE DEF state
<1>14. DecodePacket(b) = Success(state(n).commands)
  BY <1>7, <1>12, <1>13 DEF DecodePacket
<1>. QED
  BY <1>12, <1>14 DEF b

(* What is joined in the end: all parts but the last, and the last.         *)
LEMMA FlattenLast ==
    ASSUME NEW V, NEW n \in Nat, NEW w, w = n + 1, NEW seqs \in [1 .. w -> Seq(V)],
           NEW front \in [1 .. n -> Seq(V)], \A i \in 1 .. n : front[i] = seqs[i]
    PROVE  FlattenSeq(seqs) = FlattenSeq(front) \o seqs[n + 1]
<1>0. w \in Nat /\ w - 1 = n
  OBVIOUS
<1>1. PICK f : Joined(V, w, seqs, f)
  BY <1>0, FlattenType
<1>2. PICK g : Joined(V, n, front, g)
  BY FlattenType
<1>3. /\ f[0] = << >> /\ FlattenSeq(seqs) = f[w]
      /\ \A i \in 0 .. n : f[i + 1] = f[i] \o seqs[i + 1]
  BY <1>0, <1>1 DEF Joined
<1>4. /\ g[0] = << >> /\ FlattenSeq(front) = g[n]
      /\ \A i \in 0 .. n - 1 : g[i + 1] = g[i] \o front[i + 1]
  BY <1>2 DEF Joined
<1>. DEFINE S == {i \in Nat : i <= n => f[i] = g[i]}
<1>5. 0 \in S
  BY <1>3, <1>4
<1>6. ASSUME NEW i \in Nat, i \in S PROVE i + 1 \in S
  <2>. SUFFICES ASSUME i + 1 <= n PROVE f[i + 1] = g[i + 1]
    OBVIOUS
  <2>1. i \in 0 .. n - 1 /\ i \in 0 .. n /\ i + 1 \in 1 .. n /\ f[i] = g[i]
    BY <1>6
  <2>. QED
    BY <1>3, <1>4, <2>1
<1>7. Nat \subseteq S
  <2>. HIDE DEF S
  <2>. QED
    BY <1>5, <1>6, Numbers!SetInduction
<1>8. f[n] = g[n]
  BY <1>7
<1>9. n \in 0 .. n
  OBVIOUS
<1>. QED
  BY <1>3, <1>4, <1>8, <1>9

(* A run of k bytes b.                                                      *)
Run(b, k) == [j \in 1 .. k |-> b]

LEMMA RunMore ==
    ASSUME NEW b \in Byte, NEW k \in Nat
    PROVE  /\ Run(b, k) \in Seq(Byte) /\ Run(b, 1) = <<b>> /\ <<b>> \in Seq(Byte)
           /\ Run(b, k + 1) = Run(b, k) \o <<b>>
<1>1. Run(b, k) \in Seq(Byte) /\ Len(Run(b, k)) = k /\ Run(b, k + 1) \in Seq(Byte) /\ Len(Run(b, k + 1)) = k + 1
  BY DEF Run
<1>2. <<b>> \in Seq(Byte) /\ Len(<<b>>) = 1 /\ <<b>>[1] = b
  OBVIOUS
<1>3. Run(b, 1) = <<b>>
  BY DEF Run
<1>. DEFINE r == Run(b, k)
            u == <<b>>
            a == r \o u
<1>4. \A j \in 1 .. k : r[j] = b
  BY DEF Run
<1>5. \A j \in 1 .. k + 1 : Run(b, k + 1)[j] = b
  BY DEF Run
<1>. HIDE DEF r, u
<1>6. a \in Seq(Byte) /\ Len(a) = k + 1
  BY <1>1, <1>2, ConcatType DEF r, u
<1>7. /\ \A j \in 1 .. Len(r) : a[j] = r[j]
      /\ \A j \in 1 .. Len(u) : a[Len(r) + j] = u[j]
  BY <1>1, <1>2, ConcatAt DEF r, u
<1>. HIDE DEF a
<1>8. Len(r) = k /\ Len(u) = 1 /\ u[1] = b
  BY <1>1, <1>2 DEF r, u
<1>9. \A j \in 1 .. k : a[j] = b
  BY <1>4, <1>7, <1>8
<1>10. a[k + 1] = b
  <2>1. 1 \in 1 .. Len(u)
    BY <1>8
  <2>2. a[Len(r) + 1] = u[1]
    BY <1>7, <2>1
  <2>. QED
    BY <1>8, <2>2
<1>11. \A j \in 1 .. k + 1 : a[j] = b
  BY <1>9, <1>10
<1>12. Run(b, k + 1) = a
  BY <1>1, <1>5, <1>6, <1>11, SeqEqual
<1>. QED
  BY <1>1, <1>2, <1>3, <1>12 DEF a, r, u

(* m pairs of a byte and a run length, and what they stand for.             *)
ArePairs(r, m) == r \in Bytes /\ m \in Nat /\ Len(r) = 2 * m

RunsOf(r, m) == [i \in 1 .. m |-> Run(r[2 * i - 1], r[2 * i])]

LEMMA RunsOfType ==
    ASSUME NEW r, NEW m, ArePairs(r, m)
    PROVE  /\ RunsOf(r, m) \in [1 .. m -> Seq(Byte)]
           /\ \A i \in 1 .. m : r[2 * i - 1] \in Byte /\ r[2 * i] \in Byte
<1>1. r \in Bytes /\ m \in Nat /\ Len(r) = 2 * m
  BY DEF ArePairs
<1>2. \A i \in 1 .. Len(r) : r[i] \in Byte
  BY <1>1 DEF Bytes
<1>3. ASSUME NEW i \in 1 .. m
      PROVE  r[2 * i - 1] \in Byte /\ r[2 * i] \in Byte /\ Run(r[2 * i - 1], r[2 * i]) \in Seq(Byte)
  <2>1. 2 * i \in 1 .. Len(r) /\ 2 * i - 1 \in 1 .. Len(r)
    BY <1>1
  <2>2. r[2 * i - 1] \in Byte /\ r[2 * i] \in Byte
    BY <1>2, <2>1
  <2>3. r[2 * i] \in Nat
    BY <2>2, Widths DEF Byte
  <2>. QED
    BY <2>2, <2>3, RunMore
<1>. QED
  BY <1>3 DEF RunsOf

(* One more byte is one more byte in what the runs stand for.               *)
LEMMA WithRunAdds ==
    ASSUME NEW r, NEW m, ArePairs(r, m), NEW b \in Byte
    PROVE  \E w : /\ ArePairs(WithRun(r, b), w)
                  /\ FlattenSeq(RunsOf(WithRun(r, b), w)) = FlattenSeq(RunsOf(r, m)) \o <<b>>
<1>. DEFINE l == Len(r)
            e == WithRun(r, b)
<1>1. r \in Seq(Byte) /\ m \in Nat /\ l = 2 * m /\ \A i \in 1 .. l : r[i] \in Byte
  BY DEF ArePairs, Bytes
<1>2. RunsOf(r, m) \in [1 .. m -> Seq(Byte)]
  BY RunsOfType
<1>3. CASE r # << >> /\ r[l - 1] = b /\ r[l] < Base - 1
  <2>1. PICK k \in Nat : m = k + 1
    <3>1. m # 0
      BY <1>1, <1>3
    <3>2. m - 1 \in Nat /\ m = (m - 1) + 1
      BY <1>1, <3>1
    <3>. QED
      BY <3>2
  <2>2. l = 2 * (k + 1) /\ l \in 1 .. l /\ l \in Nat
    BY <1>1, <2>1
  <2>. DEFINE v == r[l]
  <2>3. v \in Nat /\ v + 1 \in Byte
    <3>1. v \in Byte /\ v < Base - 1
      BY <1>1, <1>3, <2>2
    <3>. HIDE DEF v
    <3>. QED
      BY <3>1, Widths DEF Byte
  <2>4. e = [r EXCEPT ![l] = v + 1]
    BY <1>3 DEF WithRun
  <2>. HIDE DEF l, v, e
  <2>5. e \in Seq(Byte) /\ Len(e) = l /\ e[l] = v + 1 /\ \A i \in 1 .. l : i # l => e[i] = r[i]
    BY <1>1, <2>2, <2>3, <2>4 DEF l
  <2>6. ArePairs(e, m)
    BY <1>1, <2>5 DEF ArePairs, Bytes
  <2>7. RunsOf(e, m) \in [1 .. m -> Seq(Byte)]
    BY <2>6, RunsOfType
  <2>. DEFINE front == [i \in 1 .. k |-> RunsOf(r, m)[i]]
              F == FlattenSeq(front)
  <2>8. \A i \in 1 .. k : i \in 1 .. m /\ 2 * i \in 1 .. l /\ 2 * i # l /\ 2 * i - 1 \in 1 .. l /\ 2 * i - 1 # l
    BY <2>1, <2>2
  <2>9. \A i \in 1 .. k : RunsOf(e, m)[i] = RunsOf(r, m)[i]
    BY <2>5, <2>8 DEF RunsOf
  <2>10. front \in [1 .. k -> Seq(Byte)] /\ \A i \in 1 .. k : front[i] = RunsOf(r, m)[i]
    BY <1>2, <2>8
  <2>. HIDE DEF front
  <2>11. F \in Seq(Byte)
    BY <2>10, FlattenType
  <2>12. FlattenSeq(RunsOf(r, m)) = F \o RunsOf(r, m)[k + 1]
    BY <1>2, <2>1, <2>10, FlattenLast
  <2>13. FlattenSeq(RunsOf(e, m)) = F \o RunsOf(e, m)[k + 1]
    <3>. DEFINE G == RunsOf(e, m)
    <3>1. \A i \in 1 .. k : front[i] = G[i]
      BY <2>9, <2>10
    <3>2. G \in [1 .. m -> Seq(Byte)] /\ front \in [1 .. k -> Seq(Byte)]
      BY <2>7, <2>10
    <3>. HIDE DEF G
    <3>3. FlattenSeq(G) = FlattenSeq(front) \o G[k + 1]
      BY <2>1, <3>1, <3>2, FlattenLast
    <3>. QED
      BY <3>3 DEF G
  <2>. HIDE DEF F
  <2>14. k + 1 \in 1 .. m /\ 2 * (k + 1) = l /\ 2 * (k + 1) - 1 = l - 1 /\ l - 1 \in 1 .. l /\ l - 1 # l
    BY <2>1, <2>2
  <2>15. RunsOf(r, m)[k + 1] = Run(b, v)
    BY <1>3, <2>14 DEF RunsOf, v, l
  <2>16. RunsOf(e, m)[k + 1] = Run(b, v + 1)
    <3>1. RunsOf(e, m)[k + 1] = Run(e[l - 1], e[l])
      BY <2>14 DEF RunsOf
    <3>2. e[l - 1] = b
      BY <1>3, <2>5, <2>14 DEF l
    <3>. QED
      BY <2>5, <3>1, <3>2
  <2>17. Run(b, v + 1) = Run(b, v) \o <<b>> /\ Run(b, v) \in Bytes /\ <<b>> \in Bytes
    BY <2>3, RunMore DEF Bytes
  <2>. DEFINE x == Run(b, v)
              y == <<b>>
  <2>18. F \in Bytes /\ x \in Bytes /\ y \in Bytes
    BY <2>11, <2>17 DEF Bytes
  <2>. HIDE DEF x, y
  <2>19. (F \o x) \o y = F \o (x \o y)
    BY <2>18, Regrouped
  <2>20. FlattenSeq(RunsOf(e, m)) = FlattenSeq(RunsOf(r, m)) \o <<b>>
    BY <2>12, <2>13, <2>15, <2>16, <2>17, <2>19 DEF x, y
  <2>. QED
    BY <2>6, <2>20 DEF e
<1>4. CASE ~ (r # << >> /\ r[l - 1] = b /\ r[l] < Base - 1)
  <2>. DEFINE z == <<b, 1>>
  <2>1. e = r \o z
    BY <1>4 DEF WithRun
  <2>2. z \in Seq(Byte) /\ Len(z) = 2 /\ z[1] = b /\ z[2] = 1
    <3>1. 1 \in Byte
      BY Widths DEF Byte
    <3>. QED
      BY <3>1
  <2>. HIDE DEF e, z
  <2>3. e \in Seq(Byte) /\ Len(e) = l + 2
    BY <1>1, <2>1, <2>2, ConcatType
  <2>4. /\ \A i \in 1 .. Len(r) : (r \o z)[i] = r[i]
        /\ \A i \in 1 .. Len(z) : (r \o z)[Len(r) + i] = z[i]
    <3>1. r \in Seq(Byte) /\ z \in Seq(Byte)
      BY <1>1, <2>2
    <3>. QED
      BY <3>1, ConcatAt
  <2>5. \A i \in 1 .. l : e[i] = r[i]
    BY <2>1, <2>4
  <2>6. e[l + 1] = b /\ e[l + 2] = 1
    <3>1. 1 \in 1 .. Len(z) /\ 2 \in 1 .. Len(z)
      BY <2>2
    <3>. QED
      BY <2>1, <2>2, <2>4, <3>1
  <2>. DEFINE w == m + 1
  <2>7. ArePairs(e, w) /\ w \in Nat
    BY <1>1, <2>3 DEF ArePairs, Bytes
  <2>8. RunsOf(e, w) \in [1 .. w -> Seq(Byte)]
    BY <2>7, RunsOfType
  <2>. HIDE DEF l
  <2>9. \A i \in 1 .. m : i \in 1 .. w /\ 2 * i \in 1 .. l /\ 2 * i - 1 \in 1 .. l
    BY <1>1
  <2>10. \A i \in 1 .. m : RunsOf(r, m)[i] = RunsOf(e, w)[i]
    BY <2>5, <2>9 DEF RunsOf
  <2>11. FlattenSeq(RunsOf(e, w)) = FlattenSeq(RunsOf(r, m)) \o RunsOf(e, w)[m + 1]
    BY <1>1, <1>2, <2>8, <2>10, FlattenLast
  <2>12. RunsOf(e, w)[m + 1] = Run(e[l + 1], e[l + 2])
    <3>1. m + 1 \in 1 .. w /\ 2 * (m + 1) = l + 2 /\ 2 * (m + 1) - 1 = l + 1
      BY <1>1
    <3>. QED
      BY <3>1 DEF RunsOf
  <2>13. Run(b, 1) = <<b>>
    BY RunMore
  <2>14. FlattenSeq(RunsOf(e, w)) = FlattenSeq(RunsOf(r, m)) \o <<b>>
    BY <2>6, <2>11, <2>12, <2>13
  <2>. QED
    BY <2>7, <2>14 DEF e
<1>. QED
  BY <1>3, <1>4
(* The run lengths stand for what was compressed.                           *)
LEMMA InflateReadBack ==
    ASSUME NEW data \in Bytes
    PROVE  Inflate(Deflate(data)) = Success(data)
<1>. DEFINE n == Len(data)
            Stands(r, i) == \E m : ArePairs(r, m) /\ FlattenSeq(RunsOf(r, m)) = SubSeq(data, 1, i)
<1>1. n \in Nat /\ DOMAIN data = 1 .. n /\ data \in Seq(Byte) /\ \A i \in 1 .. n : data[i] \in Byte
  BY DEF Bytes
<1>. HIDE DEF n
<1>2. PICK f : /\ f[0] = << >>
               /\ \A i \in 0 .. n - 1 : f[i + 1] = WithRun(f[i], data[i + 1])
               /\ Deflate(data) = f[n]
  <2>1. PICK f : Runs!PrefixValues(<< >>, data, n, f)
    BY <1>1, Runs!FoldHasValues
  <2>. QED
    BY <2>1, RunsIsFold DEF Runs!PrefixValues, Deflate
<1>. DEFINE S == {i \in Nat : i <= n => Stands(f[i], i)}
<1>3. 0 \in S
  <2>1. ArePairs(<< >>, 0)
    BY DEF ArePairs, Bytes
  <2>2. RunsOf(<< >>, 0) = << >>
    BY DEF RunsOf
  <2>3. FlattenSeq(<< >>) = << >>
    BY DEF FlattenSeq
  <2>4. SubSeq(data, 1, 0) = << >>
    OBVIOUS
  <2>5. Stands(<< >>, 0)
    BY <2>1, <2>2, <2>3, <2>4
  <2>. HIDE DEF Stands
  <2>. QED
    BY <1>2, <2>5
<1>4. ASSUME NEW i \in Nat, i \in S PROVE i + 1 \in S
  <2>. SUFFICES ASSUME i + 1 <= n PROVE Stands(f[i + 1], i + 1)
    OBVIOUS
  <2>1. i \in 0 .. n - 1 /\ i + 1 \in 1 .. n /\ Stands(f[i], i)
    BY <1>1, <1>4
  <2>2. PICK m : ArePairs(f[i], m) /\ FlattenSeq(RunsOf(f[i], m)) = SubSeq(data, 1, i)
    BY <2>1
  <2>. DEFINE r == f[i]
              b == data[i + 1]
  <2>3. b \in Byte /\ f[i + 1] = WithRun(r, b)
    BY <1>1, <1>2, <2>1
  <2>4. SubSeq(data, 1, i) \o <<b>> = SubSeq(data, 1, i + 1)
    <3>. DEFINE taken == SubSeq(data, 1, i)
    <3>1. Append(taken, b) = SubSeq(data, 1, i + 1)
      BY <1>1, <2>1, OneMoreTaken DEF n
    <3>2. taken \in Seq(Byte)
      BY <1>1, <2>1 DEF n
    <3>. HIDE DEF taken, b
    <3>3. Append(taken, b) = taken \o <<b>>
      BY <2>3, <3>2
    <3>. QED
      BY <3>1, <3>3 DEF taken
  <2>. HIDE DEF r, b
  <2>5. PICK w : /\ ArePairs(WithRun(r, b), w)
                 /\ FlattenSeq(RunsOf(WithRun(r, b), w)) = FlattenSeq(RunsOf(r, m)) \o <<b>>
    BY <2>2, <2>3, WithRunAdds DEF r
  <2>. QED
    BY <2>2, <2>3, <2>4, <2>5 DEF r
<1>5. Nat \subseteq S
  <2>. HIDE DEF S
  <2>. QED
    BY <1>3, <1>4, Numbers!SetInduction
<1>6. Stands(f[n], n)
  <2>. HIDE DEF Stands
  <2>. QED
    BY <1>1, <1>5
<1>. DEFINE r == f[n]
<1>7. PICK m : ArePairs(r, m) /\ FlattenSeq(RunsOf(r, m)) = SubSeq(data, 1, n)
  BY <1>6
<1>8. SubSeq(data, 1, n) = data
  BY <1>1, SubSeqFull DEF n
<1>. HIDE DEF r
<1>9. m \in Nat /\ Len(r) = 2 * m
  BY <1>7 DEF ArePairs
<1>10. Len(r) % 2 = 0 /\ Len(r) \div 2 = m
  BY <1>9
<1>11. Inflate(r) = Success(FlattenSeq(RunsOf(r, m)))
  BY <1>10 DEF Inflate, RunsOf, Run
<1>. QED
  BY <1>2, <1>7, <1>8, <1>11 DEF r

(* decompress undoes compress, whichever way the data went out.             *)
LEMMA DecompressReadBack ==
    ASSUME NEW data \in Bytes, Len(data) < U32, NEW algorithm \in Algorithms
    PROVE  Decompress(Compress(data, algorithm, Threshold)) = Success(data)
<1>. DEFINE packed == Deflate(data)
            size == Digits(Len(data), 4)
            out == Compress(data, algorithm, Threshold)
            Unpack(p) == Inflate(Slice(p, 4, Len(p)))
<1>1. packed \in Bytes /\ Len(data) \in Nat /\ Inflate(packed) = Success(data)
  BY DeflateType, InflateReadBack DEF Bytes
<1>2. size \in Bytes /\ Len(size) = 4 /\ Number(size) = Len(data)
  <2>1. Len(data) \in Below(4)
    BY <1>1, Widths DEF Below
  <2>. QED
    BY <1>1, <2>1, DigitsType, NumberOfDigits
<1>3. 0 \in Byte /\ 1 \in Byte /\ 2 \in Byte
  BY Widths DEF Byte
<1>4. \/ out = <<1>> \o packed
      \/ out = (<<2>> \o size) \o packed
      \/ out = <<0>> \o data
  BY DEF Compress
<1>5. ASSUME NEW b, b # << >>, NEW p, Tail(b) = p
      PROVE  /\ Head(b) = 0 => Decompress(b) = Success(p)
             /\ Head(b) = 1 => Decompress(b) = Inflate(p)
             /\ Head(b) = 2 => Decompress(b) =
                    IF /\ Len(p) >= 4
                       /\ Unpack(p).ok
                       /\ Len(Unpack(p).value) <= Number(Slice(p, 0, 4))
                    THEN Unpack(p) ELSE Failure
  <2>. DEFINE lz4 == IF /\ Len(p) >= 4
                        /\ Unpack(p).ok
                        /\ Len(Unpack(p).value) <= Number(Slice(p, 0, 4))
                     THEN Unpack(p) ELSE Failure
  <2>1. Decompress(b) = CASE Head(b) = 0 -> Success(p)
                          [] Head(b) = 1 -> Inflate(p)
                          [] Head(b) = 2 -> lz4
                          [] OTHER -> Failure
    BY <1>5, Zenon DEF Decompress
  <2>. HIDE DEF lz4
  <2>2. Head(b) = 0 => Decompress(b) = Success(p)
    BY <2>1
  <2>3. Head(b) = 1 => Decompress(b) = Inflate(p)
    BY <2>1
  <2>4. Head(b) = 2 => Decompress(b) = lz4
    BY <2>1
  <2>. QED
    BY <2>2, <2>3, <2>4 DEF lz4
<1>. HIDE DEF packed, size, out, Unpack
<1>6. CASE out = <<1>> \o packed
  <2>1. out # << >> /\ Head(out) = 1 /\ Tail(out) = packed
    BY <1>1, <1>3, <1>6, HeaderFirst
  <2>. QED
    BY <1>1, <1>5, <2>1 DEF out
<1>7. CASE out = <<0>> \o data
  <2>1. out # << >> /\ Head(out) = 0 /\ Tail(out) = data
    BY <1>3, <1>7, HeaderFirst
  <2>. QED
    BY <1>5, <2>1 DEF out
<1>8. CASE out = (<<2>> \o size) \o packed
  <2>. DEFINE h == <<2>>
              p == size \o packed
  <2>1. h \in Bytes
    BY <1>3 DEF Bytes
  <2>2. size \in Seq(Byte) /\ packed \in Seq(Byte) /\ Len(packed) \in Nat
    BY <1>1, <1>2 DEF Bytes
  <2>3. p \in Bytes /\ Len(p) = Len(size) + Len(packed)
    BY <2>2, ConcatType DEF Bytes
  <2>4. (h \o size) \o packed = h \o p
    <3>. HIDE DEF h
    <3>. QED
      BY <1>1, <1>2, <2>1, Regrouped
  <2>5. Slice(p, 0, Len(size)) = size
    BY <2>2, SliceStart
  <2>6. Slice(p, Len(size), Len(p)) = packed
    <3>. DEFINE w == Len(p)
    <3>1. w \in Nat /\ w >= Len(packed)
      BY <1>2, <2>2, <2>3
    <3>. HIDE DEF w
    <3>2. Slice(size \o packed, Len(size), w) = packed
      BY <2>2, <3>1, SliceEnd
    <3>. QED
      BY <3>2 DEF w
  <2>7. out = h \o p
    BY <1>8, <2>4
  <2>. HIDE DEF p
  <2>8. out # << >> /\ Head(out) = 2 /\ Tail(out) = p
    BY <1>3, <2>3, <2>7, HeaderFirst
  <2>9. Len(p) >= 4 /\ Unpack(p) = Success(data) /\ Number(Slice(p, 0, 4)) = Len(data)
    BY <1>1, <1>2, <2>2, <2>3, <2>5, <2>6 DEF Unpack
  <2>10. Success(data).ok /\ Success(data).value = data
    BY DEF Success
  <2>11. Decompress(out) = IF /\ Len(p) >= 4
                              /\ Unpack(p).ok
                              /\ Len(Unpack(p).value) <= Number(Slice(p, 0, 4))
                           THEN Unpack(p) ELSE Failure
    BY <1>5, <2>8
  <2>12. Len(Unpack(p).value) <= Number(Slice(p, 0, 4)) /\ Unpack(p).ok
    BY <1>1, <2>9, <2>10
  <2>. QED
    BY <2>9, <2>11, <2>12 DEF out
<1>. QED
  BY <1>4, <1>6, <1>7, <1>8

LEMMA ChecksumReadBack ==
    ASSUME NEW data \in Bytes
    PROVE  StripChecksum(AppendChecksum(data)) = Success(data)
<1>. DEFINE h == Hash(data)
            b == data \o h
            l == Len(data)
            w == Len(b)
<1>1. data \in Seq(Byte) /\ h \in Seq(Byte) /\ Len(h) = 4 /\ l \in Nat
  BY HashType DEF Bytes
<1>. HIDE DEF h
<1>2. w = l + 4
  BY <1>1, ConcatType
<1>3. Slice(b, 0, l) = data
  BY <1>1, SliceStart
<1>4. Slice(b, l, 4) = h
  <2>1. 4 \in Nat /\ 4 >= Len(h)
    BY <1>1
  <2>. QED
    BY <1>1, <2>1, SliceEnd
<1>5. w >= 4 /\ w - 4 = l
  BY <1>1, <1>2
<1>6. AppendChecksum(data) = b
  BY DEF AppendChecksum, h
<1>. HIDE DEF b, l
<1>7. StripChecksum(b) = Success(data)
  BY <1>3, <1>4, <1>5 DEF StripChecksum, h
<1>. QED
  BY <1>6, <1>7

(* A datagram is parsed to the commands it was made of.                     *)
LEMMA DatagramReadBack ==
    ASSUME NEW cs, AreCommands(cs), Fits(cs), Len(EncodePacketInto(cs)) < U32, NEW c \in Configs
    PROVE  Parse(Datagram(cs, c), c) = Success(cs)
<1>. DEFINE e == EncodePacketInto(cs)
            d == Compress(e, c.algorithm, Threshold)
            g == Datagram(cs, c)
<1>1. c.algorithm \in Algorithms /\ c.checksums \in BOOLEAN
  BY DEF Configs
<1>2. e \in Bytes /\ DecodePacket(e) = Success(cs) /\ Len(e) < U32
  BY EncodePacketType, PacketReadBack
<1>. HIDE DEF e
<1>3. d \in Bytes /\ Decompress(d) = Success(e)
  BY <1>1, <1>2, CompressType, DecompressReadBack
<1>4. g = IF c.checksums THEN AppendChecksum(d) ELSE d
  BY DEF Datagram, e
<1>. HIDE DEF d, g
<1>5. (IF c.checksums THEN StripChecksum(g) ELSE Success(g)) = Success(d)
  <2>1. CASE c.checksums
    BY <1>3, <1>4, <2>1, ChecksumReadBack
  <2>2. CASE ~c.checksums
    BY <1>4, <2>2
  <2>. QED
    BY <2>1, <2>2
<1>6. Success(d).ok /\ Success(d).value = d /\ Success(e).ok /\ Success(e).value = e
  BY DEF Success
<1>7. Parse(g, c) = DecodePacket(e)
  BY <1>3, <1>5, <1>6 DEF Parse
<1>. QED
  BY <1>2, <1>7 DEF g

(* In a datagram shorter than U16 no length is cut off.                     *)
LEMMA ShortFits ==
    ASSUME NEW cs, AreCommands(cs), Len(cs) < Base, Len(EncodePacketInto(cs)) < U16
    PROVE  Fits(cs) /\ Len(EncodePacketInto(cs)) < U32
<1>. DEFINE n == Len(cs)
            parts == [i \in 1 .. n |-> Framed(cs[i])]
            flat == FlattenSeq(parts)
<1>1. n \in Nat /\ \A i \in 1 .. n : IsCommand(cs[i])
  BY CommandsForm
<1>2. flat \in Bytes /\ parts \in [1 .. n -> Bytes] /\ Len(EncodePacketInto(cs)) = 1 + Len(flat)
  BY EncodePacketType
<1>3. \A i \in 1 .. n : parts[i] = Framed(cs[i])
  OBVIOUS
<1>. HIDE DEF n, parts, flat
<1>4. PICK f : Joined(Byte, n, parts, f)
  BY <1>1, <1>2, FlattenType DEF Bytes
<1>5. flat = f[n]
  BY <1>4 DEF Joined, flat
<1>6. Len(flat) \in Nat /\ 1 + Len(flat) < U16
  BY <1>2 DEF Bytes
<1>7. ASSUME NEW i \in 1 .. n PROVE Len(EncodeCommandInto(cs[i])) < U16
  <2>. DEFINE k == i - 1
              p == f[k]
              x == parts[i]
  <2>1. k \in 0 .. n - 1 /\ k + 1 = i /\ k \in 0 .. n
    BY <1>1
  <2>2. parts \in [1 .. n -> Seq(Byte)]
    BY <1>2 DEF Bytes
  <2>3. Continues(Byte, p, x, flat)
    <3>. HIDE DEF k
    <3>1. Continues(Byte, f[k], parts[k + 1], f[n])
      BY <1>1, <1>4, <2>1, <2>2, JoinedSplits
    <3>. QED
      BY <1>5, <2>1, <3>1
  <2>4. p \in Seq(Byte) /\ x \in Seq(Byte)
    <3>. HIDE DEF k
    <3>1. p \in Seq(Byte)
      BY <1>4, <2>1, Zenon DEF Joined
    <3>. QED
      BY <2>2, <3>1
  <2>5. Len(x) = 2 + Len(EncodeCommandInto(cs[i])) /\ Len(EncodeCommandInto(cs[i])) \in Nat
    BY <1>1, <1>3, FramedType, EncodeCommandType DEF Bytes
  <2>. HIDE DEF p, x
  <2>6. PICK q \in Seq(Byte) : flat = p \o (x \o q)
    BY <2>3 DEF Continues
  <2>7. Len(x \o q) = Len(x) + Len(q) /\ x \o q \in Seq(Byte)
    BY <2>4, ConcatType
  <2>8. Len(p \o (x \o q)) = Len(p) + Len(x \o q)
    BY <2>4, <2>7, ConcatType
  <2>9. Len(p) \in Nat /\ Len(q) \in Nat /\ Len(x) \in Nat
    BY <2>4
  <2>10. Len(flat) = Len(p) + Len(x) + Len(q)
    BY <2>6, <2>7, <2>8
  <2>. QED
    BY <1>6, <2>5, <2>9, <2>10, Widths
<1>8. U16 <= U32
  BY Widths DEF U32
<1>9. Len(EncodePacketInto(cs)) < U32
  BY <1>2, <1>6, <1>8, Widths
<1>. QED
  BY <1>7, <1>9 DEF Fits, n

-----------------------------------------------------------------------------
(* The network. *)

(* Whatever arrives are bytes, and commands if they can be parsed.          *)
LEMMA NetworkType ==
    ASSUME NEW a \in Network
    PROVE  /\ a.bytes \in Bytes /\ a.config \in Configs /\ a.parsed.ok \in BOOLEAN
           /\ a.parsed.ok => AreCommands(a.parsed.value)
<1>1. ASSUME NEW x \in Arrivals
      PROVE  /\ x.bytes \in Bytes /\ x.config \in Configs
             /\ x = [config |-> x.config, bytes |-> x.bytes, parsed |-> x.parsed]
             /\ x.parsed = Parse(x.bytes, x.config)
  <2>1. PICK c \in Configs, d \in Datagrams :
           x = [config |-> c, bytes |-> Datagram(d, c), parsed |-> Parse(Datagram(d, c), c)]
    BY DEF Arrivals
  <2>2. Datagram(d, c) \in Bytes
    BY DatagramType, PeerControlAssumption
  <2>. QED
    BY <2>1, <2>2
<1>2. CASE a \in Arrivals
  BY <1>1, <1>2, ParseYieldsCommands
<1>3. CASE a \notin Arrivals
  <2>1. PICK x \in Arrivals, n \in Cuts : a = Cut(x, n)
    BY <1>3 DEF Network
  <2>. DEFINE b == Slice(x.bytes, 0, n)
  <2>2. n \in Int /\ 0 \in Nat /\ x.bytes \in Seq(Byte)
    BY <1>1, PeerControlAssumption DEF Bytes
  <2>3. b \in Bytes
    BY <2>2, SliceType DEF Bytes
  <2>4. a = [config |-> x.config, bytes |-> b, parsed |-> Parse(b, x.config)]
    <3>1. a = [x EXCEPT !.bytes = b, !.parsed = Parse(b, x.config)]
      BY <2>1 DEF Cut
    <3>2. PICK c, y, z : x = [config |-> c, bytes |-> y, parsed |-> z]
      BY <1>1
    <3>. HIDE DEF b
    <3>. QED
      BY <3>1, <3>2
  <2>. HIDE DEF b
  <2>5. x.config \in Configs
    BY <1>1
  <2>. QED
    BY <2>3, <2>4, <2>5, ParseYieldsCommands
<1>. QED
  BY <1>2, <1>3

-----------------------------------------------------------------------------
(* What the peer keeps. *)

PeerRecords == [state : PeerStates, peer_id : 0 .. U16 - 1, incoming_session_id : 0 .. U16 - 1,
                connect_id : 0 .. U32 - 1]

FlowRecords == [window_size : MinWindow .. MaxWindow, reliable_data_in_transit : 0 .. MaxU32]

CongestionRecords ==
    [rtt : Nat, rtt_variance : Nat, packets_lost : Nat, packets_sent : Nat,
     throttle : 0 .. FullThrottle, elapsed : Nat, advanced : BOOLEAN,
     packet_throttle : 0 .. Scale, interval : Nat, acceleration : 0 .. WordMax, deceleration : Nat]

BandwidthRecords ==
    [sent : Nat, received : 0 .. U32 - 1, expired : BOOLEAN, incoming_limit : Nat,
     outgoing_limit : Nat]

(* The window limit does not overflow.                                      *)
LEMMA WindowLimits ==
    ASSUME NEW w \in MinWindow .. MaxWindow
    PROVE  /\ w * FragmentSize \in 1 .. MaxU32 /\ w \in 0 .. U32 - 1 /\ w \in Nat
           /\ MinWindow \in Nat /\ MaxWindow \in Nat /\ MinWindow <= MaxWindow /\ MaxU32 \in Nat
<1>1. /\ MinWindow \in Nat /\ MinWindow >= 1 /\ MaxWindow \in Nat /\ MinWindow <= MaxWindow
      /\ FragmentSize \in Nat /\ FragmentSize >= 1 /\ MaxU32 \in Nat
      /\ MaxWindow * FragmentSize <= MaxU32 /\ MaxU32 = U32 - 1
  BY FlowControlAssumption, PeerControlAssumption
<1>. DEFINE F == FragmentSize
            d == MaxWindow - w
<1>2. w \in Nat /\ w >= 1 /\ d \in Nat /\ MaxWindow = w + d /\ F \in Nat /\ F >= 1
  BY <1>1
<1>. HIDE DEF F, d
<1>3. (w + d) * F = w * F + d * F /\ d * F \in Nat /\ w * F \in Nat
  BY <1>2
<1>4. w * F >= w
  <2>1. w * F = w + w * (F - 1) /\ w * (F - 1) \in Nat
    BY <1>2
  <2>. QED
    BY <1>2, <1>3, <2>1
<1>5. w * F <= MaxU32
  BY <1>1, <1>2, <1>3 DEF F
<1>. QED
  BY <1>1, <1>2, <1>3, <1>4, <1>5 DEF F

(* The fields of the commands that are processed.                           *)
LEMMA FieldType ==
    ASSUME NEW c, IsCommand(c), NEW f \in DOMAIN CommandFields[c.kind]
    PROVE  HasType(c.args[f], CommandFields[c.kind][f])
BY DEF IsCommand

LEMMA PingFields ==
    ASSUME NEW c, IsCommand(c), c.kind = "Ping"
    PROVE  c.args.timestamp \in 0 .. U32 - 1
<1>1. HasType(c.args["timestamp"], CommandFields["Ping"]["timestamp"])
  <2>1. "timestamp" \in DOMAIN CommandFields["Ping"]
    BY DEF CommandFields
  <2>. QED
    BY <2>1, FieldType
<1>2. CommandFields["Ping"]["timestamp"] = "u32"
  BY DEF CommandFields
<1>. QED
  BY <1>1, <1>2 DEF HasType

LEMMA ProbeFields ==
    ASSUME NEW c, IsCommand(c), c.kind = "PMTUProbe"
    PROVE  c.args.size \in 0 .. U16 - 1 /\ c.args.token \in 0 .. U32 - 1
<1>1. {"size", "token"} \subseteq DOMAIN CommandFields["PMTUProbe"]
  BY DEF CommandFields
<1>2. /\ HasType(c.args["size"], CommandFields["PMTUProbe"]["size"])
      /\ HasType(c.args["token"], CommandFields["PMTUProbe"]["token"])
  BY <1>1, FieldType
<1>3. CommandFields["PMTUProbe"]["size"] = "u16" /\ CommandFields["PMTUProbe"]["token"] = "u32"
  BY DEF CommandFields
<1>. QED
  BY <1>2, <1>3 DEF HasType

LEMMA ConnectFields ==
    ASSUME NEW c, IsCommand(c), c.kind = "Connect"
    PROVE  /\ c.args.channels \in 0 .. Base - 1 /\ c.args.outgoing_session_id \in 0 .. U16 - 1
           /\ c.args.connect_id \in 0 .. U32 - 1
<1>. DEFINE F == CommandFields["Connect"]
<1>1. {"channels", "outgoing_session_id", "connect_id"} \subseteq DOMAIN F
  BY DEF CommandFields
<1>2. /\ HasType(c.args["channels"], F["channels"])
      /\ HasType(c.args["outgoing_session_id"], F["outgoing_session_id"])
      /\ HasType(c.args["connect_id"], F["connect_id"])
  BY <1>1, FieldType
<1>3. F["channels"] = "u8" /\ F["outgoing_session_id"] = "u16" /\ F["connect_id"] = "u32"
  BY DEF CommandFields
<1>. HIDE DEF F
<1>. QED
  BY <1>2, <1>3 DEF HasType

LEMMA VerifyFields ==
    ASSUME NEW c, IsCommand(c), c.kind = "VerifyConnect"
    PROVE  /\ c.args.peer_id \in 0 .. U16 - 1 /\ c.args.incoming_session_id \in 0 .. U16 - 1
           /\ c.args.window_size \in 0 .. U32 - 1
<1>. DEFINE F == CommandFields["VerifyConnect"]
<1>1. {"peer_id", "incoming_session_id", "window_size"} \subseteq DOMAIN F
  BY DEF CommandFields
<1>2. /\ HasType(c.args["peer_id"], F["peer_id"])
      /\ HasType(c.args["incoming_session_id"], F["incoming_session_id"])
      /\ HasType(c.args["window_size"], F["window_size"])
  BY <1>1, FieldType
<1>3. F["peer_id"] = "u16" /\ F["incoming_session_id"] = "u16" /\ F["window_size"] = "u32"
  BY DEF CommandFields
<1>. HIDE DEF F
<1>. QED
  BY <1>2, <1>3 DEF HasType

LEMMA LimitFields ==
    ASSUME NEW c, IsCommand(c), c.kind = "BandwidthLimit"
    PROVE  c.args.incoming \in 0 .. U32 - 1 /\ c.args.outgoing \in 0 .. U32 - 1
<1>. DEFINE F == CommandFields["BandwidthLimit"]
<1>1. {"incoming", "outgoing"} \subseteq DOMAIN F
  BY DEF CommandFields
<1>2. HasType(c.args["incoming"], F["incoming"]) /\ HasType(c.args["outgoing"], F["outgoing"])
  BY <1>1, FieldType
<1>3. F["incoming"] = "u32" /\ F["outgoing"] = "u32"
  BY DEF CommandFields
<1>. HIDE DEF F
<1>. QED
  BY <1>2, <1>3 DEF HasType

LEMMA ThrottleFields ==
    ASSUME NEW c, IsCommand(c), c.kind = "ThrottleConfigure"
    PROVE  /\ c.args.interval \in 0 .. U32 - 1 /\ c.args.acceleration \in 0 .. U32 - 1
           /\ c.args.deceleration \in 0 .. U32 - 1
<1>. DEFINE F == CommandFields["ThrottleConfigure"]
<1>1. {"interval", "acceleration", "deceleration"} \subseteq DOMAIN F
  BY DEF CommandFields
<1>2. /\ HasType(c.args["interval"], F["interval"])
      /\ HasType(c.args["acceleration"], F["acceleration"])
      /\ HasType(c.args["deceleration"], F["deceleration"])
  BY <1>1, FieldType
<1>3. F["interval"] = "u32" /\ F["acceleration"] = "u32" /\ F["deceleration"] = "u32"
  BY DEF CommandFields
<1>. HIDE DEF F
<1>. QED
  BY <1>2, <1>3 DEF HasType

(* The commands the peer makes.                                             *)
LEMMA PongIsCommand ==
    ASSUME NEW t \in 0 .. U32 - 1
    PROVE  IsCommand(Command("Pong", [timestamp |-> t]))
<1>. DEFINE args == [timestamp |-> t]
            F == CommandFields["Pong"]
<1>1. F = [timestamp |-> "u32"] /\ "Pong" \in Kinds
  BY DEF CommandFields, Kinds
<1>. HIDE DEF F
<1>2. DOMAIN args = {"timestamp"} /\ DOMAIN F = {"timestamp"}
  BY <1>1
<1>3. HasType(args["timestamp"], F["timestamp"])
  BY <1>1 DEF HasType
<1>5. args = [g \in DOMAIN args |-> args[g]]
  OBVIOUS
<1>. HIDE DEF args
<1>4. \A g \in DOMAIN args : HasType(args[g], F[g])
  BY <1>2, <1>3
<1>. QED
  BY <1>1, <1>2, <1>4, <1>5, IsCommandMade DEF args, F

LEMMA ReplyIsCommand ==
    ASSUME NEW z \in 0 .. U16 - 1, NEW t \in 0 .. U32 - 1
    PROVE  IsCommand(Command("PMTUReply", [size |-> z, token |-> t]))
<1>. DEFINE args == [size |-> z, token |-> t]
            F == CommandFields["PMTUReply"]
<1>1. F = [size |-> "u16", token |-> "u32"] /\ "PMTUReply" \in Kinds
  BY DEF CommandFields, Kinds
<1>. HIDE DEF F
<1>2. DOMAIN args = {"size", "token"} /\ DOMAIN F = {"size", "token"}
  BY <1>1
<1>3. HasType(args["size"], F["size"]) /\ HasType(args["token"], F["token"])
  BY <1>1 DEF HasType
<1>5. args = [g \in DOMAIN args |-> args[g]]
  OBVIOUS
<1>. HIDE DEF args
<1>4. \A g \in DOMAIN args : HasType(args[g], F[g])
  BY <1>2, <1>3
<1>. QED
  BY <1>1, <1>2, <1>4, <1>5, IsCommandMade DEF args, F

LEMMA ConnectIsCommand ==
    ASSUME NEW ch \in 0 .. Base - 1, NEW m \in 0 .. U16 - 1, NEW v \in 0 .. U16 - 1,
           NEW s \in 0 .. U16 - 1, NEW i \in 0 .. U32 - 1
    PROVE  IsCommand(Command("Connect", [channels |-> ch, mtu |-> m, protocol_version |-> v,
                                         outgoing_session_id |-> s, connect_id |-> i]))
<1>. DEFINE args == [channels |-> ch, mtu |-> m, protocol_version |-> v, outgoing_session_id |-> s, connect_id |-> i]
            F == CommandFields["Connect"]
<1>1. F = [channels |-> "u8", mtu |-> "u16", protocol_version |-> "u16", outgoing_session_id |-> "u16", connect_id |-> "u32"] /\ "Connect" \in Kinds
  BY DEF CommandFields, Kinds
<1>. HIDE DEF F
<1>2. DOMAIN args = {"channels", "mtu", "protocol_version", "outgoing_session_id", "connect_id"} /\ DOMAIN F = {"channels", "mtu", "protocol_version", "outgoing_session_id", "connect_id"}
  BY <1>1
<1>3. /\ HasType(args["channels"], F["channels"]) /\ HasType(args["mtu"], F["mtu"]) /\ HasType(args["protocol_version"], F["protocol_version"])
      /\ HasType(args["outgoing_session_id"], F["outgoing_session_id"]) /\ HasType(args["connect_id"], F["connect_id"])
  BY <1>1 DEF HasType
<1>5. args = [g \in DOMAIN args |-> args[g]]
  OBVIOUS
<1>. HIDE DEF args
<1>4. \A g \in DOMAIN args : HasType(args[g], F[g])
  BY <1>2, <1>3
<1>. QED
  BY <1>1, <1>2, <1>4, <1>5, IsCommandMade DEF args, F

LEMMA VerifyIsCommand ==
    ASSUME NEW p \in 0 .. U16 - 1, NEW ch \in 0 .. Base - 1, NEW m \in 0 .. U16 - 1,
           NEW i \in 0 .. U16 - 1, NEW o \in 0 .. U16 - 1, NEW w \in 0 .. U32 - 1
    PROVE  IsCommand(Command("VerifyConnect",
                [peer_id |-> p, channels |-> ch, mtu |-> m, incoming_session_id |-> i,
                 outgoing_session_id |-> o, window_size |-> w]))
<1>. DEFINE args == [peer_id |-> p, channels |-> ch, mtu |-> m, incoming_session_id |-> i, outgoing_session_id |-> o, window_size |-> w]
            F == CommandFields["VerifyConnect"]
<1>1. F = [peer_id |-> "u16", channels |-> "u8", mtu |-> "u16", incoming_session_id |-> "u16", outgoing_session_id |-> "u16", window_size |-> "u32"] /\ "VerifyConnect" \in Kinds
  BY DEF CommandFields, Kinds
<1>. HIDE DEF F
<1>2. DOMAIN args = {"peer_id", "channels", "mtu", "incoming_session_id", "outgoing_session_id", "window_size"} /\ DOMAIN F = {"peer_id", "channels", "mtu", "incoming_session_id", "outgoing_session_id", "window_size"}
  BY <1>1
<1>3. /\ HasType(args["peer_id"], F["peer_id"]) /\ HasType(args["channels"], F["channels"]) /\ HasType(args["mtu"], F["mtu"])
      /\ HasType(args["incoming_session_id"], F["incoming_session_id"]) /\ HasType(args["outgoing_session_id"], F["outgoing_session_id"]) /\ HasType(args["window_size"], F["window_size"])
  BY <1>1 DEF HasType
<1>5. args = [g \in DOMAIN args |-> args[g]]
  OBVIOUS
<1>. HIDE DEF args
<1>4. \A g \in DOMAIN args : HasType(args[g], F[g])
  BY <1>2, <1>3
<1>. QED
  BY <1>1, <1>2, <1>4, <1>5, IsCommandMade DEF args, F

-----------------------------------------------------------------------------
(* The folds over commands. *)

LEMMA ProcessedIsFold ==
    ASSUME NEW base, NEW s
    PROVE  FoldLeft(ProcessIfOk, base, s) = Processed!Folded(base, s)
BY DEF Processed!Folded, FoldLeft, MapThenFoldSet, Max, Processed!Largest

LEMMA ViewsIsFold ==
    ASSUME NEW base, NEW s
    PROVE  FoldLeft(Observe, base, s) = Views!Folded(base, s)
BY DEF Views!Folded, FoldLeft, MapThenFoldSet, Max, Views!Largest

LEMMA AnswersIsFold ==
    ASSUME NEW base, NEW s
    PROVE  FoldLeft(WithAnswer, base, s) = Answers!Folded(base, s)
BY DEF Answers!Folded, FoldLeft, MapThenFoldSet, Max, Answers!Largest

LEMMA TotalsIsFold ==
    ASSUME NEW base, NEW s
    PROVE  FoldLeft(WithCommandBytes, base, s) = Totals!Folded(base, s)
BY DEF Totals!Folded, FoldLeft, MapThenFoldSet, Max, Totals!Largest

LEMMA NoAnswers == AnswersIn(<< >>) = << >>
BY AnswersIsFold, Answers!FoldEmpty DEF AnswersIn

LEMMA AnswersAppend ==
    ASSUME NEW cs, AreCommands(cs), NEW c
    PROVE  AnswersIn(Append(cs, c)) = WithAnswer(AnswersIn(cs), c)
<1>. DEFINE n == Len(cs)
            a == Append(cs, c)
<1>1. n \in Nat /\ DOMAIN cs = 1 .. n
  BY CommandsForm
<1>2. DOMAIN a = 1 .. n + 1 /\ a[n + 1] = c /\ \A i \in 1 .. n : cs[i] = a[i]
  BY DEF AreCommands
<1>. HIDE DEF n, a
<1>3. Answers!Folded(<< >>, a) = WithAnswer(Answers!Folded(<< >>, cs), a[n + 1])
  BY <1>1, <1>2, Answers!FoldLast
<1>. QED
  BY <1>2, <1>3, AnswersIsFold DEF AnswersIn, a

-----------------------------------------------------------------------------
(* One command of a packet. *)

PartOK(p) ==
    /\ p = [peer |-> p.peer, flow |-> p.flow, congestion |-> p.congestion,
            bandwidth |-> p.bandwidth, queue |-> p.queue, drawn |-> p.drawn, ok |-> p.ok]
    /\ p.peer \in PeerRecords /\ p.flow \in FlowRecords /\ p.congestion \in CongestionRecords
    /\ p.bandwidth \in BandwidthRecords /\ AreCommands(p.queue)
    /\ p.drawn \in 0 .. U16 - 1 /\ p.ok \in BOOLEAN

(* The window that offers leave.                                            *)
Negotiated(offered) == AtMost(AtLeast(Min(offered \cup {InitialWindow}), MinWindow), MaxWindow)

(* The history h agrees with the part p of the peer.                        *)
HistoryOK(p, h, unadjusted) ==
    /\ h = [connecting |-> h.connecting, refused |-> h.refused, offers |-> h.offers, due |-> h.due]
    /\ h.connecting \in BOOLEAN /\ h.refused \in BOOLEAN /\ h.offers \subseteq Nat
    /\ p.ok <=> ~h.refused
    /\ p.ok => (h.connecting <=> p.peer.state = "Connecting")
    /\ AnswersIn(p.queue) = h.due
    /\ UseWindowFlowControl /\ unadjusted => p.flow.window_size = Negotiated(h.offers)

(* The command from which a peer that is being established has its ids.     *)
IntroducedBy(pr, c) ==
    /\ c.kind = "VerifyConnect" =>
          /\ c.args.outgoing_session_id = OwnSessionId
          /\ pr.peer_id = c.args.peer_id
          /\ pr.incoming_session_id = c.args.incoming_session_id
    /\ c.kind = "Connect" =>
          /\ pr.incoming_session_id = c.args.outgoing_session_id
          /\ pr.connect_id = c.args.connect_id

Introduced(pr, commands) ==
    Handshake /\ pr.state \in {"Connected", "ConnectionSucceeded", "AcknowledgingConnect"} =>
        \E c \in commands : IntroducedBy(pr, c)

(* Commands change nothing of what was measured.                            *)
SameEstimates(cc, dd) ==
    /\ cc.rtt = dd.rtt /\ cc.rtt_variance = dd.rtt_variance /\ cc.packets_lost = dd.packets_lost
    /\ cc.throttle = dd.throttle /\ cc.packet_throttle = dd.packet_throttle
    /\ cc.advanced = dd.advanced

PacketInv(p, h, intro, p0, unadjusted) ==
    /\ PartOK(p) /\ HistoryOK(p, h, unadjusted)
    /\ Introduced(p.peer, intro)
    /\ SameEstimates(p.congestion, p0.congestion)
    /\ p.flow.reliable_data_in_transit = p0.flow.reliable_data_in_transit

(* An answer: the queue gets one command more.                              *)
LEMMA AnswerStep ==
    ASSUME NEW p, PartOK(p), NEW kind, NEW args, IsCommand(Command(kind, args))
    PROVE  /\ PartOK(Answer(p, kind, args))
           /\ Answer(p, kind, args) = [peer |-> p.peer, flow |-> p.flow, congestion |-> p.congestion,
                 bandwidth |-> p.bandwidth, queue |-> Append(p.queue, Command(kind, args)),
                 drawn |-> p.drawn, ok |-> p.ok]
           /\ AnswersIn(Answer(p, kind, args).queue) = WithAnswer(AnswersIn(p.queue), Command(kind, args))
<1>. DEFINE q == Append(p.queue, Command(kind, args))
            r == Answer(p, kind, args)
<1>1. AreCommands(q)
  BY AppendCommand DEF PartOK
<1>2. AnswersIn(q) = WithAnswer(AnswersIn(p.queue), Command(kind, args))
  BY AnswersAppend DEF PartOK
<1>3. r = [peer |-> p.peer, flow |-> p.flow, congestion |-> p.congestion,
           bandwidth |-> p.bandwidth, queue |-> q, drawn |-> p.drawn, ok |-> p.ok]
  <2>1. PICK a, b, c, d, e, f, g : p = [peer |-> a, flow |-> b, congestion |-> c, bandwidth |-> d,
                                        queue |-> e, drawn |-> f, ok |-> g]
    BY DEF PartOK
  <2>2. r = [p EXCEPT !.queue = q]
    BY <2>1 DEF Answer
  <2>. HIDE DEF q, r
  <2>. QED
    BY <2>1, <2>2
<1>. HIDE DEF q, r
<1>4. r.queue = q /\ PartOK(r)
  BY <1>1, <1>3 DEF PartOK
<1>. QED
  BY <1>2, <1>3, <1>4 DEF q, r

(* What the history makes of a command.                                     *)
LEMMA ObserveOther ==
    ASSUME NEW p, NEW h, NEW G, HistoryOK(p, h, G), p.ok, NEW c,
           c.kind \notin {"VerifyConnect", "Disconnect", "Ping", "PMTUProbe"}
    PROVE  Observe(h, c) = h
<1>1. ~h.refused /\ h = [connecting |-> h.connecting, refused |-> h.refused, offers |-> h.offers, due |-> h.due]
  BY DEF HistoryOK
<1>2. PICK a, b, d, e : h = [connecting |-> a, refused |-> b, offers |-> d, due |-> e]
  BY <1>1
<1>3. a \in BOOLEAN /\ b = FALSE
  BY <1>1, <1>2 DEF HistoryOK
<1>4. Observe(h, c) = [connecting |-> a, refused |-> FALSE, offers |-> d, due |-> e]
  BY <1>1, <1>2, <1>3 DEF Observe
<1>. QED
  BY <1>2, <1>3, <1>4

LEMMA ObserveRequest ==
    ASSUME NEW p, NEW h, NEW G, HistoryOK(p, h, G), p.ok, NEW c,
           c.kind \in {"Ping", "PMTUProbe"}
    PROVE  Observe(h, c) = [connecting |-> h.connecting, refused |-> FALSE, offers |-> h.offers,
                            due |-> Append(h.due, AnswerTo(c))]
BY DEF HistoryOK, Observe

LEMMA ObserveDisconnect ==
    ASSUME NEW p, NEW h, NEW G, HistoryOK(p, h, G), p.ok, NEW c, c.kind = "Disconnect"
    PROVE  Observe(h, c) = [connecting |-> FALSE, refused |-> FALSE, offers |-> h.offers, due |-> h.due]
BY DEF HistoryOK, Observe

(* A command that leaves the peer alone but for an answer.                  *)
LEMMA RequestStep ==
    ASSUME NEW p, NEW h, NEW intro, NEW p0, NEW G, PacketInv(p, h, intro, p0, G), p.ok,
           NEW c, IsCommand(c), c.kind \in {"Ping", "PMTUProbe"}
    PROVE  PacketInv(ProcessCommand(p, c), Observe(h, c), intro, p0, G)
<1>. DEFINE q == ProcessCommand(p, c)
            a == AnswerTo(c)
            k == IF c.kind = "Ping" THEN "Pong" ELSE "PMTUReply"
            g == Observe(h, c)
<1>1. PICK args : a = Command(k, args) /\ q = Answer(p, k, args) /\ IsCommand(Command(k, args))
  <2>1. CASE c.kind = "Ping"
    <3>1. a = Command("Pong", [timestamp |-> c.args.timestamp])
      BY <2>1 DEF AnswerTo
    <3>2. q = Answer(p, "Pong", [timestamp |-> c.args.timestamp])
      BY <2>1 DEF ProcessCommand, OnPing
    <3>3. IsCommand(Command("Pong", [timestamp |-> c.args.timestamp]))
      BY <2>1, PingFields, PongIsCommand
    <3>4. k = "Pong"
      BY <2>1
    <3>. QED
      BY <3>1, <3>2, <3>3, <3>4
  <2>2. CASE c.kind = "PMTUProbe"
    <3>1. a = Command("PMTUReply", [size |-> c.args.size, token |-> c.args.token])
      BY <2>2 DEF AnswerTo
    <3>2. q = Answer(p, "PMTUReply", [size |-> c.args.size, token |-> c.args.token])
      BY <2>2 DEF ProcessCommand, OnPmtuProbe
    <3>3. IsCommand(Command("PMTUReply", [size |-> c.args.size, token |-> c.args.token]))
      BY <2>2, ProbeFields, ReplyIsCommand
    <3>4. k = "PMTUReply"
      BY <2>2
    <3>. QED
      BY <3>1, <3>2, <3>3, <3>4
  <2>. QED
    BY <2>1, <2>2
<1>2. PartOK(p) /\ HistoryOK(p, h, G)
  BY DEF PacketInv
<1>3. g = [connecting |-> h.connecting, refused |-> FALSE, offers |-> h.offers, due |-> Append(h.due, a)]
  BY <1>2, ObserveRequest
<1>4. k \in {"Pong", "PMTUReply"} /\ a.kind = k
  BY <1>1 DEF Command
<1>. HIDE DEF q, a, k, g
<1>5. /\ PartOK(q)
      /\ q = [peer |-> p.peer, flow |-> p.flow, congestion |-> p.congestion, bandwidth |-> p.bandwidth,
              queue |-> Append(p.queue, a), drawn |-> p.drawn, ok |-> p.ok]
      /\ AnswersIn(q.queue) = WithAnswer(AnswersIn(p.queue), a)
  BY <1>1, <1>2, AnswerStep
<1>6. AnswersIn(q.queue) = Append(h.due, a)
  BY <1>2, <1>4, <1>5 DEF WithAnswer, HistoryOK
<1>7. q.peer = p.peer /\ q.flow = p.flow /\ q.congestion = p.congestion /\ q.ok = p.ok
  BY <1>5
<1>8. HistoryOK(q, g, G)
  BY <1>2, <1>3, <1>6, <1>7 DEF HistoryOK
<1>. QED
  BY <1>5, <1>7, <1>8 DEF PacketInv, q, g

(* Disconnect.                                                              *)
LEMMA DisconnectStep ==
    ASSUME NEW p, NEW h, NEW intro, NEW p0, NEW G, PacketInv(p, h, intro, p0, G), p.ok,
           NEW c, IsCommand(c), c.kind = "Disconnect"
    PROVE  PacketInv(ProcessCommand(p, c), Observe(h, c), intro, p0, G)
<1>. DEFINE q == ProcessCommand(p, c)
            g == Observe(h, c)
            pr == [p.peer EXCEPT !.state = "Zombie"]
<1>1. PartOK(p) /\ HistoryOK(p, h, G)
  BY DEF PacketInv
<1>2. q = [p EXCEPT !.peer.state = OnDisconnect(@)]
  BY DEF ProcessCommand
<1>3. q = [peer |-> pr, flow |-> p.flow, congestion |-> p.congestion, bandwidth |-> p.bandwidth,
           queue |-> p.queue, drawn |-> p.drawn, ok |-> p.ok]
  <2>1. PICK a1, b1, c1, d1, e1, f1, g1 : p = [peer |-> a1, flow |-> b1, congestion |-> c1, bandwidth |-> d1,
                                        queue |-> e1, drawn |-> f1, ok |-> g1]
    BY <1>1 DEF PartOK
  <2>. QED
    BY <1>2, <2>1 DEF OnDisconnect
<1>4. g = [connecting |-> FALSE, refused |-> FALSE, offers |-> h.offers, due |-> h.due]
  BY <1>1, ObserveDisconnect
<1>5. pr \in PeerRecords /\ pr.state = "Zombie"
  BY <1>1 DEF PartOK, PeerRecords, PeerStates
<1>. HIDE DEF q, g, pr
<1>6. PartOK(q) /\ q.peer = pr /\ q.flow = p.flow /\ q.congestion = p.congestion /\ q.ok = p.ok /\ q.queue = p.queue
  BY <1>1, <1>3, <1>5 DEF PartOK
<1>7. HistoryOK(q, g, G)
  BY <1>1, <1>4, <1>5, <1>6 DEF HistoryOK
<1>8. Introduced(q.peer, intro)
  BY <1>5, <1>6 DEF Introduced
<1>. QED
  BY <1>6, <1>7, <1>8 DEF PacketInv, q, g

(* The least of a set of numbers.                                           *)
LEMMA MinType ==
    ASSUME NEW T, T \subseteq Nat, T # {}
    PROVE  Min(T) \in T /\ Min(T) \in Nat /\ \A y \in T : Min(T) <= y
<1>1. \E x \in T : \A y \in T : x <= y
  BY Numbers!LeastNatural
<1>2. Min(T) = CHOOSE x \in T : \A y \in T : x <= y
  BY DEF Min
<1>3. Min(T) \in T /\ \A y \in T : Min(T) <= y
  BY <1>1, <1>2
<1>. QED
  BY <1>3

LEMMA MinWith ==
    ASSUME NEW T, T \subseteq Nat, T # {}, NEW w \in Nat
    PROVE  Min(T \cup {w}) = AtMost(w, Min(T))
<1>. DEFINE m == Min(T)
            n == Min(T \cup {w})
<1>1. m \in T /\ m \in Nat /\ \A y \in T : m <= y
  BY MinType
<1>2. n \in T \cup {w} /\ n \in Nat /\ \A y \in T \cup {w} : n <= y
  <2>1. T \cup {w} \subseteq Nat /\ T \cup {w} # {}
    OBVIOUS
  <2>. QED
    BY <2>1, MinType
<1>. HIDE DEF m, n
<1>. QED
  BY <1>1, <1>2 DEF AtMost, m, n

(* One more offer.                                                          *)
LEMMA OneMoreOffer ==
    ASSUME NEW O, O \subseteq Nat, NEW w \in Nat
    PROVE  Negotiated(O \cup {w}) = AtMost(AtLeast(AtMost(w, Negotiated(O)), MinWindow), MaxWindow)
<1>. DEFINE T == O \cup {InitialWindow}
            m == Min(T)
<1>1. /\ MinWindow \in Nat /\ MaxWindow \in Nat /\ InitialWindow \in Nat /\ MinWindow <= MaxWindow
  BY FlowControlAssumption
<1>2. T \subseteq Nat /\ T # {}
  BY <1>1
<1>3. m \in Nat
  BY <1>2, MinType
<1>4. (O \cup {w}) \cup {InitialWindow} = T \cup {w}
  OBVIOUS
<1>5. Min((O \cup {w}) \cup {InitialWindow}) = AtMost(w, m)
  BY <1>2, <1>4, MinWith
<1>6. Negotiated(O) = AtMost(AtLeast(m, MinWindow), MaxWindow)
  BY DEF Negotiated
<1>. HIDE DEF T, m
<1>. QED
  BY <1>1, <1>3, <1>5, <1>6 DEF Negotiated, AtMost, AtLeast

LEMMA SameStep ==
    ASSUME NEW p, NEW h, NEW intro, NEW p0, NEW G, PacketInv(p, h, intro, p0, G), p.ok,
           NEW c, c.kind \notin {"VerifyConnect", "Disconnect", "Ping", "PMTUProbe"},
           NEW q, PartOK(q), q.peer = p.peer, q.flow = p.flow, q.queue = p.queue, q.ok = p.ok,
           SameEstimates(q.congestion, p.congestion)
    PROVE  PacketInv(q, Observe(h, c), intro, p0, G)
<1>1. HistoryOK(p, h, G)
  BY DEF PacketInv
<1>2. Observe(h, c) = h
  BY <1>1, ObserveOther
<1>3. HistoryOK(q, h, G)
  BY <1>1 DEF HistoryOK
<1>. QED
  BY <1>2, <1>3 DEF PacketInv, SameEstimates

(* The limits and the throttle that the remote sets.                        *)
LEMMA LimitsReplaced ==
    ASSUME NEW a, NEW b, NEW c, NEW d, NEW e, NEW f, NEW g, NEW x, NEW y,
           NEW p, p = [peer |-> a, flow |-> b, congestion |-> c, bandwidth |-> d,
                       queue |-> e, drawn |-> f, ok |-> g],
           NEW q, q = [p EXCEPT !.bandwidth.incoming_limit = x, !.bandwidth.outgoing_limit = y]
    PROVE  q = [peer |-> a, flow |-> b, congestion |-> c,
                bandwidth |-> [d EXCEPT !.incoming_limit = x, !.outgoing_limit = y],
                queue |-> e, drawn |-> f, ok |-> g]
OBVIOUS

LEMMA LimitStep ==
    ASSUME NEW p, NEW h, NEW intro, NEW p0, NEW G, PacketInv(p, h, intro, p0, G), p.ok,
           NEW c, IsCommand(c), c.kind = "BandwidthLimit"
    PROVE  PacketInv(ProcessCommand(p, c), Observe(h, c), intro, p0, G)
<1>. DEFINE q == ProcessCommand(p, c)
            b == [p.bandwidth EXCEPT !.incoming_limit = c.args.incoming, !.outgoing_limit = c.args.outgoing]
<1>1. PartOK(p)
  BY DEF PacketInv
<1>2. q = [p EXCEPT !.bandwidth.incoming_limit = c.args.incoming, !.bandwidth.outgoing_limit = c.args.outgoing]
  BY DEF ProcessCommand, OnBandwidthLimit
<1>3. q = [peer |-> p.peer, flow |-> p.flow, congestion |-> p.congestion, bandwidth |-> b,
           queue |-> p.queue, drawn |-> p.drawn, ok |-> p.ok]
  <2>1. PICK a1, b1, c1, d1, e1, f1, g1 : p = [peer |-> a1, flow |-> b1, congestion |-> c1, bandwidth |-> d1,
                                        queue |-> e1, drawn |-> f1, ok |-> g1]
    BY <1>1 DEF PartOK
  <2>. HIDE DEF q
  <2>. QED
    BY <1>2, <2>1, LimitsReplaced
<1>4. b \in BandwidthRecords
  <2>1. c.args.incoming \in Nat /\ c.args.outgoing \in Nat
    BY LimitFields, Widths
  <2>. QED
    BY <1>1, <2>1 DEF PartOK, BandwidthRecords
<1>. HIDE DEF q, b
<1>5. /\ PartOK(q) /\ q.peer = p.peer /\ q.flow = p.flow /\ q.congestion = p.congestion
      /\ q.ok = p.ok /\ q.queue = p.queue
  BY <1>1, <1>3, <1>4 DEF PartOK
<1>6. SameEstimates(q.congestion, p.congestion)
  BY <1>5 DEF SameEstimates
<1>. QED
  BY <1>5, <1>6, SameStep DEF q

LEMMA ThrottleStep ==
    ASSUME NEW p, NEW h, NEW intro, NEW p0, NEW G, PacketInv(p, h, intro, p0, G), p.ok,
           NEW c, IsCommand(c), c.kind = "ThrottleConfigure"
    PROVE  PacketInv(ProcessCommand(p, c), Observe(h, c), intro, p0, G)
<1>. DEFINE q == ProcessCommand(p, c)
            cc == ConfigureThrottle(p.congestion, c.args.interval, c.args.acceleration, c.args.deceleration)
<1>1. PartOK(p)
  BY DEF PacketInv
<1>2. q = [p EXCEPT !.congestion = cc]
  <2>1. PICK a1, b1, c1, d1, e1, f1, g1 : p = [peer |-> a1, flow |-> b1, congestion |-> c1, bandwidth |-> d1,
                                        queue |-> e1, drawn |-> f1, ok |-> g1]
    BY <1>1 DEF PartOK
  <2>. QED
    BY <2>1 DEF ProcessCommand, OnThrottleConfigure
<1>3. cc \in CongestionRecords /\ SameEstimates(cc, p.congestion)
  <2>1. /\ c.args.interval \in Nat /\ c.args.acceleration \in 0 .. WordMax /\ c.args.deceleration \in Nat
    BY ThrottleFields, Widths, PeerControlAssumption
  <2>2. p.congestion \in CongestionRecords
    BY <1>1 DEF PartOK
  <2>3. cc = [p.congestion EXCEPT !.interval = c.args.interval, !.acceleration = c.args.acceleration,
                                  !.deceleration = c.args.deceleration]
    BY DEF ConfigureThrottle
  <2>. HIDE DEF cc
  <2>4. cc \in CongestionRecords
    BY <2>1, <2>2, <2>3 DEF CongestionRecords
  <2>5. SameEstimates(cc, p.congestion)
    BY <2>2, <2>3 DEF CongestionRecords, SameEstimates
  <2>. QED
    BY <2>4, <2>5
<1>. HIDE DEF q, cc
<1>4. q = [peer |-> p.peer, flow |-> p.flow, congestion |-> cc, bandwidth |-> p.bandwidth,
           queue |-> p.queue, drawn |-> p.drawn, ok |-> p.ok]
  <2>1. PICK a1, b1, c1, d1, e1, f1, g1 : p = [peer |-> a1, flow |-> b1, congestion |-> c1, bandwidth |-> d1,
                                        queue |-> e1, drawn |-> f1, ok |-> g1]
    BY <1>1 DEF PartOK
  <2>. QED
    BY <1>2, <2>1
<1>5. /\ PartOK(q) /\ q.peer = p.peer /\ q.flow = p.flow /\ q.congestion = cc
      /\ q.ok = p.ok /\ q.queue = p.queue
  BY <1>1, <1>3, <1>4 DEF PartOK
<1>. QED
  BY <1>3, <1>5, SameStep DEF q

(* Commands that are only encoded here.                                     *)
LEMMA OtherStep ==
    ASSUME NEW p, NEW h, NEW intro, NEW p0, NEW G, PacketInv(p, h, intro, p0, G), p.ok,
           NEW c, c.kind \notin {"Ping", "Disconnect", "Connect", "VerifyConnect", "BandwidthLimit",
                                 "ThrottleConfigure", "PMTUProbe"}
    PROVE  PacketInv(ProcessCommand(p, c), Observe(h, c), intro, p0, G)
<1>1. ProcessCommand(p, c) = p
  BY DEF ProcessCommand
<1>2. HistoryOK(p, h, G)
  BY DEF PacketInv
<1>3. Observe(h, c) = h
  BY <1>2, ObserveOther
<1>. QED
  BY <1>1, <1>3

(* Parts of the peer replaced.                                              *)
LEMMA PartsReplaced ==
    ASSUME NEW a, NEW b, NEW c, NEW d, NEW e, NEW f, NEW g, NEW pr, NEW fl, NEW k,
           NEW p, p = [peer |-> a, flow |-> b, congestion |-> c, bandwidth |-> d,
                       queue |-> e, drawn |-> f, ok |-> g],
           NEW q, q = [p EXCEPT !.peer = pr, !.flow = fl, !.ok = k]
    PROVE  q = [peer |-> pr, flow |-> fl, congestion |-> c, bandwidth |-> d,
                queue |-> e, drawn |-> f, ok |-> k]
OBVIOUS

LEMMA PeerReplaced ==
    ASSUME NEW a, NEW b, NEW c, NEW d, NEW e, NEW f, NEW g, NEW pr,
           NEW p, p = [peer |-> a, flow |-> b, congestion |-> c, bandwidth |-> d,
                       queue |-> e, drawn |-> f, ok |-> g],
           NEW q, q = [p EXCEPT !.peer = pr]
    PROVE  q = [peer |-> pr, flow |-> b, congestion |-> c, bandwidth |-> d,
                queue |-> e, drawn |-> f, ok |-> g]
OBVIOUS

LEMMA BandwidthReplaced ==
    ASSUME NEW a, NEW b, NEW c, NEW d, NEW e, NEW f, NEW g, NEW x,
           NEW p, p = [peer |-> a, flow |-> b, congestion |-> c, bandwidth |-> d,
                       queue |-> e, drawn |-> f, ok |-> g],
           NEW q, q = [p EXCEPT !.bandwidth = x]
    PROVE  q = [peer |-> a, flow |-> b, congestion |-> c, bandwidth |-> x,
                queue |-> e, drawn |-> f, ok |-> g]
OBVIOUS

(* A CONNECT that an idle peer takes.                                       *)
LEMMA ConnectStep ==
    ASSUME NEW p, NEW h, NEW intro, NEW p0, NEW G, PacketInv(p, h, intro, p0, G), p.ok,
           NEW c \in intro, IsCommand(c), c.kind = "Connect"
    PROVE  PacketInv(ProcessCommand(p, c), Observe(h, c), intro, p0, G)
<1>. DEFINE r == ProcessCommand(p, c)
            g == Observe(h, c)
            a == c.args
            pr == [state |-> OnConnect(p.peer.state), peer_id |-> p.drawn,
                   incoming_session_id |-> a.outgoing_session_id, connect_id |-> a.connect_id]
            q == [p EXCEPT !.peer = pr]
            args == [peer_id |-> p.drawn, channels |-> AtMost(a.channels, ChannelCount), mtu |-> Mtu,
                     incoming_session_id |-> a.outgoing_session_id,
                     outgoing_session_id |-> OwnSessionId, window_size |-> p.flow.window_size]
<1>1. PartOK(p) /\ HistoryOK(p, h, G)
  BY DEF PacketInv
<1>2. g = h
  BY <1>1, ObserveOther
<1>3. r = IF p.peer.state # "Idle" THEN p ELSE Answer(q, "VerifyConnect", args)
  BY DEF ProcessCommand, TakeConnect
<1>4. CASE p.peer.state # "Idle"
  BY <1>2, <1>3, <1>4
<1>5. CASE p.peer.state = "Idle"
  <2>1. /\ a.channels \in 0 .. Base - 1 /\ a.outgoing_session_id \in 0 .. U16 - 1
        /\ a.connect_id \in 0 .. U32 - 1
    BY ConnectFields
  <2>2. pr \in PeerRecords /\ pr.state = "AcknowledgingConnect"
    BY <1>1, <1>5, <2>1 DEF PartOK, PeerRecords, PeerStates, OnConnect
  <2>3. IntroducedBy(pr, c)
    BY DEF IntroducedBy
  <2>4. IsCommand(Command("VerifyConnect", args))
    <3>1. AtMost(a.channels, ChannelCount) \in 0 .. Base - 1
      BY <2>1, PeerControlAssumption, Widths DEF AtMost
    <3>2. p.flow.window_size \in 0 .. U32 - 1 /\ p.drawn \in 0 .. U16 - 1
      BY <1>1, WindowLimits DEF PartOK, FlowRecords
    <3>3. Mtu \in 0 .. U16 - 1 /\ OwnSessionId \in 0 .. U16 - 1
      BY PeerControlAssumption
    <3>. QED
      BY <2>1, <3>1, <3>2, <3>3, VerifyIsCommand
  <2>. HIDE DEF args, pr
  <2>5. q = [peer |-> pr, flow |-> p.flow, congestion |-> p.congestion, bandwidth |-> p.bandwidth,
             queue |-> p.queue, drawn |-> p.drawn, ok |-> p.ok]
    <3>1. PICK a1, b1, c1, d1, e1, f1, g1 : p = [peer |-> a1, flow |-> b1, congestion |-> c1,
                                          bandwidth |-> d1, queue |-> e1, drawn |-> f1, ok |-> g1]
      BY <1>1 DEF PartOK
    <3>2. q = [p EXCEPT !.peer = pr]
      OBVIOUS
    <3>. HIDE DEF q
    <3>3. q = [peer |-> pr, flow |-> b1, congestion |-> c1, bandwidth |-> d1,
               queue |-> e1, drawn |-> f1, ok |-> g1]
      BY <3>1, <3>2, PeerReplaced
    <3>. QED
      BY <3>1, <3>3
  <2>. HIDE DEF q
  <2>6. /\ PartOK(q) /\ q.peer = pr /\ q.flow = p.flow /\ q.congestion = p.congestion
        /\ q.ok = p.ok /\ q.queue = p.queue
    BY <1>1, <2>2, <2>5 DEF PartOK
  <2>7. r = Answer(q, "VerifyConnect", args)
    BY <1>3, <1>5
  <2>. DEFINE v == Command("VerifyConnect", args)
  <2>8. v.kind = "VerifyConnect"
    BY DEF Command
  <2>. HIDE DEF r, g
  <2>9. /\ PartOK(r)
        /\ r = [peer |-> q.peer, flow |-> q.flow, congestion |-> q.congestion,
                bandwidth |-> q.bandwidth, queue |-> Append(q.queue, v), drawn |-> q.drawn, ok |-> q.ok]
        /\ AnswersIn(r.queue) = WithAnswer(AnswersIn(q.queue), v)
    <3>1. PartOK(q)
      BY <2>6
    <3>. QED
      BY <2>4, <2>7, <3>1, AnswerStep
  <2>. HIDE DEF v
  <2>10. r.peer = pr /\ r.flow = p.flow /\ r.congestion = p.congestion /\ r.ok = p.ok
    BY <2>6, <2>9
  <2>11. AnswersIn(r.queue) = AnswersIn(p.queue)
    BY <2>6, <2>8, <2>9 DEF WithAnswer
  <2>12. HistoryOK(r, h, G)
    BY <1>1, <1>5, <2>2, <2>10, <2>11 DEF HistoryOK
  <2>13. Introduced(r.peer, intro)
    BY <2>3, <2>10 DEF Introduced
  <2>. QED
    BY <1>2, <2>9, <2>10, <2>12, <2>13 DEF PacketInv, r, g
<1>. QED
  BY <1>4, <1>5

(* A VERIFY_CONNECT that a connecting peer takes or refuses.                *)
LEMMA VerifyStep ==
    ASSUME NEW p, NEW h, NEW intro, NEW p0, NEW G, PacketInv(p, h, intro, p0, G), p.ok,
           NEW c \in intro, IsCommand(c), c.kind = "VerifyConnect"
    PROVE  PacketInv(ProcessCommand(p, c), Observe(h, c), intro, p0, G)
<1>. DEFINE r == ProcessCommand(p, c)
            g == Observe(h, c)
            a == c.args
            known == a.outgoing_session_id = OwnSessionId
            w == AtMost(a.window_size, p.flow.window_size)
            pr == [p.peer EXCEPT !.peer_id = a.peer_id, !.incoming_session_id = a.incoming_session_id,
                                 !.state = IF known THEN OnVerifyConnect(@) ELSE @]
            fl == IF UseWindowFlowControl THEN SetWindowSize(p.flow, w) ELSE p.flow
<1>1. PartOK(p) /\ HistoryOK(p, h, G) /\ ~h.refused
  BY DEF PacketInv, HistoryOK
<1>2. CASE p.peer.state # "Connecting"
  <2>1. r = p
    BY <1>2 DEF ProcessCommand, TakeVerify
  <2>2. h.connecting = FALSE
    BY <1>1, <1>2 DEF HistoryOK
  <2>3. g = [connecting |-> FALSE, refused |-> FALSE, offers |-> h.offers, due |-> h.due]
    BY <1>1, <2>2 DEF Observe
  <2>4. g = h
    BY <1>1, <2>2, <2>3 DEF HistoryOK
  <2>. QED
    BY <2>1, <2>4
<1>3. CASE p.peer.state = "Connecting"
  <2>1. /\ a.peer_id \in 0 .. U16 - 1 /\ a.incoming_session_id \in 0 .. U16 - 1
        /\ a.window_size \in Nat
    BY VerifyFields, Widths
  <2>2. h.connecting = TRUE
    BY <1>1, <1>3 DEF HistoryOK
  <2>3. g = [connecting |-> ~known, refused |-> ~known, offers |-> h.offers \cup {a.window_size},
             due |-> h.due]
    BY <1>1, <2>2 DEF Observe
  <2>4. r = [peer |-> pr, flow |-> fl, congestion |-> p.congestion, bandwidth |-> p.bandwidth,
             queue |-> p.queue, drawn |-> p.drawn, ok |-> known]
    <3>1. PICK a1, b1, c1, d1, e1, f1, g1 : p = [peer |-> a1, flow |-> b1, congestion |-> c1,
                                          bandwidth |-> d1, queue |-> e1, drawn |-> f1, ok |-> g1]
      BY <1>1 DEF PartOK
    <3>3. ProcessCommand(p, c) = TakeVerify(p, a)
      BY DEF ProcessCommand
    <3>4. TakeVerify(p, a) = [p EXCEPT !.peer = pr, !.flow = fl, !.ok = known]
      <4>. PICK t : t = TakeVerify(p, a)
        OBVIOUS
      <4>1. t = [p EXCEPT !.peer = pr, !.flow = fl, !.ok = known]
        BY <1>3, <3>1 DEF TakeVerify
      <4>. QED
        BY <4>1
    <3>. HIDE DEF pr, fl, known
    <3>5. TakeVerify(p, a) = [peer |-> pr, flow |-> fl, congestion |-> c1, bandwidth |-> d1,
                              queue |-> e1, drawn |-> f1, ok |-> known]
      BY <3>1, <3>4, PartsReplaced
    <3>. QED
      BY <3>1, <3>3, <3>5
  <2>5. /\ pr \in PeerRecords /\ pr.state = (IF known THEN "ConnectionSucceeded" ELSE "Connecting")
        /\ pr.peer_id = a.peer_id /\ pr.incoming_session_id = a.incoming_session_id
    BY <1>1, <1>3, <2>1 DEF PartOK, PeerRecords, PeerStates, OnVerifyConnect
  <2>6. /\ p.flow \in FlowRecords /\ p.flow.window_size \in MinWindow .. MaxWindow
        /\ MinWindow \in Nat /\ MaxWindow \in Nat /\ MinWindow <= MaxWindow
    BY <1>1, FlowControlAssumption DEF PartOK, FlowRecords
  <2>. DEFINE z == AtMost(AtLeast(w, MinWindow), MaxWindow)
  <2>7. w \in Nat /\ z \in MinWindow .. MaxWindow
    BY <2>1, <2>6 DEF AtMost, AtLeast
  <2>8. /\ fl \in FlowRecords /\ fl.reliable_data_in_transit = p.flow.reliable_data_in_transit
        /\ UseWindowFlowControl => fl.window_size = z
    <3>. HIDE DEF w
    <3>1. SetWindowSize(p.flow, w) = [p.flow EXCEPT !.window_size = z]
      BY DEF SetWindowSize
    <3>. HIDE DEF z
    <3>. QED
      BY <2>6, <2>7, <3>1 DEF FlowRecords
  <2>9. UseWindowFlowControl /\ G => fl.window_size = Negotiated(h.offers \cup {a.window_size})
    <3>. SUFFICES ASSUME UseWindowFlowControl, G
                  PROVE  fl.window_size = Negotiated(h.offers \cup {a.window_size})
      OBVIOUS
    <3>1. p.flow.window_size = Negotiated(h.offers) /\ h.offers \subseteq Nat
      BY <1>1 DEF HistoryOK
    <3>2. z = Negotiated(h.offers \cup {a.window_size})
      BY <2>1, <3>1, OneMoreOffer
    <3>. QED
      BY <2>8, <3>2
  <2>10. known \in BOOLEAN /\ h.offers \cup {a.window_size} \subseteq Nat
    BY <1>1, <2>1 DEF HistoryOK
  <2>11. known => IntroducedBy(pr, c)
    BY <2>5 DEF IntroducedBy
  <2>. HIDE DEF r, g, pr, fl, known, z, w
  <2>12. /\ PartOK(r) /\ r.peer = pr /\ r.flow = fl /\ r.congestion = p.congestion
         /\ r.ok = known /\ r.queue = p.queue
    BY <1>1, <2>4, <2>5, <2>8, <2>10 DEF PartOK
  <2>13. HistoryOK(r, g, G)
    <3>1. g = [connecting |-> g.connecting, refused |-> g.refused, offers |-> g.offers, due |-> g.due]
      BY <2>3
    <3>2. /\ g.connecting = ~known /\ g.refused = ~known /\ g.offers = h.offers \cup {a.window_size}
          /\ g.due = h.due
      BY <2>3
    <3>3. r.peer.state = "Connecting" <=> ~known
      BY <2>5, <2>12
    <3>4. AnswersIn(r.queue) = g.due
      BY <1>1, <2>12, <3>2 DEF HistoryOK
    <3>. HIDE DEF a
    <3>. QED
      BY <2>9, <2>10, <2>12, <3>1, <3>2, <3>3, <3>4 DEF HistoryOK
  <2>14. Introduced(r.peer, intro)
    BY <2>5, <2>11, <2>12 DEF Introduced
  <2>. QED
    BY <2>8, <2>12, <2>13, <2>14 DEF PacketInv, r, g
<1>. QED
  BY <1>2, <1>3

LEMMA CommandStep ==
    ASSUME NEW p, NEW h, NEW intro, NEW p0, NEW G, PacketInv(p, h, intro, p0, G),
           NEW c, IsCommand(c), c.kind \in {"Connect", "VerifyConnect"} => c \in intro
    PROVE  PacketInv(ProcessIfOk(p, c), Observe(h, c), intro, p0, G)
<1>1. CASE ~p.ok
  <2>1. ProcessIfOk(p, c) = p
    BY <1>1 DEF ProcessIfOk
  <2>2. h.refused
    BY <1>1 DEF PacketInv, HistoryOK
  <2>3. Observe(h, c) = h
    BY <2>2 DEF Observe
  <2>. QED
    BY <2>1, <2>3
<1>2. CASE p.ok
  <2>1. ProcessIfOk(p, c) = ProcessCommand(p, c)
    BY <1>2 DEF ProcessIfOk
  <2>2. CASE c.kind \in {"Ping", "PMTUProbe"}
    BY <1>2, <2>1, <2>2, RequestStep
  <2>3. CASE c.kind = "Disconnect"
    BY <1>2, <2>1, <2>3, DisconnectStep
  <2>4. CASE c.kind = "Connect"
    BY <1>2, <2>1, <2>4, ConnectStep
  <2>5. CASE c.kind = "VerifyConnect"
    BY <1>2, <2>1, <2>5, VerifyStep
  <2>6. CASE c.kind = "BandwidthLimit"
    BY <1>2, <2>1, <2>6, LimitStep
  <2>7. CASE c.kind = "ThrottleConfigure"
    BY <1>2, <2>1, <2>7, ThrottleStep
  <2>8. CASE c.kind \notin {"Ping", "Disconnect", "Connect", "VerifyConnect", "BandwidthLimit",
                            "ThrottleConfigure", "PMTUProbe"}
    BY <1>2, <2>1, <2>8, OtherStep
  <2>. QED
    BY <2>2, <2>3, <2>4, <2>5, <2>6, <2>7, <2>8
<1>. QED
  BY <1>1, <1>2

(* The commands of a packet, up to the first that fails.                    *)
LEMMA PacketStep ==
    ASSUME NEW p, NEW h, NEW intro, NEW G, PacketInv(p, h, intro, p, G), NEW cs, AreCommands(cs),
           Introductions(cs) \subseteq intro
    PROVE  PacketInv(ProcessCommands(p, cs), FoldLeft(Observe, h, cs), intro, p, G)
<1>. DEFINE n == Len(cs)
<1>1. n \in Nat /\ DOMAIN cs = 1 .. n /\ \A i \in 1 .. n : IsCommand(cs[i])
  BY CommandsForm
<1>2. \A i \in 1 .. n : cs[i].kind \in {"Connect", "VerifyConnect"} => cs[i] \in intro
  BY <1>1 DEF Introductions, Range
<1>. HIDE DEF n
<1>3. PICK f : /\ f[0] = p
               /\ \A i \in 0 .. n - 1 : f[i + 1] = ProcessIfOk(f[i], cs[i + 1])
               /\ Processed!Folded(p, cs) = f[n]
  <2>1. n \in Nat /\ DOMAIN cs = 1 .. n
    BY <1>1
  <2>2. PICK f : Processed!PrefixValues(p, cs, n, f)
    BY <2>1, Processed!FoldHasValues
  <2>. QED
    BY <2>2 DEF Processed!PrefixValues
<1>4. PICK e : /\ e[0] = h
               /\ \A i \in 0 .. n - 1 : e[i + 1] = Observe(e[i], cs[i + 1])
               /\ Views!Folded(h, cs) = e[n]
  <2>1. n \in Nat /\ DOMAIN cs = 1 .. n
    BY <1>1
  <2>2. PICK e : Views!PrefixValues(h, cs, n, e)
    BY <2>1, Views!FoldHasValues
  <2>. QED
    BY <2>2 DEF Views!PrefixValues
<1>. DEFINE S == {i \in Nat : i <= n => PacketInv(f[i], e[i], intro, p, G)}
<1>5. 0 \in S
  BY <1>3, <1>4
<1>6. ASSUME NEW i \in Nat, i \in S PROVE i + 1 \in S
  <2>. SUFFICES ASSUME i + 1 <= n PROVE PacketInv(f[i + 1], e[i + 1], intro, p, G)
    OBVIOUS
  <2>1. i \in 0 .. n - 1 /\ i + 1 \in 1 .. n /\ PacketInv(f[i], e[i], intro, p, G)
    BY <1>1, <1>6
  <2>. DEFINE c == cs[i + 1]
  <2>2. IsCommand(c) /\ (c.kind \in {"Connect", "VerifyConnect"} => c \in intro)
    BY <1>1, <1>2, <2>1
  <2>3. f[i + 1] = ProcessIfOk(f[i], c) /\ e[i + 1] = Observe(e[i], c)
    BY <1>3, <1>4, <2>1
  <2>. HIDE DEF c
  <2>. QED
    BY <2>1, <2>2, <2>3, CommandStep
<1>7. Nat \subseteq S
  <2>. HIDE DEF S
  <2>. QED
    BY <1>5, <1>6, Numbers!SetInduction
<1>8. PacketInv(f[n], e[n], intro, p, G)
  BY <1>1, <1>7
<1>. QED
  BY <1>3, <1>4, <1>8, ProcessedIsFold, ViewsIsFold DEF ProcessCommands

-----------------------------------------------------------------------------
(* The round-trip estimate. *)

(* The least and the greatest sample.                                       *)
Bracket(T, lo, hi) == T \subseteq Nat /\ lo \in T /\ hi \in T /\ \A y \in T : lo <= y /\ y <= hi

LEMMA BracketIs ==
    ASSUME NEW T, NEW lo, NEW hi, Bracket(T, lo, hi)
    PROVE  Min(T) = lo /\ Max(T) = hi /\ lo \in Nat /\ hi \in Nat /\ lo <= hi
<1>1. lo \in Nat /\ hi \in Nat /\ T \subseteq Nat
  BY DEF Bracket
<1>2. \A x \in T : (\A y \in T : x <= y) => x = lo
  BY <1>1 DEF Bracket
<1>3. \A x \in T : (\A y \in T : x >= y) => x = hi
  BY <1>1 DEF Bracket
<1>4. \A y \in T : lo <= y /\ hi >= y
  BY <1>1 DEF Bracket
<1>5. lo \in T /\ hi \in T /\ lo <= hi
  BY DEF Bracket
<1>6. Min(T) = lo
  BY <1>2, <1>4, <1>5 DEF Min
<1>7. Max(T) = hi
  BY <1>3, <1>4, <1>5 DEF Max
<1>. QED
  BY <1>1, <1>5, <1>6, <1>7

LEMMA BracketMore ==
    ASSUME NEW T, NEW lo, NEW hi, Bracket(T, lo, hi), NEW s \in Nat
    PROVE  Bracket(T \cup {s}, Lesser(s, lo), Greater(s, hi))
BY DEF Bracket, Lesser, Greater

(* What the samples say of the estimate.                                    *)
EstimateOK(cc, T) ==
    \E lo \in T, hi \in T :
                /\ Bracket(T, lo, hi)
                /\ cc.rtt \in lo - 1 .. hi
                /\ cc.rtt_variance <= AtLeast(25, hi - lo + 1)

LEMMA EstimateStep ==
    ASSUME NEW cc \in CongestionRecords, NEW T, EstimateOK(cc, T), NEW s \in Nat,
           NEW dd \in UpdateRtt(cc, s)
    PROVE  /\ dd \in CongestionRecords /\ EstimateOK(dd, T \cup {s})
           /\ dd.packets_lost = cc.packets_lost /\ dd.throttle = cc.throttle
           /\ dd.packet_throttle = cc.packet_throttle /\ dd.advanced = cc.advanced
<1>1. PICK lo, hi : /\ Bracket(T, lo, hi)
                    /\ cc.rtt \in lo - 1 .. hi
                    /\ cc.rtt_variance <= AtLeast(25, hi - lo + 1)
  BY DEF EstimateOK
<1>2. lo \in Nat /\ hi \in Nat /\ lo <= hi
  BY <1>1, BracketIs
<1>. DEFINE r == cc.rtt
            v == cc.rtt_variance
            ten == 9 * r + s
            var == (3 * v + Distance(r, s)) \div 4
            l == Lesser(s, lo)
            u == Greater(s, hi)
<1>3. r \in Nat /\ v \in Nat
  BY DEF CongestionRecords
<1>4. PICK low \in {0, 1} : /\ low = 1 => ten % 10 = 0 /\ ten > 0
                            /\ dd = [cc EXCEPT !.rtt = ten \div 10 - low, !.rtt_variance = var]
  <2>. DEFINE rounded == IF ten % 10 = 0 /\ ten > 0 THEN {0, 1} ELSE {0}
              New(low) == [cc EXCEPT !.rtt = ten \div 10 - low, !.rtt_variance = var]
  <2>1. dd \in {New(low) : low \in rounded}
    BY DEF UpdateRtt, Fraction
  <2>. HIDE DEF New, rounded
  <2>2. PICK low \in rounded : dd = New(low)
    BY <2>1
  <2>3. low \in {0, 1} /\ (low = 1 => ten % 10 = 0 /\ ten > 0)
    BY <2>2 DEF rounded
  <2>. QED
    BY <2>2, <2>3, Zenon DEF New
<1>. DEFINE rr == ten \div 10 - low
<1>5. r >= lo - 1 /\ r <= hi /\ v <= AtLeast(25, hi - lo + 1)
  BY <1>1, <1>2, <1>3
<1>6. dd.rtt = rr /\ dd.rtt_variance = var
  BY <1>4 DEF CongestionRecords
<1>. HIDE DEF r, v
<1>7. l \in Nat /\ u \in Nat /\ l <= lo /\ hi <= u /\ l <= s /\ s <= u
  BY <1>2 DEF Lesser, Greater
<1>8. r >= l - 1 /\ r <= u /\ l <= u
  BY <1>2, <1>3, <1>5, <1>7
<1>. HIDE DEF l, u
<1>9. rr \in Nat /\ rr >= l - 1 /\ rr <= u
  BY <1>3, <1>4, <1>7, <1>8
<1>10. Distance(r, s) \in Nat /\ Distance(r, s) <= u - l + 1
  BY <1>3, <1>7, <1>8 DEF Distance
<1>11. var \in Nat /\ var <= AtLeast(25, u - l + 1)
  <2>. DEFINE d == Distance(r, s)
              a == AtLeast(25, u - l + 1)
  <2>1. d \in Nat /\ d <= a /\ a \in Nat /\ v <= a
    BY <1>2, <1>3, <1>5, <1>7, <1>10 DEF AtLeast
  <2>. HIDE DEF d, a
  <2>2. (3 * v + d) \div 4 \in Nat /\ (3 * v + d) \div 4 <= a
    BY <1>3, <2>1
  <2>. QED
    BY <2>2 DEF d, a
<1>. HIDE DEF rr, var
<1>12. dd \in CongestionRecords
  BY <1>4, <1>9, <1>11 DEF CongestionRecords, rr
<1>13. EstimateOK(dd, T \cup {s})
  <2>1. Bracket(T \cup {s}, l, u)
    BY <1>1, BracketMore DEF l, u
  <2>2. dd.rtt \in l - 1 .. u
    BY <1>6, <1>7, <1>9
  <2>3. l \in T \cup {s} /\ u \in T \cup {s}
    BY <2>1 DEF Bracket
  <2>. QED
    BY <1>6, <1>11, <2>1, <2>2, <2>3, Zenon DEF EstimateOK
<1>. QED
  BY <1>4, <1>12, <1>13 DEF CongestionRecords

(* RttIsBracketed, from it.                                                 *)
LEMMA EstimateBrackets ==
    ASSUME NEW cc \in CongestionRecords, NEW T, EstimateOK(cc, T)
    PROVE  /\ cc.rtt \in Min(T) - 1 .. Max(T)
           /\ Rto(cc) <= Max(T) + 4 * AtLeast(25, Max(T) - Min(T) + 1)
<1>1. PICK lo, hi : /\ Bracket(T, lo, hi)
                    /\ cc.rtt \in lo - 1 .. hi
                    /\ cc.rtt_variance <= AtLeast(25, hi - lo + 1)
  BY DEF EstimateOK
<1>2. lo \in Nat /\ hi \in Nat /\ Min(T) = lo /\ Max(T) = hi
  BY <1>1, BracketIs
<1>3. cc.rtt \in Nat /\ cc.rtt_variance \in Nat
  BY DEF CongestionRecords
<1>. QED
  BY <1>1, <1>2, <1>3 DEF Rto, AtLeast

-----------------------------------------------------------------------------
(* The throttle. *)

(* Losses counted are fresh, and the probability follows the throttle.      *)
ThrottleOK(cc, fresh) ==
    /\ cc.packets_lost > 0 => fresh
    /\ cc.advanced => cc.throttle = FullThrottle - 20 * cc.packet_throttle

LEMMA LossIsFresh ==
    ASSUME NEW cc \in CongestionRecords, NEW fresh, ThrottleOK(cc, fresh), NEW den \in {20, 100},
           LossAbove(cc, den)
    PROVE  fresh
<1>1. cc.packets_lost \in Nat /\ cc.packets_sent \in Nat
  BY DEF CongestionRecords
<1>2. cc.packets_lost > 0
  BY <1>1 DEF LossAbove
<1>. QED
  BY <1>2 DEF ThrottleOK

(* The rate is not above a threshold and below a smaller one.               *)
LEMMA LossExcludes ==
    ASSUME NEW cc \in CongestionRecords
    PROVE  /\ LossAbove(cc, 20) => ~LossBelow(cc, 100)
           /\ LossAbove(cc, 100) => ~LossBelow(cc, 200)
<1>1. cc.packets_lost \in Nat /\ cc.packets_sent \in Nat
  BY DEF CongestionRecords
<1>. QED
  BY <1>1 DEF LossAbove, LossBelow

(* The two ways to move the throttle.                                       *)
Moved(cc, dd, fresh) ==
    /\ dd \in CongestionRecords
    /\ dd.rtt = cc.rtt /\ dd.rtt_variance = cc.rtt_variance /\ dd.advanced = cc.advanced
    /\ dd.advanced => dd.throttle = FullThrottle - 20 * dd.packet_throttle
    /\ dd.throttle > cc.throttle => fresh \/ cc.acceleration > WordMax - Scale
    /\ dd.throttle # 0 /\ cc.throttle = 0 => fresh

LEMMA SimpleMoves ==
    ASSUME NEW cc \in CongestionRecords, NEW fresh \in BOOLEAN, ThrottleOK(cc, fresh), ~cc.advanced
    PROVE  Moved(cc, UpdateSimple(cc), fresh)
<1>. DEFINE t == cc.throttle
<1>1. Scale \in Nat /\ Scale >= 1 /\ FullThrottle = 20 * Scale /\ t \in 0 .. FullThrottle
  BY CongestionAssumption DEF FullThrottle, CongestionRecords
<1>. DEFINE up == Lesser(t + 2 * Scale, FullThrottle)
            down == Greater(t - Scale, 0)
<1>2. up \in 0 .. FullThrottle /\ down \in 0 .. FullThrottle /\ down <= t
  BY <1>1 DEF Lesser, Greater
<1>3. CASE LossAbove(cc, 20)
  <2>1. fresh
    BY <1>3, LossIsFresh
  <2>2. UpdateSimple(cc) = [cc EXCEPT !.throttle = up]
    BY <1>3, LossExcludes DEF UpdateSimple
  <2>. HIDE DEF up, t
  <2>. QED
    BY <1>2, <2>1, <2>2 DEF Moved, CongestionRecords
<1>4. CASE ~LossAbove(cc, 20) /\ LossBelow(cc, 100) /\ cc.throttle > 0
  <2>1. UpdateSimple(cc) = [cc EXCEPT !.throttle = down]
    BY <1>4 DEF UpdateSimple
  <2>2. t \in Nat /\ down \in Nat /\ t # 0
    BY <1>1, <1>2, <1>4
  <2>. HIDE DEF down
  <2>3. /\ [cc EXCEPT !.throttle = down] \in CongestionRecords
        /\ [cc EXCEPT !.throttle = down].throttle = down
    BY <1>2 DEF CongestionRecords
  <2>4. /\ [cc EXCEPT !.throttle = down].rtt = cc.rtt
        /\ [cc EXCEPT !.throttle = down].rtt_variance = cc.rtt_variance
        /\ [cc EXCEPT !.throttle = down].advanced = cc.advanced
    BY DEF CongestionRecords
  <2>. QED
    BY <1>2, <2>1, <2>2, <2>3, <2>4 DEF Moved
<1>5. CASE ~LossAbove(cc, 20) /\ ~ (LossBelow(cc, 100) /\ cc.throttle > 0)
  <2>1. UpdateSimple(cc) = cc
    BY <1>5 DEF UpdateSimple
  <2>2. ~ (cc.throttle > cc.throttle)
    BY <1>1
  <2>. QED
    BY <2>1, <2>2 DEF Moved
<1>. QED
  BY <1>3, <1>4, <1>5

LEMMA AdvancedMoves ==
    ASSUME NEW cc \in CongestionRecords, NEW fresh \in BOOLEAN, ThrottleOK(cc, fresh), cc.advanced
    PROVE  Moved(cc, UpdateAdvanced(cc), fresh)
<1>. DEFINE t == cc.throttle
            k == cc.packet_throttle
            moved == PacketThrottle(cc)
            a == cc.acceleration
            dd == UpdateAdvanced(cc)
<1>1. /\ Scale \in Nat /\ Scale >= 1 /\ Scale <= WordMax /\ WordMax \in Nat /\ FullThrottle = 20 * Scale
      /\ t \in 0 .. FullThrottle /\ k \in 0 .. Scale /\ a \in 0 .. WordMax /\ cc.deceleration \in Nat
  BY CongestionAssumption DEF FullThrottle, CongestionRecords
<1>2. t = FullThrottle - 20 * k
  BY DEF ThrottleOK
<1>3. PICK m : /\ moved = [cc EXCEPT !.packet_throttle = m] /\ m \in 0 .. Scale
               /\ m < k => fresh \/ a > WordMax - Scale
               /\ m # Scale /\ k = Scale => fresh
  <2>1. CASE LossAbove(cc, 100)
    <3>. DEFINE m == IF k > cc.deceleration THEN k - cc.deceleration ELSE 0
    <3>1. fresh
      BY <2>1, LossIsFresh
    <3>2. moved = [cc EXCEPT !.packet_throttle = m]
      BY <2>1, LossExcludes DEF PacketThrottle, SlowDown
    <3>3. m \in 0 .. Scale
      BY <1>1
    <3>. QED
      BY <3>1, <3>2, <3>3
  <2>2. CASE ~LossAbove(cc, 100) /\ LossBelow(cc, 200) /\ k < Scale
    <3>. DEFINE w == (k + a) % (WordMax + 1)
                m == Lesser(w, Scale)
    <3>1. w \in 0 .. WordMax /\ (a <= WordMax - Scale => w = k + a)
      <4>1. k + a \in Nat /\ WordMax + 1 \in Nat /\ WordMax + 1 > 0
        BY <1>1
      <4>. DEFINE x == k + a
                  d == WordMax + 1
      <4>2. x % d \in 0 .. d - 1
        BY <4>1, Numbers!Division
      <4>3. x < d => x % d = x
        <5>. HIDE DEF x, d
        <5>1. x = d * 0 + x /\ 0 \in Int
          BY <4>1 DEF x, d
        <5>2. x < d => x \in 0 .. d - 1
          BY <4>1 DEF x, d
        <5>. QED
          BY <4>1, <5>1, <5>2, Numbers!DivisionIsUnique DEF x, d
      <4>4. a <= WordMax - Scale => x < d
        BY <1>1
      <4>. QED
        BY <1>1, <4>2, <4>3, <4>4
    <3>2. moved = [cc EXCEPT !.packet_throttle = m]
      BY <2>2 DEF PacketThrottle, SpeedUp
    <3>. HIDE DEF w
    <3>3. m \in 0 .. Scale /\ (a <= WordMax - Scale => m >= k)
      BY <1>1, <2>2, <3>1 DEF Lesser
    <3>. HIDE DEF m
    <3>4. m < k => a > WordMax - Scale
      BY <1>1, <3>3
    <3>5. ~ (k = Scale)
      BY <1>1, <2>2
    <3>. QED
      BY <3>2, <3>3, <3>4, <3>5
  <2>3. CASE ~LossAbove(cc, 100) /\ ~ (LossBelow(cc, 200) /\ k < Scale)
    <3>1. moved = cc
      BY <2>3 DEF PacketThrottle
    <3>2. cc = [cc EXCEPT !.packet_throttle = k]
      BY DEF CongestionRecords
    <3>. HIDE DEF k
    <3>. QED
      BY <1>1, <3>1, <3>2
  <2>. QED
    BY <2>1, <2>2, <2>3
<1>4. dd = [cc EXCEPT !.packet_throttle = m, !.throttle = FullThrottle - 20 * m]
  <2>. HIDE DEF k
  <2>1. moved.packet_throttle = m
    BY <1>3 DEF CongestionRecords
  <2>. QED
    BY <1>3, <2>1 DEF UpdateAdvanced
<1>5. FullThrottle - 20 * m \in 0 .. FullThrottle
  BY <1>1, <1>3
<1>. DEFINE u == FullThrottle - 20 * m
<1>. HIDE DEF dd
<1>6. /\ dd \in CongestionRecords
      /\ dd.rtt = cc.rtt /\ dd.rtt_variance = cc.rtt_variance /\ dd.advanced = cc.advanced
      /\ dd.throttle = FullThrottle - 20 * m /\ dd.packet_throttle = m
  <2>1. u \in 0 .. FullThrottle /\ dd = [cc EXCEPT !.packet_throttle = m, !.throttle = u]
    BY <1>4, <1>5
  <2>. HIDE DEF u
  <2>2. /\ dd \in CongestionRecords
        /\ dd.rtt = cc.rtt /\ dd.rtt_variance = cc.rtt_variance /\ dd.advanced = cc.advanced
        /\ dd.throttle = u /\ dd.packet_throttle = m
    BY <1>3, <2>1 DEF CongestionRecords
  <2>. QED
    BY <2>2 DEF u
<1>. HIDE DEF k, t, a, moved
<1>7. dd.throttle > t => fresh \/ a > WordMax - Scale
  BY <1>1, <1>2, <1>3, <1>6
<1>8. dd.throttle # 0 /\ t = 0 => fresh
  BY <1>1, <1>2, <1>3, <1>6
<1>. QED
  BY <1>6, <1>7, <1>8 DEF Moved, dd, t, a

LEMMA UpdateMoves ==
    ASSUME NEW cc \in CongestionRecords, NEW fresh \in BOOLEAN, ThrottleOK(cc, fresh)
    PROVE  Moved(cc, UpdateThrottle(cc), fresh) /\ ThrottleOK(UpdateThrottle(cc), FALSE)
<1>. DEFINE e == IF cc.advanced THEN UpdateAdvanced(cc) ELSE UpdateSimple(cc)
            dd == UpdateThrottle(cc)
<1>1. Moved(cc, e, fresh)
  BY SimpleMoves, AdvancedMoves
<1>2. dd = [e EXCEPT !.packets_lost = 0, !.packets_sent = 0, !.elapsed = 0]
  BY DEF UpdateThrottle
<1>. HIDE DEF e, dd
<1>3. e \in CongestionRecords
  BY <1>1 DEF Moved
<1>4. /\ dd \in CongestionRecords /\ dd.rtt = e.rtt /\ dd.rtt_variance = e.rtt_variance
      /\ dd.advanced = e.advanced /\ dd.throttle = e.throttle
      /\ dd.packet_throttle = e.packet_throttle /\ dd.packets_lost = 0
  BY <1>2, <1>3 DEF CongestionRecords
<1>5. Moved(cc, dd, fresh)
  BY <1>1, <1>4 DEF Moved
<1>6. ThrottleOK(dd, FALSE)
  BY <1>1, <1>4 DEF Moved, ThrottleOK
<1>. QED
  BY <1>5, <1>6 DEF dd

-----------------------------------------------------------------------------
(* The two encoders, and the size of a datagram. *)

LEMMA SameCommandBytes ==
    ASSUME NEW c
    PROVE  EncodeCommand(c) = EncodeCommandInto(c)
<1>1. EncodeLayout = EncodeIntoLayout
  BY DEF EncodeLayout, EncodeIntoLayout
<1>. QED
  BY <1>1 DEF EncodeCommand, EncodeCommandInto

LEMMA SamePacketBytes ==
    ASSUME NEW cs, AreCommands(cs)
    PROVE  EncodePacket(cs) = EncodePacketInto(cs)
<1>. DEFINE P(i) == LET bytes == EncodeCommand(cs[i]) IN Digits(Len(bytes), 2) \o bytes
<1>1. EncodePacket(cs) = <<Len(cs) % Base>> \o FlattenSeq([i \in DOMAIN cs |-> P(i)])
  BY DEF EncodePacket
<1>2. EncodePacketInto(cs) = <<Len(cs) % Base>> \o FlattenSeq([i \in DOMAIN cs |-> Framed(cs[i])])
  BY DEF EncodePacketInto, Framed
<1>3. ASSUME NEW i \in DOMAIN cs PROVE P(i) = Framed(cs[i])
  <2>1. EncodeCommandInto(cs[i]) \in Bytes
    BY CommandsForm, EncodeCommandType
  <2>2. Len(EncodeCommandInto(cs[i])) \in Nat
    BY <2>1 DEF Bytes
  <2>. QED
    BY <2>2, SameCommandBytes, TwoDigits DEF Framed
<1>. HIDE DEF P
<1>4. [i \in DOMAIN cs |-> P(i)] = [i \in DOMAIN cs |-> Framed(cs[i])]
  BY <1>3
<1>. QED
  BY <1>1, <1>2, <1>4

LEMMA PacketSize ==
    ASSUME NEW cs, AreCommands(cs)
    PROVE  /\ Len(EncodePacketInto(cs)) = 1 + CommandBytes(cs) /\ CommandBytes(cs) \in Nat
<1>. DEFINE n == Len(cs)
            parts == [i \in 1 .. n |-> Framed(cs[i])]
<1>1. n \in Nat /\ DOMAIN cs = 1 .. n
  BY CommandsForm
<1>2. /\ parts \in [1 .. n -> Seq(Byte)]
      /\ Len(EncodePacketInto(cs)) = 1 + Len(FlattenSeq(parts))
  BY EncodePacketType DEF Bytes
<1>3. ASSUME NEW i \in 1 .. n
      PROVE  Len(parts[i]) = 2 + Len(EncodeCommand(cs[i])) /\ Len(parts[i]) \in Nat
  <2>1. IsCommand(cs[i])
    BY <1>1, CommandsForm
  <2>2. Framed(cs[i]) \in Bytes /\ Len(Framed(cs[i])) = 2 + Len(EncodeCommand(cs[i]))
    BY <2>1, FramedType, SameCommandBytes
  <2>3. Len(Framed(cs[i])) \in Nat
    BY <2>2 DEF Bytes
  <2>. QED
    BY <2>2, <2>3
<1>. HIDE DEF n, parts
<1>4. PICK f : Joined(Byte, n, parts, f)
  BY <1>1, <1>2, FlattenType
<1>5. PICK e : /\ e[0] = 0
               /\ \A i \in 0 .. n - 1 : e[i + 1] = WithCommandBytes(e[i], cs[i + 1])
               /\ Totals!Folded(0, cs) = e[n]
  <2>1. PICK zero : zero = 0
    OBVIOUS
  <2>2. \E e : /\ e[0] = zero
               /\ \A i \in 0 .. n - 1 : e[i + 1] = WithCommandBytes(e[i], cs[i + 1])
               /\ Totals!Folded(zero, cs) = e[n]
    <3>1. PICK e : Totals!PrefixValues(zero, cs, n, e)
      BY <1>1, Totals!FoldHasValues
    <3>. QED
      BY <3>1 DEF Totals!PrefixValues
  <2>. QED
    BY <2>1, <2>2
<1>. DEFINE S == {i \in Nat : i <= n => Len(f[i]) = e[i] /\ e[i] \in Nat}
<1>6. 0 \in S
  <2>1. f[0] = << >> /\ Len(<< >>) = 0
    BY <1>4 DEF Joined
  <2>. QED
    BY <1>5, <2>1
<1>7. ASSUME NEW i \in Nat, i \in S PROVE i + 1 \in S
  <2>. SUFFICES ASSUME i + 1 <= n PROVE Len(f[i + 1]) = e[i + 1] /\ e[i + 1] \in Nat
    OBVIOUS
  <2>1. i \in 0 .. n /\ i \in 0 .. n - 1 /\ i + 1 \in 1 .. n /\ Len(f[i]) = e[i] /\ e[i] \in Nat
    BY <1>1, <1>7
  <2>2. f[i] \in Seq(Byte) /\ f[i + 1] = f[i] \o parts[i + 1] /\ parts[i + 1] \in Seq(Byte)
    BY <1>2, <1>4, <2>1 DEF Joined
  <2>3. Len(f[i + 1]) = Len(f[i]) + Len(parts[i + 1])
    BY <2>2, ConcatType
  <2>4. Len(parts[i + 1]) = 2 + Len(EncodeCommand(cs[i + 1])) /\ Len(parts[i + 1]) \in Nat
    BY <1>3, <2>1
  <2>5. e[i + 1] = e[i] + 2 + Len(EncodeCommand(cs[i + 1]))
    BY <1>5, <2>1 DEF WithCommandBytes
  <2>6. parts[i + 1] \in Seq(Byte)
    BY <2>2
  <2>. DEFINE z == Len(EncodeCommand(cs[i + 1]))
              y == Len(parts[i + 1])
              x == e[i]
              v == e[i + 1]
              u == Len(f[i + 1])
  <2>7. z \in Nat
    <3>1. IsCommand(cs[i + 1])
      BY <1>1, <2>1, CommandsForm
    <3>2. EncodeCommand(cs[i + 1]) \in Bytes
      BY <3>1, EncodeCommandType, SameCommandBytes
    <3>. QED
      BY <3>2 DEF Bytes
  <2>8. u = x + y /\ y = 2 + z /\ v = x + 2 + z /\ x \in Nat
    BY <2>1, <2>3, <2>4, <2>5
  <2>. HIDE DEF z, y, x, v, u
  <2>9. u = v /\ v \in Nat
    BY <2>7, <2>8
  <2>. QED
    BY <2>9 DEF u, v
<1>8. Nat \subseteq S
  <2>. HIDE DEF S
  <2>. QED
    BY <1>6, <1>7, Numbers!SetInduction
<1>9. Len(f[n]) = e[n] /\ e[n] \in Nat
  BY <1>1, <1>8
<1>10. CommandBytes(cs) = e[n]
  BY <1>5, TotalsIsFold DEF CommandBytes
<1>11. FlattenSeq(parts) = f[n]
  BY <1>4 DEF Joined
<1>. QED
  BY <1>2, <1>9, <1>10, <1>11

LEMMA WithinBudget ==
    ASSUME NEW cs, AreCommands(cs), NEW c \in Configs
    PROVE  Len(Datagram(cs, c)) <= StaticOverhead(c) + CommandBytes(cs)
<1>. DEFINE x == CommandBytes(cs)
            l == Len(Datagram(cs, c))
            sum == IF c.checksums THEN 4 ELSE 0
            mark == IF c.algorithm = "Lz4" THEN 5 ELSE 1
<1>1. Len(EncodePacketInto(cs)) = 1 + x /\ x \in Nat
  BY PacketSize
<1>2. l <= 1 + Len(EncodePacketInto(cs)) + sum /\ Datagram(cs, c) \in Bytes
  BY DatagramType
<1>3. l \in Nat
  BY <1>2 DEF Bytes
<1>4. StaticOverhead(c) = 1 + mark + sum
  BY DEF StaticOverhead
<1>5. sum \in {0, 4} /\ mark \in {1, 5}
  OBVIOUS
<1>. HIDE DEF x, l, sum, mark
<1>. QED
  BY <1>1, <1>2, <1>3, <1>4, <1>5 DEF x, l

-----------------------------------------------------------------------------
(* The inductive invariant. *)

RecordsOK ==
    /\ config \in Configs /\ peer \in PeerRecords /\ flow \in FlowRecords
    /\ congestion \in CongestionRecords /\ bandwidth \in BandwidthRecords
    /\ AreCommands(command_queue)

WireOK ==
    \/ wire = NoDatagram
    \/ /\ AreCommands(wire.commands)
       /\ wire = [commands |-> wire.commands, bytes |-> Datagram(wire.commands, config)]

WindowOK ==
    /\ offers \subseteq Nat
    /\ UseWindowFlowControl /\ ~adjusted => flow.window_size = Negotiated(offers)

TransitOK == outstanding \in Nat /\ flow.reliable_data_in_transit <= outstanding

LossOK == fresh_loss \in BOOLEAN /\ ThrottleOK(congestion, fresh_loss)

PeerInv ==
    /\ RecordsOK /\ WireOK /\ WindowOK /\ TransitOK /\ LossOK
    /\ Introduced(peer, heard)
    /\ AnswersMatchRequests
    /\ EstimateOK(congestion, samples)

LEMMA PeerInvInit == Init => PeerInv
<1>. SUFFICES ASSUME Init PROVE PeerInv
  OBVIOUS
<1>1. AreCommands(command_queue) /\ config \in Configs
  BY PeerControlAssumption DEF Init
<1>2. peer \in PeerRecords
  BY PeerControlAssumption, Widths DEF Init, PeerRecords, PeerStates
<1>3. flow \in FlowRecords /\ flow.window_size = InitialWindow /\ flow.reliable_data_in_transit = 0
  BY FlowControlAssumption DEF Init, FlowRecords, NewFlow
<1>4. PICK advanced \in BOOLEAN : congestion = NewCongestion(advanced)
  BY DEF Init
<1>5. /\ Scale \in Nat /\ Scale >= 1 /\ FullThrottle = 20 * Scale /\ WordMax \in Nat /\ WordMax >= 2
      /\ Acceleration \in 0 .. WordMax /\ Deceleration \in Nat /\ Interval \in Nat
  <2>1. WordMax = U32 - 1 /\ U32 \in Nat /\ U32 > 16
    BY PeerControlAssumption, Widths
  <2>. QED
    BY <2>1, CongestionAssumption DEF FullThrottle
<1>6. /\ congestion \in CongestionRecords /\ congestion.rtt = 50 /\ congestion.rtt_variance = 25
      /\ congestion.packets_lost = 0 /\ congestion.throttle = 0 /\ congestion.packet_throttle = Scale
  BY <1>4, <1>5 DEF NewCongestion, CongestionRecords
<1>7. bandwidth \in BandwidthRecords
  BY Widths DEF Init, NewBandwidth, BandwidthRecords
<1>8. WindowOK
  <2>1. offers = {} /\ InitialWindow \in MinWindow .. MaxWindow /\ MinWindow \in Nat /\ MaxWindow \in Nat
    BY FlowControlAssumption DEF Init
  <2>. DEFINE T == offers \cup {InitialWindow}
  <2>2. T = {InitialWindow} /\ T \subseteq Nat
    BY <2>1
  <2>3. Min(T) \in T
    BY <2>2, MinType
  <2>4. Min(T) = InitialWindow
    BY <2>2, <2>3
  <2>. QED
    BY <1>3, <2>1, <2>4 DEF WindowOK, Negotiated, AtMost, AtLeast
<1>9. TransitOK
  BY <1>3 DEF Init, TransitOK
<1>10. LossOK
  <2>1. fresh_loss = FALSE
    BY DEF Init
  <2>. HIDE DEF Init
  <2>2. ThrottleOK(congestion, FALSE)
    BY <1>5, <1>6 DEF ThrottleOK
  <2>. QED
    BY <2>1, <2>2 DEF LossOK
<1>11. Introduced(peer, heard)
  BY DEF Init, Introduced
<1>12. AnswersMatchRequests
  BY DEF Init, AnswersMatchRequests
<1>13. EstimateOK(congestion, samples)
  <2>1. samples = {50}
    BY <1>6 DEF Init
  <2>2. Bracket(samples, 50, 50) /\ 50 \in samples
    BY <2>1 DEF Bracket
  <2>3. congestion.rtt \in 50 - 1 .. 50 /\ congestion.rtt_variance <= AtLeast(25, 50 - 50 + 1)
    BY <1>6 DEF AtLeast
  <2>. QED
    BY <2>2, <2>3, Zenon DEF EstimateOK
<1>14. WireOK
  BY DEF Init, WireOK
<1>. QED
  BY <1>1, <1>2, <1>3, <1>6, <1>7, <1>8, <1>9, <1>10, <1>11, <1>12, <1>13, <1>14 DEF PeerInv, RecordsOK

(* The bandwidth window.                                                    *)
LEMMA BandwidthType ==
    ASSUME NEW b \in BandwidthRecords, NEW n \in Nat
    PROVE  /\ UpdateBandwidthWindow(b) \in BandwidthRecords
           /\ RecordBytesReceived(UpdateBandwidthWindow(b), n) \in BandwidthRecords
<1>. DEFINE d == UpdateBandwidthWindow(b)
<1>1. d \in BandwidthRecords
  <2>1. 0 \in 0 .. U32 - 1
    BY Widths
  <2>2. [b EXCEPT !.sent = 0, !.received = 0, !.expired = FALSE] \in BandwidthRecords
    BY <2>1 DEF BandwidthRecords
  <2>. QED
    BY <2>2 DEF UpdateBandwidthWindow
<1>. HIDE DEF d
<1>. DEFINE x == IF n > U32 - 1 - d.received THEN U32 - 1 ELSE d.received + n
<1>2. x \in 0 .. U32 - 1
  BY <1>1, Widths DEF BandwidthRecords
<1>3. RecordBytesReceived(d, n) = [d EXCEPT !.received = x]
  BY DEF RecordBytesReceived
<1>. HIDE DEF x
<1>4. RecordBytesReceived(d, n) \in BandwidthRecords
  BY <1>1, <1>2, <1>3 DEF BandwidthRecords
<1>. QED
  BY <1>1, <1>4 DEF d

LEMMA NoWire ==
    ASSUME wire' = NoDatagram
    PROVE  WireOK'
BY DEF WireOK

(* A packet.                                                                *)
LEMMA PacketPreserves ==
    ASSUME PeerInv, NEW a \in Network, NEW id \in PeerIds, ReceivePacket(a, id)
    PROVE  PeerInv' /\ SameEstimates(congestion', congestion)
<1>. DEFINE cs == a.parsed.value
            b == Received(a)
            p == [ThePeer(id) EXCEPT !.bandwidth = b]
            q == ProcessCommands(p, cs)
            h == [connecting |-> peer.state = "Connecting", refused |-> FALSE,
                  offers |-> offers, due |-> due]
            g == FoldLeft(Observe, h, cs)
            intro == heard \cup Introductions(cs)
<1>1. AreCommands(cs) /\ a.bytes \in Bytes
  BY NetworkType DEF ReceivePacket
<1>2. b \in BandwidthRecords
  <2>1. Len(a.bytes) \in Nat
    BY <1>1 DEF Bytes
  <2>. QED
    BY <2>1, BandwidthType DEF PeerInv, RecordsOK, Received
<1>. HIDE DEF b
<1>3. p = [peer |-> peer, flow |-> flow, congestion |-> congestion, bandwidth |-> b,
           queue |-> command_queue, drawn |-> id, ok |-> TRUE]
  <2>1. ThePeer(id) = [peer |-> peer, flow |-> flow, congestion |-> congestion, bandwidth |-> bandwidth,
                       queue |-> command_queue, drawn |-> id, ok |-> TRUE]
    BY DEF ThePeer
  <2>2. p = [ThePeer(id) EXCEPT !.bandwidth = b]
    OBVIOUS
  <2>. HIDE DEF p
  <2>3. PICK yes, me : yes = TRUE /\ me = ThePeer(id)
    OBVIOUS
  <2>4. me = [peer |-> peer, flow |-> flow, congestion |-> congestion, bandwidth |-> bandwidth,
              queue |-> command_queue, drawn |-> id, ok |-> yes]
    BY <2>1, <2>3
  <2>5. p = [me EXCEPT !.bandwidth = b]
    BY <2>2, <2>3
  <2>6. p = [peer |-> peer, flow |-> flow, congestion |-> congestion, bandwidth |-> b,
             queue |-> command_queue, drawn |-> id, ok |-> yes]
    BY <2>4, <2>5, BandwidthReplaced
  <2>. QED
    BY <2>3, <2>6
<1>4. /\ peer' = IF q.ok THEN [q.peer EXCEPT !.state = RecordRecv(@)] ELSE q.peer
      /\ flow' = q.flow /\ congestion' = q.congestion /\ bandwidth' = q.bandwidth
      /\ command_queue' = q.queue
  BY DEF ReceivePacket, b
<1>5. heard' = intro /\ offers' = g.offers /\ due' = g.due /\ wire' = NoDatagram
  BY DEF ReceivePacket, Observed
<1>6. UNCHANGED <<config, adjusted, outstanding, fresh_loss, samples>>
  BY DEF ReceivePacket, Step
<1>7. Introductions(cs) \subseteq intro /\ heard \subseteq intro
  OBVIOUS
<1>. HIDE DEF p, q, g, cs, intro
<1>8. PartOK(p)
  BY <1>2, <1>3, PeerControlAssumption DEF PartOK, PeerInv, RecordsOK
<1>9. p.peer = peer /\ p.flow = flow /\ p.congestion = congestion /\ p.queue = command_queue /\ p.ok = TRUE
  BY <1>3
<1>10. HistoryOK(p, h, ~adjusted)
  BY <1>9 DEF HistoryOK, PeerInv, WindowOK, AnswersMatchRequests
<1>. HIDE DEF h
<1>11. Introduced(p.peer, intro)
  BY <1>7, <1>9 DEF PeerInv, Introduced
<1>12. PacketInv(p, h, intro, p, ~adjusted)
  BY <1>8, <1>10, <1>11 DEF PacketInv, SameEstimates
<1>13. PacketInv(q, g, intro, p, ~adjusted)
  BY <1>1, <1>7, <1>12, PacketStep DEF q, g
<1>14. PartOK(q) /\ HistoryOK(q, g, ~adjusted) /\ Introduced(q.peer, intro)
  BY <1>13 DEF PacketInv
<1>15. peer' \in PeerRecords /\ Introduced(peer', heard')
  <2>1. q.peer \in PeerRecords
    BY <1>14 DEF PartOK
  <2>2. CASE q.ok
    <3>. DEFINE s == RecordRecv(q.peer.state)
    <3>1. q.peer.state \in PeerStates
      BY <2>1 DEF PeerRecords
    <3>2. /\ s \in PeerStates
          /\ Handshake /\ s = "Connected" => q.peer.state \in {"Connected", "AcknowledgingConnect"}
          /\ s \in {"ConnectionSucceeded", "AcknowledgingConnect"} => q.peer.state = s
      BY <3>1 DEF RecordRecv, PeerStates
    <3>. HIDE DEF s
    <3>3. peer' = [q.peer EXCEPT !.state = s]
      BY <1>4, <2>2 DEF s
    <3>4. /\ peer' \in PeerRecords /\ peer'.state = s /\ peer'.peer_id = q.peer.peer_id
          /\ peer'.incoming_session_id = q.peer.incoming_session_id
          /\ peer'.connect_id = q.peer.connect_id
      BY <2>1, <3>2, <3>3 DEF PeerRecords
    <3>5. \A c : IntroducedBy(q.peer, c) => IntroducedBy(peer', c)
      BY <3>4 DEF IntroducedBy
    <3>6. Introduced(peer', intro)
      BY <1>14, <3>2, <3>4, <3>5 DEF Introduced
    <3>. QED
      BY <1>5, <3>4, <3>6
  <2>3. CASE ~q.ok
    BY <1>4, <1>5, <1>14, <2>1, <2>3
  <2>. QED
    BY <2>2, <2>3
<1>16. RecordsOK'
  BY <1>4, <1>6, <1>14, <1>15 DEF PartOK, RecordsOK, PeerInv
<1>17. WireOK'
  BY <1>5, NoWire
<1>18. WindowOK'
  BY <1>4, <1>5, <1>6, <1>14 DEF HistoryOK, WindowOK
<1>19. TransitOK'
  BY <1>4, <1>6, <1>9, <1>13 DEF PacketInv, PeerInv, TransitOK
<1>20. SameEstimates(congestion', congestion)
  BY <1>4, <1>9, <1>13 DEF PacketInv
<1>21. LossOK'
  BY <1>6, <1>20 DEF PeerInv, LossOK, ThrottleOK, SameEstimates
<1>22. EstimateOK(congestion, samples)'
  BY <1>6, <1>20 DEF PeerInv, EstimateOK, SameEstimates
<1>23. AnswersMatchRequests'
  BY <1>4, <1>5, <1>14 DEF HistoryOK, AnswersMatchRequests
<1>. QED
  BY <1>15, <1>16, <1>17, <1>18, <1>19, <1>20, <1>21, <1>22, <1>23 DEF PeerInv

(* Steps that change nothing but the bandwidth window, and the wire.        *)
LEMMA BandwidthPreserves ==
    ASSUME PeerInv, bandwidth' \in BandwidthRecords, wire' = NoDatagram,
           UNCHANGED <<config, peer, flow, congestion, command_queue, history>>
    PROVE  PeerInv'
<1>. USE DEF history
<1>1. RecordsOK'
  BY DEF PeerInv, RecordsOK
<1>2. WireOK'
  BY NoWire
<1>3. WindowOK' /\ TransitOK' /\ LossOK'
  BY DEF PeerInv, WindowOK, TransitOK, LossOK
<1>4. Introduced(peer, heard)' /\ AnswersMatchRequests' /\ EstimateOK(congestion, samples)'
  BY DEF PeerInv, AnswersMatchRequests
<1>. QED
  BY <1>1, <1>2, <1>3, <1>4 DEF PeerInv

LEMMA SendPreserves ==
    ASSUME PeerInv, RecordSendStep
    PROVE  PeerInv'
<1>. DEFINE s == RecordSend(peer.state)
            connect == Command("Connect", [channels |-> ChannelCount, mtu |-> Mtu, protocol_version |-> 1,
                                   outgoing_session_id |-> OwnSessionId, connect_id |-> peer.connect_id])
<1>1. /\ peer' = [peer EXCEPT !.state = s] /\ s # peer.state
      /\ command_queue' = command_queue \/ command_queue' = Append(command_queue, connect)
      /\ wire' = NoDatagram
      /\ UNCHANGED <<config, flow, congestion, bandwidth, history>>
  BY DEF RecordSendStep, Step
<1>2. peer \in PeerRecords /\ AreCommands(command_queue)
  BY DEF PeerInv, RecordsOK
<1>3. /\ s \in PeerStates
      /\ s \in {"Connected", "ConnectionSucceeded", "AcknowledgingConnect"} =>
            peer.state \in {"Connected", "ConnectionSucceeded", "AcknowledgingConnect"}
  BY <1>2 DEF RecordSend, PeerRecords, PeerStates
<1>4. IsCommand(connect)
  <2>1. 1 \in 0 .. U16 - 1 /\ peer.connect_id \in 0 .. U32 - 1
    BY <1>2, Widths DEF PeerRecords
  <2>2. ChannelCount \in 0 .. Base - 1 /\ Mtu \in 0 .. U16 - 1 /\ OwnSessionId \in 0 .. U16 - 1
    BY PeerControlAssumption
  <2>. QED
    BY <2>1, <2>2, ConnectIsCommand
<1>5. connect.kind = "Connect"
  BY DEF Command
<1>. HIDE DEF s
<1>6. AreCommands(command_queue') /\ AnswersIn(command_queue') = AnswersIn(command_queue)
  <2>. PICK c : c = connect
    OBVIOUS
  <2>. HIDE DEF connect
  <2>1. CASE command_queue' = command_queue
    BY <1>2, <2>1
  <2>2. CASE command_queue' = Append(command_queue, c)
    <3>1. AreCommands(Append(command_queue, c))
      BY <1>2, <1>4, AppendCommand
    <3>2. AnswersIn(Append(command_queue, c)) = WithAnswer(AnswersIn(command_queue), c)
      BY <1>2, AnswersAppend
    <3>3. WithAnswer(AnswersIn(command_queue), c) = AnswersIn(command_queue)
      BY <1>5 DEF WithAnswer
    <3>. QED
      BY <2>2, <3>1, <3>2, <3>3
  <2>. QED
    BY <1>1, <2>1, <2>2
<1>7. /\ peer' \in PeerRecords /\ peer'.state = s /\ peer'.peer_id = peer.peer_id
      /\ peer'.incoming_session_id = peer.incoming_session_id /\ peer'.connect_id = peer.connect_id
  BY <1>1, <1>2, <1>3 DEF PeerRecords
<1>8. RecordsOK'
  BY <1>1, <1>6, <1>7 DEF PeerInv, RecordsOK
<1>9. WireOK'
  BY <1>1, NoWire
<1>10. WindowOK' /\ TransitOK' /\ LossOK' /\ EstimateOK(congestion, samples)'
  BY <1>1 DEF PeerInv, WindowOK, TransitOK, LossOK, history
<1>11. AnswersMatchRequests'
  BY <1>1, <1>6 DEF PeerInv, AnswersMatchRequests, history
<1>12. Introduced(peer', heard')
  <2>1. \A c : IntroducedBy(peer, c) => IntroducedBy(peer', c)
    BY <1>7 DEF IntroducedBy
  <2>2. heard' = heard
    BY <1>1 DEF history
  <2>. QED
    BY <1>3, <1>7, <2>1, <2>2 DEF PeerInv, Introduced
<1>. QED
  BY <1>8, <1>9, <1>10, <1>11, <1>12 DEF PeerInv

LEMMA EncodePreserves ==
    ASSUME PeerInv, EncodeQueuedCommands
    PROVE  PeerInv'
<1>1. /\ wire' = [commands |-> command_queue, bytes |-> Datagram(command_queue, config)]
      /\ command_queue' = << >> /\ due' = << >>
      /\ UNCHANGED <<config, peer, flow, congestion, bandwidth, heard, offers, adjusted, outstanding,
                     fresh_loss, samples>>
  BY DEF EncodeQueuedCommands, Step
<1>2. RecordsOK'
  BY <1>1, NoCommands DEF PeerInv, RecordsOK
<1>3. WireOK'
  <2>1. wire'.commands = command_queue /\ config' = config
    BY <1>1
  <2>2. wire' = [commands |-> wire'.commands, bytes |-> Datagram(wire'.commands, config')]
    BY <1>1, <2>1
  <2>3. AreCommands(wire'.commands)
    BY <2>1 DEF PeerInv, RecordsOK
  <2>. QED
    BY <2>2, <2>3 DEF WireOK
<1>4. WindowOK' /\ TransitOK' /\ LossOK'
  BY <1>1 DEF PeerInv, WindowOK, TransitOK, LossOK
<1>5. Introduced(peer, heard)' /\ EstimateOK(congestion, samples)'
  BY <1>1 DEF PeerInv
<1>6. AnswersMatchRequests'
  BY <1>1, NoAnswers DEF AnswersMatchRequests
<1>. QED
  BY <1>2, <1>3, <1>4, <1>5, <1>6 DEF PeerInv

(* Steps through the interface of flow and congestion control.              *)
LEMMA ControlsPreserve ==
    ASSUME PeerInv, NEW f, NEW cc, Controls(f, cc), f \in FlowRecords, cc \in CongestionRecords,
           WindowOK', TransitOK', LossOK', EstimateOK(congestion, samples)'
    PROVE  PeerInv'
<1>1. /\ flow' = f /\ congestion' = cc /\ wire' = NoDatagram
      /\ UNCHANGED <<config, peer, bandwidth, command_queue, heard, due>>
  BY DEF Controls, Step
<1>2. RecordsOK'
  BY <1>1 DEF PeerInv, RecordsOK
<1>3. WireOK'
  BY <1>1, NoWire
<1>4. Introduced(peer, heard)' /\ AnswersMatchRequests'
  BY <1>1 DEF PeerInv, AnswersMatchRequests
<1>. QED
  BY <1>2, <1>3, <1>4 DEF PeerInv

LEMMA SentPreserves ==
    ASSUME PeerInv, NEW size \in Sizes, RecordReliableDataSent(size)
    PROVE  PeerInv'
<1>. DEFINE f == RecordReliableSent(flow, size)
            t == flow.reliable_data_in_transit
            u == IF size > MaxU32 - t THEN MaxU32 ELSE t + size
<1>1. /\ Controls(f, congestion) /\ outstanding' = outstanding + size /\ flow' = f
      /\ UNCHANGED <<congestion, offers, adjusted, fresh_loss, samples>>
  BY DEF RecordReliableDataSent, Controls
<1>2. size \in Nat /\ MaxU32 \in Nat /\ flow \in FlowRecords /\ t \in 0 .. MaxU32
  BY PeerControlAssumption, FlowControlAssumption DEF PeerInv, RecordsOK, FlowRecords
<1>3. f = [flow EXCEPT !.reliable_data_in_transit = u]
  BY DEF RecordReliableSent
<1>4. outstanding \in Nat /\ t <= outstanding
  BY DEF PeerInv, TransitOK
<1>5. u \in 0 .. MaxU32 /\ u <= outstanding + size
  BY <1>2, <1>4
<1>. HIDE DEF u, f
<1>6. f \in FlowRecords /\ f.window_size = flow.window_size /\ f.reliable_data_in_transit = u
  BY <1>2, <1>3, <1>5 DEF FlowRecords
<1>7. WindowOK' /\ LossOK' /\ EstimateOK(congestion, samples)'
  BY <1>1, <1>6 DEF PeerInv, WindowOK, LossOK
<1>8. TransitOK'
  BY <1>1, <1>2, <1>4, <1>5, <1>6 DEF TransitOK
<1>9. congestion \in CongestionRecords
  BY DEF PeerInv, RecordsOK
<1>. QED
  BY <1>1, <1>6, <1>7, <1>8, <1>9, ControlsPreserve

LEMMA AckedPreserves ==
    ASSUME PeerInv, NEW size \in Sizes, RecordReliableDataAcked(size)
    PROVE  PeerInv'
<1>. DEFINE f == RecordReliableAcked(flow, size)
            t == flow.reliable_data_in_transit
            u == IF size > t THEN 0 ELSE t - size
<1>1. /\ Controls(f, congestion) /\ outstanding' = outstanding - size /\ flow' = f /\ size <= outstanding
      /\ UNCHANGED <<congestion, offers, adjusted, fresh_loss, samples>>
  BY DEF RecordReliableDataAcked, Controls
<1>2. size \in Nat /\ MaxU32 \in Nat /\ flow \in FlowRecords /\ t \in 0 .. MaxU32
  BY PeerControlAssumption, FlowControlAssumption DEF PeerInv, RecordsOK, FlowRecords
<1>3. f = [flow EXCEPT !.reliable_data_in_transit = u]
  BY DEF RecordReliableAcked
<1>4. outstanding \in Nat /\ t <= outstanding
  BY DEF PeerInv, TransitOK
<1>5. u \in 0 .. MaxU32 /\ u <= outstanding - size /\ outstanding - size \in Nat
  BY <1>1, <1>2, <1>4
<1>. HIDE DEF u, f
<1>6. f \in FlowRecords /\ f.window_size = flow.window_size /\ f.reliable_data_in_transit = u
  BY <1>2, <1>3, <1>5 DEF FlowRecords
<1>7. WindowOK' /\ LossOK' /\ EstimateOK(congestion, samples)'
  BY <1>1, <1>6 DEF PeerInv, WindowOK, LossOK
<1>8. TransitOK'
  BY <1>1, <1>5, <1>6 DEF TransitOK
<1>9. congestion \in CongestionRecords
  BY DEF PeerInv, RecordsOK
<1>. QED
  BY <1>1, <1>6, <1>7, <1>8, <1>9, ControlsPreserve

LEMMA AdjustType ==
    ASSUME NEW f \in FlowRecords, NEW below \in BOOLEAN, NEW above \in BOOLEAN, NEW rtt \in Nat
    PROVE  /\ AdjustWindowSize(f, below, above, rtt) \in FlowRecords
           /\ AdjustWindowSize(f, below, above, rtt).reliable_data_in_transit = f.reliable_data_in_transit
<1>. DEFINE w == f.window_size
            up == AtMost(w + AtLeast(w \div 32, 1), MaxWindow)
            down == AtLeast(w - AtLeast(w \div 16, 1), MinWindow)
            g == AdjustWindowSize(f, below, above, rtt)
<1>1. /\ MinWindow \in Nat /\ MaxWindow \in Nat /\ MinWindow <= MaxWindow /\ w \in MinWindow .. MaxWindow
  BY FlowControlAssumption DEF FlowRecords
<1>. HIDE DEF w
<1>2. w \div 32 \in Nat /\ w \div 16 \in Nat
  BY <1>1
<1>3. up \in MinWindow .. MaxWindow /\ down \in MinWindow .. MaxWindow
  BY <1>1, <1>2 DEF AtMost, AtLeast
<1>4. \/ g = f
      \/ g = [f EXCEPT !.window_size = up]
      \/ g = [f EXCEPT !.window_size = down]
  BY FlowControlAssumption DEF AdjustWindowSize, w
<1>. HIDE DEF up, down, g
<1>5. CASE g = f
  BY <1>5 DEF g
<1>6. CASE g = [f EXCEPT !.window_size = up]
  BY <1>3, <1>6 DEF FlowRecords, g
<1>7. CASE g = [f EXCEPT !.window_size = down]
  BY <1>3, <1>7 DEF FlowRecords, g
<1>. QED
  BY <1>4, <1>5, <1>6, <1>7

LEMMA AdjustPreserves ==
    ASSUME PeerInv, AdjustWindow
    PROVE  PeerInv'
<1>. DEFINE f == AdjustWindowSize(flow, LossBelow(congestion, 100), LossAbove(congestion, 20), congestion.rtt)
<1>1. /\ Controls(f, congestion) /\ flow' = f /\ adjusted' = TRUE
      /\ UNCHANGED <<congestion, offers, outstanding, fresh_loss, samples>>
  BY DEF AdjustWindow, Controls
<1>2. flow \in FlowRecords /\ congestion \in CongestionRecords /\ congestion.rtt \in Nat
  BY DEF PeerInv, RecordsOK, CongestionRecords
<1>3. LossBelow(congestion, 100) \in BOOLEAN /\ LossAbove(congestion, 20) \in BOOLEAN
  BY DEF LossBelow, LossAbove
<1>4. f \in FlowRecords /\ f.reliable_data_in_transit = flow.reliable_data_in_transit
  BY <1>2, <1>3, AdjustType, SMTT(30)
<1>. HIDE DEF f
<1>5. WindowOK' /\ TransitOK'
  BY <1>1, <1>4 DEF PeerInv, WindowOK, TransitOK
<1>6. LossOK' /\ EstimateOK(congestion, samples)'
  BY <1>1 DEF PeerInv, LossOK
<1>. QED
  BY <1>1, <1>2, <1>4, <1>5, <1>6, ControlsPreserve

(* Steps of congestion control alone.                                       *)
LEMMA CongestionPreserves ==
    ASSUME PeerInv, NEW cc, Controls(flow, cc), cc \in CongestionRecords, LossOK',
           EstimateOK(congestion, samples)', UNCHANGED <<adjusted, outstanding>>
    PROVE  PeerInv'
<1>1. UNCHANGED <<flow, offers>>
  BY DEF Controls
<1>2. WindowOK' /\ TransitOK' /\ flow \in FlowRecords
  BY <1>1 DEF PeerInv, RecordsOK, WindowOK, TransitOK
<1>. QED
  BY <1>2, ControlsPreserve

LEMMA RegisterPreserves ==
    ASSUME PeerInv, NEW n \in Batches, RegisterPackets(n)
    PROVE  PeerInv'
<1>. DEFINE cc == RecordSent(congestion, n)
<1>1. /\ Controls(flow, cc) /\ congestion' = cc
      /\ UNCHANGED <<adjusted, outstanding, fresh_loss, samples>>
  BY DEF RegisterPackets, Controls
<1>2. n \in Nat /\ congestion \in CongestionRecords
  BY PeerControlAssumption DEF PeerInv, RecordsOK
<1>3. cc = [congestion EXCEPT !.packets_sent = @ + n]
  BY DEF RecordSent
<1>. HIDE DEF cc
<1>4. cc \in CongestionRecords /\ SameEstimates(cc, congestion)
  BY <1>2, <1>3 DEF CongestionRecords, SameEstimates
<1>5. LossOK'
  BY <1>1, <1>4 DEF PeerInv, LossOK, ThrottleOK, SameEstimates
<1>6. EstimateOK(congestion, samples)'
  BY <1>1, <1>4 DEF PeerInv, EstimateOK, SameEstimates
<1>. QED
  BY <1>1, <1>4, <1>5, <1>6, CongestionPreserves

LEMMA MeasurePreserves ==
    ASSUME PeerInv, NEW sample \in Samples, MeasureRtt(sample)
    PROVE  PeerInv'
<1>1. PICK cc \in UpdateRtt(congestion, sample) : Controls(flow, cc)
  BY DEF MeasureRtt
<1>2. congestion' = cc /\ samples' = samples \cup {sample} /\ UNCHANGED <<adjusted, outstanding, fresh_loss>>
  BY <1>1 DEF MeasureRtt, Controls
<1>3. sample \in Nat /\ congestion \in CongestionRecords /\ EstimateOK(congestion, samples)
  BY PeerControlAssumption DEF PeerInv, RecordsOK
<1>4. /\ cc \in CongestionRecords /\ EstimateOK(cc, samples \cup {sample})
      /\ cc.packets_lost = congestion.packets_lost /\ cc.throttle = congestion.throttle
      /\ cc.packet_throttle = congestion.packet_throttle /\ cc.advanced = congestion.advanced
  BY <1>1, <1>3, EstimateStep
<1>5. LossOK'
  BY <1>2, <1>4 DEF PeerInv, LossOK, ThrottleOK
<1>6. EstimateOK(congestion, samples)'
  BY <1>2, <1>4
<1>. QED
  BY <1>1, <1>2, <1>4, <1>5, <1>6, CongestionPreserves

LEMMA LossPreserves ==
    ASSUME PeerInv, NEW n \in Batches, GatherDroppedPackets(n)
    PROVE  PeerInv'
<1>. DEFINE cc == RecordLoss(congestion, n)
<1>1. /\ Controls(flow, cc) /\ congestion' = cc /\ fresh_loss' = TRUE
      /\ UNCHANGED <<adjusted, outstanding, samples>>
  BY DEF GatherDroppedPackets, Controls
<1>2. n \in Nat /\ congestion \in CongestionRecords
  BY PeerControlAssumption DEF PeerInv, RecordsOK
<1>3. cc = [congestion EXCEPT !.packets_lost = @ + n]
  BY DEF RecordLoss
<1>. HIDE DEF cc
<1>4. /\ cc \in CongestionRecords /\ cc.rtt = congestion.rtt /\ cc.rtt_variance = congestion.rtt_variance
      /\ cc.throttle = congestion.throttle /\ cc.packet_throttle = congestion.packet_throttle
      /\ cc.advanced = congestion.advanced
  BY <1>2, <1>3 DEF CongestionRecords
<1>5. LossOK'
  BY <1>1, <1>4 DEF PeerInv, LossOK, ThrottleOK
<1>6. EstimateOK(congestion, samples)'
  BY <1>1, <1>4 DEF PeerInv, EstimateOK
<1>. QED
  BY <1>1, <1>4, <1>5, <1>6, CongestionPreserves

LEMMA UpdatePreserves ==
    ASSUME PeerInv, UpdateThrottleStep
    PROVE  PeerInv'
<1>. DEFINE cc == UpdateThrottle(congestion)
<1>1. /\ Controls(flow, cc) /\ congestion' = cc /\ fresh_loss' = FALSE
      /\ UNCHANGED <<adjusted, outstanding, samples>>
  BY DEF UpdateThrottleStep, Controls
<1>2. congestion \in CongestionRecords /\ fresh_loss \in BOOLEAN /\ ThrottleOK(congestion, fresh_loss)
  BY DEF PeerInv, RecordsOK, LossOK
<1>3. Moved(congestion, cc, fresh_loss) /\ ThrottleOK(cc, FALSE)
  BY <1>2, UpdateMoves
<1>. HIDE DEF cc
<1>4. cc \in CongestionRecords /\ cc.rtt = congestion.rtt /\ cc.rtt_variance = congestion.rtt_variance
  BY <1>3 DEF Moved
<1>5. LossOK'
  BY <1>1, <1>3 DEF LossOK
<1>6. EstimateOK(congestion, samples)'
  BY <1>1, <1>4 DEF PeerInv, EstimateOK
<1>. QED
  BY <1>1, <1>4, <1>5, <1>6, CongestionPreserves

LEMMA SecondPreserves ==
    ASSUME PeerInv, Second
    PROVE  PeerInv'
<1>1. /\ bandwidth' = [bandwidth EXCEPT !.expired = TRUE] /\ wire' = NoDatagram
      /\ congestion' = [congestion EXCEPT !.elapsed = @ + 1000]
      /\ UNCHANGED <<config, peer, flow, command_queue, history>>
  BY DEF Second, Step
<1>2. bandwidth \in BandwidthRecords /\ congestion \in CongestionRecords
  BY DEF PeerInv, RecordsOK
<1>3. bandwidth' \in BandwidthRecords
  BY <1>1, <1>2 DEF BandwidthRecords
<1>4. congestion' \in CongestionRecords /\ SameEstimates(congestion', congestion)
  BY <1>1, <1>2 DEF CongestionRecords, SameEstimates
<1>5. RecordsOK'
  BY <1>1, <1>3, <1>4 DEF PeerInv, RecordsOK
<1>6. WireOK'
  BY <1>1, NoWire
<1>7. WindowOK' /\ TransitOK' /\ Introduced(peer, heard)' /\ AnswersMatchRequests'
  BY <1>1 DEF PeerInv, WindowOK, TransitOK, AnswersMatchRequests, history
<1>8. LossOK'
  BY <1>1, <1>4 DEF PeerInv, LossOK, ThrottleOK, SameEstimates, history
<1>9. EstimateOK(congestion, samples)'
  BY <1>1, <1>4 DEF PeerInv, EstimateOK, SameEstimates, history
<1>. QED
  BY <1>5, <1>6, <1>7, <1>8, <1>9 DEF PeerInv

LEMMA PeerInvStep == PeerInv /\ [Next]_vars => PeerInv'
<1>. SUFFICES ASSUME PeerInv, [Next]_vars PROVE PeerInv'
  OBVIOUS
<1>1. ASSUME NEW a \in Network, ReceiveMalformed(a) PROVE PeerInv'
  <2>1. Len(a.bytes) \in Nat
    BY NetworkType DEF Bytes
  <2>2. /\ bandwidth' = Received(a) /\ wire' = NoDatagram
        /\ UNCHANGED <<config, peer, flow, congestion, command_queue, history>>
    BY <1>1 DEF ReceiveMalformed, Step
  <2>3. bandwidth' \in BandwidthRecords
    BY <2>1, <2>2, BandwidthType DEF PeerInv, RecordsOK, Received
  <2>. QED
    BY <2>2, <2>3, BandwidthPreserves
<1>2. ASSUME NEW a \in Network, NEW id \in PeerIds, ReceivePacket(a, id) PROVE PeerInv'
  BY <1>2, PacketPreserves
<1>3. CASE DropOverLimit
  <2>1. /\ bandwidth' = UpdateBandwidthWindow(bandwidth) /\ wire' = NoDatagram
        /\ UNCHANGED <<config, peer, flow, congestion, command_queue, history>>
    BY <1>3 DEF DropOverLimit, Step
  <2>2. bandwidth' \in BandwidthRecords
    BY <2>1, BandwidthType DEF PeerInv, RecordsOK
  <2>. QED
    BY <2>1, <2>2, BandwidthPreserves
<1>4. CASE RecordSendStep
  BY <1>4, SendPreserves
<1>5. CASE EncodeQueuedCommands
  BY <1>5, EncodePreserves
<1>6. ASSUME NEW size \in Sizes, RecordReliableDataSent(size) PROVE PeerInv'
  BY <1>6, SentPreserves
<1>7. ASSUME NEW size \in Sizes, RecordReliableDataAcked(size) PROVE PeerInv'
  BY <1>7, AckedPreserves
<1>8. CASE AdjustWindow
  BY <1>8, AdjustPreserves
<1>9. ASSUME NEW n \in Batches, RegisterPackets(n) PROVE PeerInv'
  BY <1>9, RegisterPreserves
<1>10. ASSUME NEW n \in Batches, GatherDroppedPackets(n) PROVE PeerInv'
  BY <1>10, LossPreserves
<1>11. ASSUME NEW sample \in Samples, MeasureRtt(sample) PROVE PeerInv'
  BY <1>11, MeasurePreserves
<1>12. CASE UpdateThrottleStep
  BY <1>12, UpdatePreserves
<1>13. CASE Second
  BY <1>13, SecondPreserves
<1>14. CASE UNCHANGED vars
  <2>1. UNCHANGED <<config, peer, flow, congestion, bandwidth, command_queue, wire, heard, offers,
                    adjusted, due, outstanding, fresh_loss, samples>>
    BY <1>14 DEF vars, control, history
  <2>2. RecordsOK' /\ WireOK'
    BY <2>1 DEF PeerInv, RecordsOK, WireOK
  <2>3. WindowOK' /\ TransitOK' /\ LossOK' /\ AnswersMatchRequests'
    BY <2>1 DEF PeerInv, WindowOK, TransitOK, LossOK, AnswersMatchRequests
  <2>4. Introduced(peer, heard)' /\ EstimateOK(congestion, samples)'
    BY <2>1 DEF PeerInv
  <2>. QED
    BY <2>2, <2>3, <2>4 DEF PeerInv
<1>. QED
  BY <1>1, <1>2, <1>3, <1>4, <1>5, <1>6, <1>7, <1>8, <1>9, <1>10, <1>11, <1>12, <1>13, <1>14 DEF Next

-----------------------------------------------------------------------------
(* What the invariant says. *)

LEMMA TypesHold == PeerInv => TypeOK
<1>. SUFFICES ASSUME PeerInv PROVE TypeOK
  OBVIOUS
<1>1. config \in Configs /\ AreCommands(command_queue)
  BY DEF PeerInv, RecordsOK
<1>2. /\ peer.state \in PeerStates /\ {peer.peer_id, peer.incoming_session_id} \subseteq 0 .. U16 - 1
      /\ peer.connect_id \in 0 .. U32 - 1
  BY DEF PeerInv, RecordsOK, PeerRecords
<1>3. flow.window_size \in MinWindow .. MaxWindow /\ flow.reliable_data_in_transit \in 0 .. MaxU32
  BY DEF PeerInv, RecordsOK, FlowRecords
<1>4. /\ congestion.throttle \in 0 .. FullThrottle /\ congestion.packet_throttle \in 0 .. Scale
      /\ congestion.rtt \in Nat /\ congestion.rtt_variance \in Nat
  BY DEF PeerInv, RecordsOK, CongestionRecords
<1>5. bandwidth.received \in 0 .. U32 - 1
  BY DEF PeerInv, RecordsOK, BandwidthRecords
<1>6. \A i \in DOMAIN wire.bytes : wire.bytes[i] \in 0 .. Base - 1
  <2>1. CASE wire = NoDatagram
    BY <2>1 DEF NoDatagram
  <2>2. CASE wire # NoDatagram
    <3>1. AreCommands(wire.commands) /\ wire.bytes = Datagram(wire.commands, config)
      BY <2>2 DEF PeerInv, WireOK
    <3>2. wire.bytes \in Bytes
      BY <1>1, <3>1, DatagramType
    <3>3. PICK b : b = wire.bytes
      OBVIOUS
    <3>4. \A i \in DOMAIN b : b[i] \in Byte
      BY <3>2, <3>3 DEF Bytes
    <3>. QED
      BY <3>3, <3>4 DEF Byte
  <2>. QED
    BY <2>1, <2>2
<1>. QED
  BY <1>1, <1>2, <1>3, <1>4, <1>5, <1>6 DEF TypeOK

LEMMA WindowNeverCloses == PeerInv => AllAckedMaySend
<1>. SUFFICES ASSUME PeerInv, outstanding = 0, MaxPacketsInFlight > 0 PROVE CanSendReliable(flow, 0)
  BY DEF AllAckedMaySend
<1>. DEFINE x == flow.window_size * FragmentSize
            m == MaxU32 + 1
<1>1. x \in 1 .. MaxU32 /\ MaxU32 \in Nat
  BY WindowLimits DEF PeerInv, RecordsOK, FlowRecords
<1>2. flow.reliable_data_in_transit = 0
  BY DEF PeerInv, RecordsOK, FlowRecords, TransitOK
<1>. HIDE DEF x
<1>3. m \in Nat /\ m > 0 /\ x \in 0 .. m - 1 /\ x \in Nat /\ x = m * 0 + x
  BY <1>1
<1>. HIDE DEF m
<1>4. x % m = x
  BY <1>3, Numbers!DivisionIsUnique
<1>5. 0 < x % m
  BY <1>1, <1>4
<1>6. 0 < (flow.window_size * FragmentSize) % (MaxU32 + 1)
  BY <1>5 DEF x, m
<1>7. 0 < MaxPacketsInFlight
  BY FlowControlAssumption
<1>. QED
  BY <1>2, <1>6, <1>7 DEF CanSendReliable

LEMMA SizesHold == PeerInv => SizesAreSafe
<1>. SUFFICES ASSUME PeerInv, Encoding
              PROVE  /\ EncodePacket(wire.commands) = EncodePacketInto(wire.commands)
                     /\ Len(wire.bytes) <= StaticOverhead(config) + CommandBytes(wire.commands)
  BY DEF SizesAreSafe, EncodersAgree, DatagramWithinBudget
<1>1. config \in Configs
  BY DEF PeerInv, RecordsOK
<1>2. AreCommands(wire.commands) /\ wire.bytes = Datagram(wire.commands, config)
  BY DEF PeerInv, WireOK, Encoding
<1>. QED
  BY <1>1, <1>2, SamePacketBytes, WithinBudget

(* No length written into the datagram on the wire was cut off.             *)
ShortDatagram == Len(EncodePacketInto(wire.commands)) < U16

LEMMA RoundTripHolds == PeerInv => (ShortDatagram => RoundTrip)
<1>. SUFFICES ASSUME PeerInv, ShortDatagram, Encoding
              PROVE  Parse(wire.bytes, config) = Success(wire.commands)
  BY DEF RoundTrip
<1>. DEFINE cs == wire.commands
<1>1. /\ AreCommands(cs) /\ wire = [commands |-> cs, bytes |-> Datagram(cs, config)]
      /\ config \in Configs /\ Len(cs) < Base
  BY DEF PeerInv, WireOK, RecordsOK, Encoding
<1>2. Len(EncodePacketInto(cs)) < U16
  BY DEF ShortDatagram
<1>. HIDE DEF cs
<1>3. wire.bytes = Datagram(cs, config)
  BY <1>1
<1>4. Fits(cs) /\ Len(EncodePacketInto(cs)) < U32
  BY <1>1, <1>2, ShortFits
<1>5. Parse(Datagram(cs, config), config) = Success(cs)
  BY <1>1, <1>4, DatagramReadBack
<1>. QED
  BY <1>3, <1>5 DEF cs

LEMMA IntroductionHolds == PeerInv => EstablishedByOneIntroduction
BY DEF PeerInv, Introduced, IntroducedBy, EstablishedByOneIntroduction, IsEstablished

LEMMA BracketHolds == PeerInv => RttIsBracketed
<1>. SUFFICES ASSUME PeerInv PROVE RttIsBracketed
  OBVIOUS
<1>1. congestion \in CongestionRecords /\ EstimateOK(congestion, samples)
  BY DEF PeerInv, RecordsOK
<1>. QED
  BY <1>1, EstimateBrackets DEF RttIsBracketed

LEMMA WindowHolds == PeerInv => NegotiatedWindowIsLeast
BY DEF PeerInv, WindowOK, Negotiated, NegotiatedWindowIsLeast

(* What a step does to the throttle.                                        *)
LEMMA OnlyUpdatesMove ==
    ASSUME PeerInv, [Next]_vars, ~UpdateThrottleStep
    PROVE  congestion'.throttle = congestion.throttle
<1>. DEFINE Same == congestion'.throttle = congestion.throttle
<1>1. congestion \in CongestionRecords /\ EstimateOK(congestion, samples)
  BY DEF PeerInv, RecordsOK
<1>2. ASSUME NEW a \in Network, ReceiveMalformed(a) PROVE Same
  BY <1>2 DEF ReceiveMalformed
<1>3. ASSUME NEW a \in Network, NEW id \in PeerIds, ReceivePacket(a, id) PROVE Same
  BY <1>3, PacketPreserves DEF SameEstimates
<1>4. CASE DropOverLimit
  BY <1>4 DEF DropOverLimit
<1>5. CASE RecordSendStep
  BY <1>5 DEF RecordSendStep
<1>6. CASE EncodeQueuedCommands
  BY <1>6 DEF EncodeQueuedCommands
<1>7. ASSUME NEW size \in Sizes, RecordReliableDataSent(size) \/ RecordReliableDataAcked(size) PROVE Same
  BY <1>7 DEF RecordReliableDataSent, RecordReliableDataAcked, Controls
<1>8. CASE AdjustWindow
  BY <1>8 DEF AdjustWindow, Controls
<1>9. ASSUME NEW n \in Batches, RegisterPackets(n) PROVE Same
  BY <1>1, <1>9 DEF RegisterPackets, Controls, RecordSent, CongestionRecords
<1>10. ASSUME NEW n \in Batches, GatherDroppedPackets(n) PROVE Same
  BY <1>1, <1>10 DEF GatherDroppedPackets, Controls, RecordLoss, CongestionRecords
<1>11. ASSUME NEW sample \in Samples, MeasureRtt(sample) PROVE Same
  <2>1. PICK cc \in UpdateRtt(congestion, sample) : Controls(flow, cc)
    BY <1>11 DEF MeasureRtt
  <2>2. congestion' = cc /\ sample \in Nat
    BY <2>1, PeerControlAssumption DEF Controls
  <2>3. EstimateOK(cc, samples \cup {sample}) /\ cc.throttle = congestion.throttle
    BY <1>1, <2>1, <2>2, EstimateStep
  <2>. QED
    BY <2>2, <2>3
<1>12. CASE Second
  BY <1>1, <1>12 DEF Second, CongestionRecords
<1>13. CASE UNCHANGED vars
  BY <1>13 DEF vars, control
<1>. QED
  BY <1>2, <1>3, <1>4, <1>5, <1>6, <1>7, <1>8, <1>9, <1>10, <1>11, <1>12, <1>13 DEF Next

LEMMA SlowdownStep ==
    ASSUME PeerInv, [Next]_vars
    PROVE  /\ congestion'.throttle > congestion.throttle =>
                 fresh_loss \/ congestion.acceleration > WordMax - Scale
           /\ MayDropUnreliable(congestion') /\ ~MayDropUnreliable(congestion) => fresh_loss
<1>1. /\ congestion \in CongestionRecords /\ fresh_loss \in BOOLEAN /\ ThrottleOK(congestion, fresh_loss)
      /\ congestion.throttle \in Nat
  BY DEF PeerInv, RecordsOK, LossOK, CongestionRecords
<1>2. CASE UpdateThrottleStep
  <2>1. congestion' = UpdateThrottle(congestion)
    BY <1>2 DEF UpdateThrottleStep, Controls
  <2>2. Moved(congestion, congestion', fresh_loss)
    BY <1>1, <2>1, UpdateMoves
  <2>. QED
    BY <2>2 DEF Moved, MayDropUnreliable
<1>3. CASE ~UpdateThrottleStep
  <2>1. congestion'.throttle = congestion.throttle
    BY <1>3, OnlyUpdatesMove
  <2>. QED
    BY <1>1, <2>1 DEF MayDropUnreliable
<1>. QED
  BY <1>2, <1>3

-----------------------------------------------------------------------------
(* The theorems. *)

LEMMA PeerInvHolds == Spec => []PeerInv
BY PeerInvInit, PeerInvStep, PTL DEF Spec

(* Whatever commands, losses and acknowledgements arrive in whatever order, *)
(* ids, window, throttle, estimates and counters keep their ranges, only    *)
(* well-formed commands wait in the queue, and once everything sent has     *)
(* been acknowledged can_send_reliable lets the peer send again.            *)
THEOREM ControlsStayInBounds == Spec => []ControlInv
<1>1. PeerInv => ControlInv
  BY TypesHold, WindowNeverCloses DEF ControlInv
<1>. QED
  BY <1>1, PeerInvHolds, PTL

(* With the handshake, an established peer has all its ids from one         *)
(* CONNECT, or from one VERIFY_CONNECT that names its own session.          *)
THEOREM OneIntroduction == Spec => []EstablishedByOneIntroduction
BY PeerInvHolds, IntroductionHolds, PTL

(* Until the first adjust_window_size the window is the least of those      *)
(* offered, within the configured bounds.                                   *)
THEOREM LeastWindow == Spec => []NegotiatedWindowIsLeast
BY PeerInvHolds, WindowHolds, PTL

(* The queue holds exactly one Pong or PMTUReply for each request           *)
(* process_command took and that has not been answered, in order.           *)
THEOREM EveryRequestAnswered == Spec => []AnswersMatchRequests
<1>1. PeerInv => AnswersMatchRequests
  BY DEF PeerInv
<1>. QED
  BY <1>1, PeerInvHolds, PTL

(* update_rtt keeps the round-trip estimate between the least and the       *)
(* greatest sample, and bounds the retransmission timeout by them.          *)
THEOREM EstimateIsBracketed == Spec => []RttIsBracketed
BY PeerInvHolds, BracketHolds, PTL

(* The two encoders write the same bytes, and no datagram exceeds what      *)
(* encode_queued_commands_bounded reserved, whatever the commands, the      *)
(* compression algorithm and the checksum setting.                          *)
THEOREM BoundedEncoderIsSafe == Spec => []SizesAreSafe
BY PeerInvHolds, SizesHold, PTL

(* A datagram that is parsed under the settings it was made with yields     *)
(* exactly the commands it was made of, whatever they are and whether it    *)
(* was compressed, sent as it is, or given a checksum, as long as its       *)
(* uncompressed size fits the two bytes that hold each length.              *)
THEOREM WireRoundTrip == Spec => [](ShortDatagram => RoundTrip)
BY PeerInvHolds, RoundTripHolds, PTL

(* update_throttle never tightens the throttle, and never starts to drop    *)
(* unreliable packets, without a loss since the update before; no other     *)
(* step moves the throttle at all.                                          *)
THEOREM ThrottleNeedsLoss == Spec => SlowdownNeedsLoss
BY PeerInvHolds, SlowdownStep, PTL DEF Spec, SlowdownNeedsLoss

=============================================================================
