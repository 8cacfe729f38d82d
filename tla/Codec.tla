------------------------------- MODULE Codec -------------------------------
(***************************************************************************)
(* The wire format: protocol commands to bytes and back                    *)
(* (bitfold-protocol/src/command.rs and command_codec).  A command is its  *)
(* kind and its fields; a datagram is a sequence of bytes.  A byte has     *)
(* Base values (256 in the code), so a u16 has Base^2 and a u32 Base^4.    *)
(* What the encoder writes and the decoder reads for each kind is a table  *)
(* of fields in order, each with its encoding; the two encoders and the    *)
(* decoder have a table each, as they have a match of their own in the     *)
(* code.                                                                   *)
(*                                                                         *)
(* A result is [ok, value].  Compression and hash functions are external:  *)
(* run lengths stand for zlib and for LZ4, a sum for CRC32.                *)
(***************************************************************************)
EXTENDS Integers, Sequences, SequencesExt

CONSTANT Base

ASSUME BaseAssumption == Base \in Nat /\ Base > 16

U16 == Base * Base
U32 == U16 * U16

Algorithms == {"None", "Zlib", "Lz4"}

NoTime == -1                    \* an absent sent_time

Failure == [ok |-> FALSE, value |-> << >>]
Success(v) == [ok |-> TRUE, value |-> v]

(* At most n bytes after the first pos.                                     *)
Slice(bytes, pos, n) ==
    LET end == IF pos + n < Len(bytes) THEN pos + n ELSE Len(bytes)
    IN  IF end <= pos THEN << >> ELSE SubSeq(bytes, pos + 1, end)

U8F(f) == <<f, "u8">>
U16F(f) == <<f, "u16">>
U32F(f) == <<f, "u32">>
FlagF(f) == <<f, "flag">>
DataF(f) == <<f, "data">>
OptionF(f) == <<f, "option">>

-----------------------------------------------------------------------------
(* The enum ProtocolCommand: the fields of each kind, with their types.     *)
CommandFields == [
    SendReliable |-> [channel_id |-> "u8", sequence |-> "u16", ordered |-> "flag", data |-> "data"],
    SendUnreliable |-> [channel_id |-> "u8", data |-> "data"],
    SendUnreliableSequenced |-> [channel_id |-> "u8", sequence |-> "u16", data |-> "data"],
    SendUnsequenced |-> [channel_id |-> "u8", unsequenced_group |-> "u16", data |-> "data"],
    SendFragment |-> [channel_id |-> "u8", sequence |-> "u16", ordered |-> "flag",
                      fragment_id |-> "u8", fragment_count |-> "u8", data |-> "data"],
    SendUnreliableFragment |-> [channel_id |-> "u8", sequence |-> "u16", fragment_id |-> "u8",
                                fragment_count |-> "u8", data |-> "data"],
    Acknowledge |-> [sequence |-> "u16", received_mask |-> "u32", sent_time |-> "option"],
    Ping |-> [timestamp |-> "u32"],
    Pong |-> [timestamp |-> "u32"],
    Connect |-> [channels |-> "u8", mtu |-> "u16", protocol_version |-> "u16",
                 outgoing_session_id |-> "u16", connect_id |-> "u32"],
    VerifyConnect |-> [peer_id |-> "u16", channels |-> "u8", mtu |-> "u16",
                       incoming_session_id |-> "u16", outgoing_session_id |-> "u16",
                       window_size |-> "u32"],
    Disconnect |-> [reason |-> "u32"],
    BandwidthLimit |-> [incoming |-> "u32", outgoing |-> "u32"],
    ThrottleConfigure |-> [interval |-> "u32", acceleration |-> "u32", deceleration |-> "u32"],
    PMTUProbe |-> [size |-> "u16", token |-> "u32", payload |-> "data"],
    PMTUReply |-> [size |-> "u16", token |-> "u32"]]

Kinds == DOMAIN CommandFields

HasType(v, type) ==
    CASE type = "u8" -> v \in 0 .. Base - 1
      [] type = "u16" -> v \in 0 .. U16 - 1
      [] type = "u32" -> v \in 0 .. U32 - 1
      [] type = "flag" -> v \in BOOLEAN
      [] type = "data" -> v \in Seq(0 .. Base - 1) /\ Len(v) < U16
      [] type = "option" -> v = NoTime \/ v \in 0 .. U32 - 1

Command(kind, args) == [kind |-> kind, args |-> args]

IsCommand(c) ==
    /\ c.kind \in Kinds
    /\ DOMAIN c.args = DOMAIN CommandFields[c.kind]
    /\ c = Command(c.kind, [f \in DOMAIN c.args |-> c.args[f]])
    /\ \A f \in DOMAIN c.args : HasType(c.args[f], CommandFields[c.kind][f])

AreCommands(cs) == cs \in Seq(Range(cs)) /\ \A i \in DOMAIN cs : IsCommand(cs[i])

(* ProtocolCommand::command_type.                                           *)
CommandType == [
    SendReliable |-> 1, SendUnreliable |-> 2, SendUnreliableSequenced |-> 3,
    SendUnsequenced |-> 4, SendFragment |-> 5, SendUnreliableFragment |-> 6,
    Acknowledge |-> 7, Ping |-> 8, Pong |-> 9, Connect |-> 10, VerifyConnect |-> 11,
    Disconnect |-> 12, BandwidthLimit |-> 13, ThrottleConfigure |-> 14,
    PMTUProbe |-> 15, PMTUReply |-> 16]

-----------------------------------------------------------------------------
(* One field: big endian digits, a flag as 0 or 1, data after its length    *)
(* cast to u16, an option as nothing or a u32.                              *)
PlaceValue == <<1, Base, U16, U16 * Base>>

Digits(v, n) == [i \in 1 .. n |-> (v \div PlaceValue[n + 1 - i]) % Base]

WithDigit(n, b) == n * Base + b

Number(bytes) == FoldLeft(WithDigit, 0, bytes)

FieldBytes(type, v) ==
    CASE type = "u8" -> Digits(v, 1)
      [] type = "u16" -> Digits(v, 2)
      [] type = "u32" -> Digits(v, 4)
      [] type = "flag" -> IF v THEN <<1>> ELSE <<0>>
      [] type = "data" -> Digits(Len(v), 2) \o v
      [] type = "option" -> IF v = NoTime THEN << >> ELSE Digits(v, 4)

Encoded(layout, c) ==
    <<CommandType[c.kind]>> \o
        FlattenSeq([i \in DOMAIN layout |-> FieldBytes(layout[i][2], c.args[layout[i][1]])])

(* encode_command_into: what each arm writes.                               *)
EncodeIntoLayout == [
    SendReliable |-> <<U8F("channel_id"), U16F("sequence"), FlagF("ordered"), DataF("data")>>,
    SendUnreliable |-> <<U8F("channel_id"), DataF("data")>>,
    SendUnreliableSequenced |-> <<U8F("channel_id"), U16F("sequence"), DataF("data")>>,
    SendUnsequenced |-> <<U8F("channel_id"), U16F("unsequenced_group"), DataF("data")>>,
    SendFragment |-> <<U8F("channel_id"), U16F("sequence"), FlagF("ordered"),
                       U8F("fragment_id"), U8F("fragment_count"), DataF("data")>>,
    SendUnreliableFragment |-> <<U8F("channel_id"), U16F("sequence"), U8F("fragment_id"),
                                 U8F("fragment_count"), DataF("data")>>,
    Acknowledge |-> <<U16F("sequence"), U32F("received_mask"), OptionF("sent_time")>>,
    Ping |-> <<U32F("timestamp")>>,
    Pong |-> <<U32F("timestamp")>>,
    Connect |-> <<U8F("channels"), U16F("mtu"), U16F("protocol_version"),
                  U16F("outgoing_session_id"), U32F("connect_id")>>,
    VerifyConnect |-> <<U16F("peer_id"), U8F("channels"), U16F("mtu"),
                        U16F("incoming_session_id"), U16F("outgoing_session_id"),
                        U32F("window_size")>>,
    Disconnect |-> <<U32F("reason")>>,
    BandwidthLimit |-> <<U32F("incoming"), U32F("outgoing")>>,
    ThrottleConfigure |-> <<U32F("interval"), U32F("acceleration"), U32F("deceleration")>>,
    PMTUProbe |-> <<U16F("size"), U32F("token"), DataF("payload")>>,
    PMTUReply |-> <<U16F("size"), U32F("token")>>]

EncodeCommandInto(c) == Encoded(EncodeIntoLayout[c.kind], c)

(* encode_command: the same match once more.                                *)
EncodeLayout == [
    SendReliable |-> <<U8F("channel_id"), U16F("sequence"), FlagF("ordered"), DataF("data")>>,
    SendUnreliable |-> <<U8F("channel_id"), DataF("data")>>,
    SendUnreliableSequenced |-> <<U8F("channel_id"), U16F("sequence"), DataF("data")>>,
    SendUnsequenced |-> <<U8F("channel_id"), U16F("unsequenced_group"), DataF("data")>>,
    SendFragment |-> <<U8F("channel_id"), U16F("sequence"), FlagF("ordered"),
                       U8F("fragment_id"), U8F("fragment_count"), DataF("data")>>,
    SendUnreliableFragment |-> <<U8F("channel_id"), U16F("sequence"), U8F("fragment_id"),
                                 U8F("fragment_count"), DataF("data")>>,
    Acknowledge |-> <<U16F("sequence"), U32F("received_mask"), OptionF("sent_time")>>,
    Ping |-> <<U32F("timestamp")>>,
    Pong |-> <<U32F("timestamp")>>,
    Connect |-> <<U8F("channels"), U16F("mtu"), U16F("protocol_version"),
                  U16F("outgoing_session_id"), U32F("connect_id")>>,
    VerifyConnect |-> <<U16F("peer_id"), U8F("channels"), U16F("mtu"),
                        U16F("incoming_session_id"), U16F("outgoing_session_id"),
                        U32F("window_size")>>,
    Disconnect |-> <<U32F("reason")>>,
    BandwidthLimit |-> <<U32F("incoming"), U32F("outgoing")>>,
    ThrottleConfigure |-> <<U32F("interval"), U32F("acceleration"), U32F("deceleration")>>,
    PMTUProbe |-> <<U16F("size"), U32F("token"), DataF("payload")>>,
    PMTUReply |-> <<U16F("size"), U32F("token")>>]

EncodeCommand(c) == Encoded(EncodeLayout[c.kind], c)

(* encode_packet_into writes the count, cast to u8, and each command after  *)
(* a length that it patches in place; encode_packet encodes each command    *)
(* by itself and writes its length first.                                   *)
EncodePacketInto(commands) ==
    <<Len(commands) % Base>> \o
        FlattenSeq([i \in DOMAIN commands |->
            LET bytes == EncodeCommandInto(commands[i])
            IN  <<(Len(bytes) \div Base) % Base, Len(bytes) % Base>> \o bytes])

EncodePacket(commands) ==
    <<Len(commands) % Base>> \o
        FlattenSeq([i \in DOMAIN commands |->
            LET bytes == EncodeCommand(commands[i]) IN Digits(Len(bytes), 2) \o bytes])

-----------------------------------------------------------------------------
(* decode_command: the kinds and what each arm reads, by command type.      *)

DecodeDataLayout == <<
    <<"SendReliable", <<U8F("channel_id"), U16F("sequence"), FlagF("ordered"), DataF("data")>> >>,
    <<"SendUnreliable", <<U8F("channel_id"), DataF("data")>> >>,
    <<"SendUnreliableSequenced", <<U8F("channel_id"), U16F("sequence"), DataF("data")>> >>,
    <<"SendUnsequenced", <<U8F("channel_id"), U16F("unsequenced_group"), DataF("data")>> >>,
    <<"SendFragment", <<U8F("channel_id"), U16F("sequence"), FlagF("ordered"),
                        U8F("fragment_id"), U8F("fragment_count"), DataF("data")>> >>,
    <<"SendUnreliableFragment", <<U8F("channel_id"), U16F("sequence"), U8F("fragment_id"),
                                  U8F("fragment_count"), DataF("data")>> >> >>

DecodeControlLayout == <<
    <<"Acknowledge", <<U16F("sequence"), U32F("received_mask"), OptionF("sent_time")>> >>,
    <<"Ping", <<U32F("timestamp")>> >>,
    <<"Pong", <<U32F("timestamp")>> >>,
    <<"Connect", <<U8F("channels"), U16F("mtu"), U16F("protocol_version"),
                   U16F("outgoing_session_id"), U32F("connect_id")>> >>,
    <<"VerifyConnect", <<U16F("peer_id"), U8F("channels"), U16F("mtu"),
                         U16F("incoming_session_id"), U16F("outgoing_session_id"),
                         U32F("window_size")>> >>,
    <<"Disconnect", <<U32F("reason")>> >>,
    <<"BandwidthLimit", <<U32F("incoming"), U32F("outgoing")>> >>,
    <<"ThrottleConfigure", <<U32F("interval"), U32F("acceleration"), U32F("deceleration")>> >>,
    <<"PMTUProbe", <<U16F("size"), U32F("token"), DataF("payload")>> >>,
    <<"PMTUReply", <<U16F("size"), U32F("token")>> >> >>

DecodeLayout == DecodeDataLayout \o DecodeControlLayout

(* Reads n bytes at the cursor; past the end is an error.                   *)
Read(cursor, n) == Slice(cursor.bytes, cursor.pos, n)

CanRead(cursor, n) == cursor.pos + n <= Len(cursor.bytes)

WithField(cursor, f, v, n) ==
    [cursor EXCEPT !.args = [g \in DOMAIN @ \cup {f} |-> IF g = f THEN v ELSE @[g]],
                   !.pos = @ + n]

Broken(cursor) == [cursor EXCEPT !.ok = FALSE]

ReadNumber(cursor, f, n) ==
    IF CanRead(cursor, n) THEN WithField(cursor, f, Number(Read(cursor, n)), n)
    ELSE Broken(cursor)

ReadFlag(cursor, f) ==
    IF CanRead(cursor, 1) THEN WithField(cursor, f, Read(cursor, 1) # <<0>>, 1)
    ELSE Broken(cursor)

ReadData(cursor, f) ==
    LET len == Number(Read(cursor, 2))
    IN  IF CanRead(cursor, 2) /\ CanRead(cursor, 2 + len)
        THEN WithField(cursor, f, Read([cursor EXCEPT !.pos = @ + 2], len), 2 + len)
        ELSE Broken(cursor)

(* sent_time is there iff the command has bytes left.                       *)
ReadOption(cursor, f) ==
    IF cursor.pos < Len(cursor.bytes) THEN ReadNumber(cursor, f, 4)
    ELSE WithField(cursor, f, NoTime, 0)

ReadField(cursor, field) ==
    CASE ~cursor.ok -> cursor
      [] cursor.ok /\ field[2] = "u8" -> ReadNumber(cursor, field[1], 1)
      [] cursor.ok /\ field[2] = "u16" -> ReadNumber(cursor, field[1], 2)
      [] cursor.ok /\ field[2] = "u32" -> ReadNumber(cursor, field[1], 4)
      [] cursor.ok /\ field[2] = "flag" -> ReadFlag(cursor, field[1])
      [] cursor.ok /\ field[2] = "data" -> ReadData(cursor, field[1])
      [] cursor.ok /\ field[2] = "option" -> ReadOption(cursor, field[1])

DecodeCommand(bytes) ==
    IF bytes = << >> \/ Head(bytes) \notin DOMAIN DecodeLayout THEN Failure
    ELSE LET arm == DecodeLayout[Head(bytes)]
             end == FoldLeft(ReadField, [bytes |-> bytes, pos |-> 1, ok |-> TRUE, args |-> << >>],
                             arm[2])
         IN  IF end.ok THEN Success(Command(arm[1], end.args)) ELSE Failure

(* decode_packet: each command is decoded within its own length, which must *)
(* lie inside the datagram, and skipped by that length.                     *)
DecodeNext(packet, n) ==
    LET prefix == Slice(packet.rest, 0, 2)
        len == Number(prefix)
        decoded == DecodeCommand(Slice(packet.rest, 2, len))
    IN  IF ~packet.ok \/ Len(prefix) < 2 \/ 2 + len > Len(packet.rest) \/ ~decoded.ok
        THEN [packet EXCEPT !.ok = FALSE]
        ELSE [packet EXCEPT !.commands = Append(@, decoded.value),
                            !.rest = Slice(@, 2 + len, Len(@))]

DecodePacket(bytes) ==
    IF bytes = << >> THEN Failure
    ELSE LET start == [ok |-> TRUE, rest |-> Tail(bytes), commands |-> << >>]
             end == FoldLeft(DecodeNext, start, [n \in 1 .. Head(bytes) |-> n])
         IN  IF end.ok THEN Success(end.commands) ELSE Failure

-----------------------------------------------------------------------------
(* Stand-ins for zlib and LZ4: bytes and run lengths.                       *)

WithRun(runs, b) ==
    IF runs # << >> /\ runs[Len(runs) - 1] = b /\ runs[Len(runs)] < Base - 1
    THEN [runs EXCEPT ![Len(runs)] = @ + 1]
    ELSE runs \o <<b, 1>>

Deflate(data) == FoldLeft(WithRun, << >>, data)

Inflate(bytes) ==
    IF Len(bytes) % 2 # 0 THEN Failure
    ELSE Success(FlattenSeq([i \in 1 .. Len(bytes) \div 2 |->
                    [j \in 1 .. bytes[2 * i] |-> bytes[2 * i - 1]]]))

WithByte(sum, b) == sum + b + 1

Hash(data) == Digits(FoldLeft(WithByte, 0, data) % U32, 4)

(* compress_with_buffer: below the threshold, or when it would not shrink,  *)
(* the data goes out as it is, after a marker that says so.                 *)
CompressAlways(data, algorithm, threshold) ==
    CASE Len(data) < threshold \/ algorithm = "None" -> <<0>> \o data
      [] Len(data) >= threshold /\ algorithm = "Zlib" -> <<1>> \o Deflate(data)
      [] Len(data) >= threshold /\ algorithm = "Lz4" ->
            <<2>> \o Digits(Len(data), 4) \o Deflate(data)

Compress(data, algorithm, threshold) ==
    LET packed == Deflate(data)
    IN  CASE Len(data) >= threshold /\ algorithm = "Zlib" /\ Len(packed) < Len(data) ->
               <<1>> \o packed
          [] Len(data) >= threshold /\ algorithm = "Lz4" /\ Len(packed) + 4 < Len(data) ->
               <<2>> \o Digits(Len(data), 4) \o packed
          [] OTHER -> <<0>> \o data

DecompressSizeAndData(bytes) ==
    IF bytes = << >> THEN Failure
    ELSE IF Head(bytes) = 0 THEN Success(Tail(bytes)) ELSE Inflate(Tail(bytes))

(* decompress goes by the marker; LZ4 gets the original size to expect.     *)
Decompress(bytes) ==
    IF bytes = << >> THEN Failure
    ELSE LET payload == Tail(bytes)
             unpacked == Inflate(Slice(payload, 4, Len(payload)))
         IN  CASE Head(bytes) = 0 -> Success(payload)
               [] Head(bytes) = 1 -> Inflate(payload)
               [] Head(bytes) = 2 ->
                    IF /\ Len(payload) >= 4
                       /\ unpacked.ok
                       /\ Len(unpacked.value) <= Number(Slice(payload, 0, 4))
                    THEN unpacked ELSE Failure
               [] OTHER -> Failure

(* append_checksum_in_place, and validate_and_strip_checksum.               *)
AppendChecksum(data) == data \o Hash(data)

StripChecksum(bytes) ==
    LET payload == Slice(bytes, 0, Len(bytes) - 4)
    IN  IF Len(bytes) >= 4 /\ Hash(payload) = Slice(bytes, Len(bytes) - 4, 4)
        THEN Success(payload) ELSE Failure

=============================================================================
