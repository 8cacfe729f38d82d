---------------------------- MODULE PeerControl ----------------------------
(***************************************************************************)
(* One Peer between the wire and its controls: datagrams are encoded,      *)
(* compressed, summed and parsed back to commands (module Codec); control  *)
(* commands of the remote move the handshake, the flow-control window, the *)
(* bandwidth limits and the throttle (process_packet,                      *)
(* process_command_packet, process_command); acknowledgements, losses and  *)
(* the clock move the estimates those controls use.                        *)
(*                                                                         *)
(* Commands that carry data, Acknowledge and PMTUReply are only encoded    *)
(* here; what their arrival does is in Fragmentation, ChannelState,        *)
(* UnsequencedState, Acknowledgment and SendPath.                          *)
(***************************************************************************)
EXTENDS Codec, FlowControl, CongestionControl, PeerState

CONSTANTS
    OwnSessionId,        \* outgoing_session_id, drawn when the peer is made
    OwnConnectId,
    ChannelCount, Mtu,
    Threshold,           \* Config::compression_threshold
    PeerIds,             \* peer ids a server may draw
    Queued,              \* what may wait in the queue when the peer is observed
    Datagrams,           \* command lists the remote sends
    Cuts,                \* lengths to which the network cuts some of them
    Sizes, Samples,      \* bytes sent or acknowledged, round-trip samples
    Batches,             \* packets registered or given up at a time
    MaxEvents            \* bound: steps observed

ControlKinds == {"Ping", "Pong", "Connect", "VerifyConnect", "Disconnect",
                 "BandwidthLimit", "ThrottleConfigure", "PMTUProbe"}

ASSUME PeerControlAssumption ==
    /\ MaxU32 = U32 - 1 /\ WordMax = U32 - 1
    /\ OwnSessionId \in 0 .. U16 - 1 /\ OwnConnectId \in 0 .. U32 - 1
    /\ ChannelCount \in 0 .. Base - 1 /\ Mtu \in 0 .. U16 - 1 /\ Threshold \in Nat
    /\ PeerIds \subseteq 0 .. U16 - 1
    /\ \A s \in Queued \cup Datagrams : AreCommands(s)
    /\ \A d \in Datagrams : \A i \in DOMAIN d : d[i].kind \in ControlKinds
    /\ Sizes \cup Samples \cup Batches \cup Cuts \subseteq Nat
    /\ MaxEvents \in Nat

VARIABLES
    config,          \* [algorithm, checksums]: it never changes
    peer,            \* [state, peer_id, incoming_session_id, connect_id]
    flow,            \* FlowControl
    congestion,      \* CongestionControl
    bandwidth,       \* BandwidthThrottle
    statistics,      \* PeerStatistics
    command_queue,
    wire,            \* the datagram just encoded: [commands, bytes]
    heard,           \* history: CONNECT and VERIFY_CONNECT commands processed
    offers,          \* history: windows offered to a connecting peer
    adjusted,        \* history: has the window been adjusted?
    due,             \* history: answers owed to the requests processed
    outstanding,     \* history: reliable bytes sent and not acknowledged
    fresh_loss,      \* history: losses since the last throttle update
    samples,         \* history: round-trip samples, and the initial estimate
    events

control == <<peer, flow, congestion, bandwidth, command_queue>>
history == <<heard, offers, adjusted, due, outstanding, fresh_loss, samples>>
vars == <<config, control, statistics, wire, history, events>>

NoDatagram == [commands |-> << >>, bytes |-> << >>]

-----------------------------------------------------------------------------
(* PeerStatistics.                                                          *)
NewStatistics ==
    [packets_sent |-> 0, packets_received |-> 0, packets_lost |-> 0,
     bytes_sent |-> 0, bytes_received |-> 0]

Counted(counter, n) == [statistics EXCEPT ![counter] = @ + n]

CountedPacket(packets, bytes, size) == [Counted(packets, 1) EXCEPT ![bytes] = @ + size]

(* BandwidthThrottle, configured without limits; BandwidthLimit sets them.  *)
NewBandwidth ==
    [sent |-> 0, received |-> 0, expired |-> FALSE, incoming_limit |-> 0, outgoing_limit |-> 0]

(* The window restarts at the first packet or update after it is over; both *)
(* counters saturate; a limit of 0 is none.                                 *)
UpdateBandwidthWindow(b) ==
    IF b.expired THEN [b EXCEPT !.sent = 0, !.received = 0, !.expired = FALSE] ELSE b

RecordBytesReceived(b, n) ==
    [b EXCEPT !.received = IF n > U32 - 1 - @ THEN U32 - 1 ELSE @ + n]

CanReceive(b) == b.incoming_limit = 0 \/ b.received < b.incoming_limit

-----------------------------------------------------------------------------
(* process_command, one operator per control command.  p is the part of the *)
(* Peer a command can change, with drawn, the peer id a CONNECT would get,  *)
(* and ok, the Result.                                                      *)

ThePeer(id) == [peer |-> peer, flow |-> flow, congestion |-> congestion, bandwidth |-> bandwidth,
                queue |-> command_queue, drawn |-> id, ok |-> TRUE]

Answer(p, kind, args) == [p EXCEPT !.queue = Append(@, Command(kind, args))]

OnPing(p, a) == Answer(p, "Pong", [timestamp |-> a.timestamp])

(* A CONNECT is taken by an idle peer; the peer id is drawn at random.      *)
TakeConnect(p, a) ==
    LET q == [p EXCEPT !.peer = [state |-> OnConnect(p.peer.state), peer_id |-> p.drawn,
                                 incoming_session_id |-> a.outgoing_session_id,
                                 connect_id |-> a.connect_id]]
    IN  IF p.peer.state # "Idle" THEN p
        ELSE Answer(q, "VerifyConnect",
                    [peer_id |-> p.drawn, channels |-> AtMost(a.channels, ChannelCount), mtu |-> Mtu,
                     incoming_session_id |-> a.outgoing_session_id,
                     outgoing_session_id |-> OwnSessionId, window_size |-> p.flow.window_size])

(* The ids and the window are overwritten before the session id is looked   *)
(* at; with a foreign one the peer goes on connecting and the packet fails. *)
TakeVerifyUnchecked(p, a) ==
    IF p.peer.state # "Connecting" THEN p
    ELSE [p EXCEPT !.peer.peer_id = a.peer_id,
                   !.peer.incoming_session_id = a.incoming_session_id,
                   !.peer.state = OnVerifyConnect(@)]

TakeVerifyReplacing(p, a) ==
    IF p.peer.state # "Connecting" THEN p
    ELSE [p EXCEPT !.peer.peer_id = a.peer_id,
                   !.peer.incoming_session_id = a.incoming_session_id,
                   !.peer.state = IF a.outgoing_session_id = OwnSessionId THEN OnVerifyConnect(@) ELSE @,
                   !.flow = SetWindowSize(@, a.window_size),
                   !.ok = a.outgoing_session_id = OwnSessionId]

TakeVerify(p, a) ==
    LET known == a.outgoing_session_id = OwnSessionId
        window == AtMost(a.window_size, p.flow.window_size)
    IN  IF p.peer.state # "Connecting" THEN p
        ELSE [p EXCEPT !.peer = [p.peer EXCEPT
                                    !.peer_id = a.peer_id,
                                    !.incoming_session_id = a.incoming_session_id,
                                    !.state = IF known THEN OnVerifyConnect(@) ELSE @],
                       !.flow = IF UseWindowFlowControl THEN SetWindowSize(@, window) ELSE @,
                       !.ok = known]

OnBandwidthLimit(p, a) ==
    [p EXCEPT !.bandwidth.incoming_limit = a.incoming, !.bandwidth.outgoing_limit = a.outgoing]

OnThrottleConfigure(p, a) ==
    [p EXCEPT !.congestion = ConfigureThrottle(@, a.interval, a.acceleration, a.deceleration)]

OnPmtuProbe(p, a) == Answer(p, "PMTUReply", [size |-> a.size, token |-> a.token])

ProcessCommand(p, c) ==
    CASE c.kind = "Ping" -> OnPing(p, c.args)
      [] c.kind = "Disconnect" -> [p EXCEPT !.peer.state = OnDisconnect(@)]
      [] c.kind = "Connect" -> TakeConnect(p, c.args)
      [] c.kind = "VerifyConnect" -> TakeVerify(p, c.args)
      [] c.kind = "BandwidthLimit" -> OnBandwidthLimit(p, c.args)
      [] c.kind = "ThrottleConfigure" -> OnThrottleConfigure(p, c.args)
      [] c.kind = "PMTUProbe" -> OnPmtuProbe(p, c.args)
      [] OTHER -> p

(* process_command_packet: the first command that fails ends the packet,    *)
(* what the ones before it did stays.                                       *)
ProcessAllAnyway(p, commands) == FoldLeft(ProcessCommand, p, commands)

ProcessIfOk(p, c) == IF p.ok THEN ProcessCommand(p, c) ELSE p

ProcessCommands(p, commands) == FoldLeft(ProcessIfOk, p, commands)

-----------------------------------------------------------------------------
(* encode_queued_commands: everything queued goes into one datagram,        *)
(* compressed and then summed; a receiver undoes it in the other order.     *)

Datagram(commands, c) ==
    LET data == Compress(EncodePacketInto(commands), c.algorithm, Threshold)
    IN  IF c.checksums THEN AppendChecksum(data) ELSE data

Parse(bytes, c) ==
    LET stripped == IF c.checksums THEN StripChecksum(bytes) ELSE Success(bytes)
        unpacked == Decompress(stripped.value)
    IN  IF stripped.ok /\ unpacked.ok THEN DecodePacket(unpacked.value) ELSE Failure

Configs == [algorithm : Algorithms, checksums : BOOLEAN]

(* The remote's datagrams with what they parse to, under each               *)
(* configuration, whole and cut short on the way.                           *)
Arrivals ==
    {[config |-> c, bytes |-> Datagram(d, c), parsed |-> Parse(Datagram(d, c), c)] :
        c \in Configs, d \in Datagrams}

Cut(a, n) ==
    [a EXCEPT !.bytes = Slice(a.bytes, 0, n), !.parsed = Parse(Slice(a.bytes, 0, n), a.config)]

Network == Arrivals \cup {Cut(a, n) : a \in Arrivals, n \in Cuts}

-----------------------------------------------------------------------------
(* What a processed packet adds to the history.                             *)

(* The answers among some commands.                                         *)
WithAnswer(answers, c) ==
    IF c.kind \in {"Pong", "PMTUReply"} THEN Append(answers, c) ELSE answers

AnswersIn(commands) == FoldLeft(WithAnswer, << >>, commands)

AnswerTo(c) ==
    IF c.kind = "Ping" THEN Command("Pong", [timestamp |-> c.args.timestamp])
    ELSE Command("PMTUReply", [size |-> c.args.size, token |-> c.args.token])

(* What the commands of a packet ask for and offer, one by one: a           *)
(* VERIFY_CONNECT for another session ends the packet of a connecting peer. *)
Observe(h, c) ==
    LET offered == h.connecting /\ c.kind = "VerifyConnect"
        foreign == offered /\ c.args.outgoing_session_id # OwnSessionId
    IN  IF h.refused THEN h
        ELSE [connecting |-> h.connecting /\ c.kind # "Disconnect" /\ (offered => foreign),
              refused |-> foreign,
              offers |-> IF offered THEN h.offers \cup {c.args.window_size} ELSE h.offers,
              due |-> IF c.kind \in {"Ping", "PMTUProbe"} THEN Append(h.due, AnswerTo(c)) ELSE h.due]

Observed(commands) ==
    FoldLeft(Observe, [connecting |-> peer.state = "Connecting", refused |-> FALSE,
                       offers |-> offers, due |-> due], commands)

Introductions(commands) ==
    {c \in Range(commands) : c.kind \in {"Connect", "VerifyConnect"}}

Step == events < MaxEvents /\ events' = events + 1 /\ UNCHANGED config

-----------------------------------------------------------------------------
(* Peer::process_packet on an arrival a.  Over the incoming limit it is     *)
(* dropped before anything looks at it.                                     *)
Admits == CanReceive(UpdateBandwidthWindow(bandwidth))

DropOverLimit ==
    /\ Step
    /\ ~Admits
    /\ bandwidth' = UpdateBandwidthWindow(bandwidth)
    /\ wire' = NoDatagram
    /\ UNCHANGED <<peer, flow, congestion, command_queue, statistics, history>>

Received(a) == RecordBytesReceived(UpdateBandwidthWindow(bandwidth), Len(a.bytes))

(* A datagram that cannot be parsed counts as bytes, not as a packet; an    *)
(* empty one changes nothing.                                               *)
ReceiveMalformed(a) ==
    /\ Step
    /\ a.config = config /\ Admits /\ ~a.parsed.ok /\ a.bytes # << >>
    /\ bandwidth' = Received(a)
    /\ statistics' = Counted("bytes_received", Len(a.bytes))
    /\ wire' = NoDatagram
    /\ UNCHANGED <<peer, flow, congestion, command_queue, history>>

(* record_recv runs only after a packet without an error.                   *)
ReceivePacket(a, id) ==
    LET commands == a.parsed.value
        p == ProcessCommands([ThePeer(id) EXCEPT !.bandwidth = Received(a)], commands)
    IN  /\ Step
        /\ a.config = config /\ Admits /\ a.parsed.ok
        /\ peer' = IF p.ok THEN [p.peer EXCEPT !.state = RecordRecv(@)] ELSE p.peer
        /\ flow' = p.flow /\ congestion' = p.congestion /\ bandwidth' = p.bandwidth
        /\ command_queue' = p.queue
        /\ statistics' = CountedPacket("packets_received", "bytes_received", Len(a.bytes))
        /\ wire' = NoDatagram
        /\ heard' = heard \cup Introductions(commands)
        /\ offers' = Observed(commands).offers /\ due' = Observed(commands).due
        /\ UNCHANGED <<adjusted, outstanding, fresh_loss, samples>>

-----------------------------------------------------------------------------
(* Peer::record_send; with the handshake an idle peer queues a CONNECT.     *)
RecordSendStep ==
    /\ Step
    /\ RecordSend(peer.state) # peer.state
    /\ peer' = [peer EXCEPT !.state = RecordSend(@)]
    /\ command_queue' =
           IF Handshake /\ peer.state = "Idle"
           THEN Append(command_queue, Command("Connect",
                   [channels |-> ChannelCount, mtu |-> Mtu, protocol_version |-> 1,
                    outgoing_session_id |-> OwnSessionId, connect_id |-> peer.connect_id]))
           ELSE command_queue
    /\ wire' = NoDatagram
    /\ UNCHANGED <<flow, congestion, bandwidth, statistics, history>>

EncodeQueuedCommands ==
    LET bytes == Datagram(command_queue, config)
    IN  /\ Step
        /\ command_queue # << >>
        /\ wire' = [commands |-> command_queue, bytes |-> bytes]
        /\ command_queue' = << >> /\ due' = << >>
        /\ statistics' = CountedPacket("packets_sent", "bytes_sent", Len(bytes))
        /\ UNCHANGED <<peer, flow, congestion, bandwidth, heard, offers, adjusted, outstanding,
                       fresh_loss, samples>>

(* The peer's interface to flow and congestion control.                     *)
Controls(f, cc) ==
    /\ Step
    /\ flow' = f /\ congestion' = cc
    /\ wire' = NoDatagram
    /\ UNCHANGED <<peer, bandwidth, command_queue, heard, offers, due>>

RecordReliableDataSent(size) ==
    /\ Controls(RecordReliableSent(flow, size), congestion)
    /\ outstanding' = outstanding + size
    /\ UNCHANGED <<statistics, adjusted, fresh_loss, samples>>

RecordReliableDataAcked(size) ==
    /\ size <= outstanding
    /\ Controls(RecordReliableAcked(flow, size), congestion)
    /\ outstanding' = outstanding - size
    /\ UNCHANGED <<statistics, adjusted, fresh_loss, samples>>

AdjustWindow ==
    /\ Controls(AdjustWindowSize(flow, LossBelow(congestion, 100), LossAbove(congestion, 20),
                                 congestion.rtt), congestion)
    /\ adjusted' = TRUE
    /\ UNCHANGED <<statistics, outstanding, fresh_loss, samples>>

(* AcknowledgmentHandler: packets registered, acknowledged, given up.       *)
RegisterPackets(n) ==
    /\ Controls(flow, RecordSent(congestion, n))
    /\ UNCHANGED <<statistics, adjusted, outstanding, fresh_loss, samples>>

MeasureRtt(sample) ==
    /\ \E cc \in UpdateRtt(congestion, sample) : Controls(flow, cc)
    /\ samples' = samples \cup {sample}
    /\ UNCHANGED <<statistics, adjusted, outstanding, fresh_loss>>

GatherDroppedPackets(n) ==
    /\ Controls(flow, RecordLoss(congestion, n))
    /\ statistics' = Counted("packets_lost", n)
    /\ fresh_loss' = TRUE
    /\ UNCHANGED <<adjusted, outstanding, samples>>

UpdateThrottleStep ==
    /\ CanUpdate(congestion)
    /\ Controls(flow, UpdateThrottle(congestion))
    /\ fresh_loss' = FALSE
    /\ UNCHANGED <<statistics, adjusted, outstanding, samples>>

(* A second passes: the bandwidth window is over.                           *)
Second ==
    /\ Step
    /\ bandwidth' = [bandwidth EXCEPT !.expired = TRUE]
    /\ congestion' = [congestion EXCEPT !.elapsed = @ + 1000]
    /\ wire' = NoDatagram
    /\ UNCHANGED <<peer, flow, command_queue, statistics, history>>

-----------------------------------------------------------------------------
(* Bound: a peer observed with commands queued, in any configuration, takes *)
(* one step; a new peer, without compression and checksums, takes them all. *)
Plain == [algorithm |-> "None", checksums |-> FALSE]

Init ==
    /\ config \in Configs
    /\ command_queue \in Queued
    /\ command_queue = << >> => config = Plain
    /\ peer = [state |-> "Idle", peer_id |-> 0, incoming_session_id |-> 0,
               connect_id |-> OwnConnectId]
    /\ flow = NewFlow
    /\ \E advanced \in BOOLEAN : congestion = NewCongestion(advanced)
    /\ bandwidth = NewBandwidth /\ statistics = NewStatistics
    /\ wire = NoDatagram
    /\ heard = {} /\ offers = {} /\ adjusted = FALSE /\ due = AnswersIn(command_queue)
    /\ outstanding = 0 /\ fresh_loss = FALSE /\ samples = {congestion.rtt}
    /\ events = IF command_queue = << >> THEN 0 ELSE MaxEvents - 1

Next ==
    \/ \E a \in Network : ReceiveMalformed(a)
    \/ \E a \in Network, id \in PeerIds : ReceivePacket(a, id)
    \/ DropOverLimit
    \/ RecordSendStep
    \/ EncodeQueuedCommands
    \/ \E size \in Sizes : RecordReliableDataSent(size) \/ RecordReliableDataAcked(size)
    \/ AdjustWindow
    \/ \E n \in Batches : RegisterPackets(n) \/ GatherDroppedPackets(n)
    \/ \E sample \in Samples : MeasureRtt(sample)
    \/ UpdateThrottleStep
    \/ Second

Spec == Init /\ [][Next]_vars

-----------------------------------------------------------------------------
TypeOK ==
    /\ config \in Configs
    /\ peer.state \in PeerStates
    /\ {peer.peer_id, peer.incoming_session_id} \subseteq 0 .. U16 - 1
    /\ peer.connect_id \in 0 .. U32 - 1
    /\ flow.window_size \in MinWindow .. MaxWindow
    /\ flow.reliable_data_in_transit \in 0 .. MaxU32
    /\ congestion.throttle \in 0 .. FullThrottle /\ congestion.packet_throttle \in 0 .. Scale
    /\ congestion.rtt \in Nat /\ congestion.rtt_variance \in Nat
    /\ bandwidth.received \in 0 .. U32 - 1
    /\ AreCommands(command_queue)
    /\ \A i \in DOMAIN wire.bytes : wire.bytes[i] \in 0 .. Base - 1

Encoding == wire # NoDatagram /\ Len(wire.commands) < Base

(* Whatever the queue held, the datagram made of it parses back to exactly  *)
(* those commands, under every compression algorithm and with checksums or  *)
(* without (the tables of encoder and decoder, the marker and the checksum  *)
(* fit together), as long as their number fits the count byte.              *)
RoundTrip == Encoding => Parse(wire.bytes, config) = Success(wire.commands)

(* encode_packet and encode_packet_into, which write the same format twice, *)
(* produce the same bytes: the sizes the bounded encoder adds up with       *)
(* encode_command are the sizes encode_packet_into writes.                  *)
EncodersAgree == Encoding => EncodePacket(wire.commands) = EncodePacketInto(wire.commands)

(* A datagram cut short anywhere, as a receive buffer that is too small     *)
(* does, is rejected as a whole; it is never taken for other commands, the  *)
(* optional sent_time of an Acknowledge included.                           *)
TruncatedIsRejected ==
    Encoding => \A n \in 0 .. Len(wire.bytes) - 1 :
        ~Parse(SubSeq(wire.bytes, 1, n), config).ok

(* What the encoder writes, the decoder reads back, and nothing else:       *)
(* decode_packet accepts the whole datagram and no part of it.              *)
WireFormat == RoundTrip /\ TruncatedIsRejected

(* The overhead encode_queued_commands_bounded reserves.                    *)
StaticOverhead(c) ==
    1 + (IF c.algorithm = "Lz4" THEN 5 ELSE 1) + (IF c.checksums THEN 4 ELSE 0)

WithCommandBytes(n, c) == n + 2 + Len(EncodeCommand(c))

CommandBytes(commands) == FoldLeft(WithCommandBytes, 0, commands)

(* Compression and checksum never push a datagram past the size by which    *)
(* the bounded encoder chose its commands: its final size check, which      *)
(* would lose them, does not fire.                                          *)
DatagramWithinBudget ==
    Encoding => Len(wire.bytes) <= StaticOverhead(config) + CommandBytes(wire.commands)

(* encode_queued_commands_bounded relies on both: sizes computed with one   *)
(* encoder for bytes written by the other, and a bound on the overhead.     *)
SizesAreSafe == EncodersAgree /\ DatagramWithinBudget

(* With the handshake, an established peer got all its ids from one         *)
(* command: a VERIFY_CONNECT that names its own session, or the CONNECT it  *)
(* answered; ids of commands refused or ignored in between never stay.      *)
EstablishedByOneIntroduction ==
    Handshake /\ IsEstablished(peer.state) => \E c \in heard :
        /\ c.kind = "VerifyConnect" =>
              /\ c.args.outgoing_session_id = OwnSessionId
              /\ peer.peer_id = c.args.peer_id
              /\ peer.incoming_session_id = c.args.incoming_session_id
        /\ c.kind = "Connect" =>
              /\ peer.incoming_session_id = c.args.outgoing_session_id
              /\ peer.connect_id = c.args.connect_id

(* Until it is adjusted, the window is the least of the initial one and all *)
(* those offered while connecting, kept within the configured bounds; an    *)
(* offer in a VERIFY_CONNECT that is then refused counts too.               *)
NegotiatedWindowIsLeast ==
    UseWindowFlowControl /\ ~adjusted =>
        flow.window_size =
            AtMost(AtLeast(Min(offers \cup {InitialWindow}), MinWindow), MaxWindow)

(* Once everything sent has been acknowledged the peer may send again,      *)
(* however the counter saturated and the window shrank on the way, unless   *)
(* the configuration allows no packet in flight at all.                     *)
AllAckedMaySend == outstanding = 0 /\ MaxPacketsInFlight > 0 => CanSendReliable(flow, 0)

(* The round-trip estimate stays between the least and the greatest sample, *)
(* up to the millisecond that rounding may lose, and with it the            *)
(* retransmission timeout that PMTU probes wait for: no order of samples    *)
(* drives either of them away.                                              *)
RttIsBracketed ==
    LET spread == Max(samples) - Min(samples) + 1
    IN  /\ congestion.rtt \in Min(samples) - 1 .. Max(samples)
        /\ Rto(congestion) <= Max(samples) + 4 * AtLeast(25, spread)

(* The queue holds one answer for each request processed and not yet        *)
(* answered, in order, also when a later command of the same packet failed. *)
AnswersMatchRequests == AnswersIn(command_queue) = due

(* The throttle never tightens in an update without a loss since the update *)
(* before, so a loss counts once, and no drop of unreliable packets starts  *)
(* without one.  (Only an acceleration configured so large that the sum     *)
(* wraps can tighten it further.)                                           *)
SlowdownNeedsLoss ==
    [][/\ congestion'.throttle > congestion.throttle =>
             fresh_loss \/ congestion.acceleration > WordMax - Scale
       /\ MayDropUnreliable(congestion') /\ ~MayDropUnreliable(congestion) => fresh_loss]_vars

(* The controls stay within their types and bounds, the window within       *)
(* min_window_size and max_window_size, and never close for good.           *)
ControlInv == TypeOK /\ AllAckedMaySend

=============================================================================
