# A TLA+ verification of bitfold

bitfold is a game-networking library in Rust: reliable, ordered, sequenced and
unsequenced messages over UDP, with sessions, a connection handshake, batching,
fragmentation, bandwidth limits and path-MTU discovery. This directory models its
protocol logic in TLA+, checks the models with TLC on small instances, and proves
the central properties with TLAPS for every value of the parameters.

All source paths below are relative to `src/`. `PROJECT.json` maps every
definition to the lines it translates, and lists runs, mutants, findings, hazards
and theorems.

## 1. Inventory

### Parts, state and operations

| Part (source) | State | Operations |
|---|---|---|
| Session manager (`bitfold-host/session_manager.rs`, `peer_session.rs`) | `sessions`, `duplicate_peer_count`, a local counter of unestablished sessions per poll, pending events | `manual_poll`: receive loop, user events, `update` and `should_drop` of all sessions, removal |
| Host facade (`bitfold-host/socket.rs`) | the manager, event channels | `send`, `recv`, `disconnect`, `manual_poll`, `start_polling` |
| Peer life cycle (`bitfold-peer/peer_state.rs`, `peer/mod.rs`) | `state`, session ids, `connect_id` | `record_send`, `record_recv`, `initiate_connect`, `disconnect` |
| Command processing (`peer/command_processor.rs`) | the whole `Peer` | one arm per protocol command |
| Channel ordering (`channel_state.rs`) | `expected_sequence`, `buffered_packets`, `latest_sequence` | `process_ordered`, `process_sequenced` |
| Unsequenced filter (`unsequenced.rs`) | base of the window, 32 words of 32 bits, outgoing counter | `is_duplicate`, `mark_received`, `next_outgoing_group` |
| Send path (`peer/fragmenter.rs`, `command_queue.rs`, `peer/encoder.rs`, `peer_session.rs`) | `command_queue`, `total_waiting_data` | `enqueue_*_data`, `enqueue_command`, `encode_queued_commands_bounded`, the flush loops |
| Bandwidth throttle (`bandwidth_throttle.rs`) | bytes per window, limits | `can_send_within_bandwidth`, window reset |
| PMTU discovery (`pmtu_discovery.rs`) | `fragment_size`, `low`, `high`, `outstanding`, `last_probe` | `handle_pmtu`, `process_reply` |
| Fragment reassembly (`fragment_buffer.rs`, two arms of `process_command`) | `command_fragments` by sequence number | `add_fragment`, `reassemble`, `cleanup_stale_fragments` |
| Acknowledgements (`bitfold-protocol/acknowledgment.rs`, `sequence_buffer.rs`) | sent packets, 33 slots of received packets | `process_incoming`, `process_outgoing`, `ack_bitfield`, `dropped_packets` |
| Congestion control (`congestion.rs`) | RTT and its variance, packets sent and lost, throttle | `update_rtt`, `record_loss`, `update_throttle`, `configure_throttle` |
| Window flow control (`flow_control.rs`) | `window_size`, bytes in transit | `set_window_size`, `can_send_reliable`, `adjust_window_size` |
| Wire codec (`command.rs`, `command_codec/`) | none | two encoders, one decoder, compression, checksum |
| Statistics (`statistics.rs`) | five counters | advanced where packets are sent, received and given up |
| Packet pool, interceptor, shared bytes | buffers | reuse, no protocol state |

The application talks to `Host`, which puts packets on a channel. One thread calls
`manual_poll`, which alone touches sessions: it reads datagrams, hands each to the
`Peer` of its address (creating one for an unknown address), then works through the
user events, then calls `update` on every peer, then drops peers. A `Peer` decodes
a datagram into commands; a command changes the peer, may queue answers in the same
command queue the application's data goes through, and may yield payloads.
`process_event` and `update` flush that queue into datagrams.

### What is hard here

Sessions belong to one thread; other threads reach it only through two channels, to
send packets and to read events. What makes this code hard is the order in which
things reach that one thread:

* datagrams lost, repeated, delayed past a restart and reordered, against wrapping
  16-bit numbers (channels, unsequenced window);
* several commands in one datagram changing a peer before `record_recv` compares
  its state before and after (events), or failing half way;
* events collected during a poll and published at its end, while the application reads
  and sends;
* counters kept in more than one place: the local unestablished counter, the per-IP
  counts, `total_waiting_data`, bytes in transit, losses and packets;
* a fragment size that changes while commands cut for the old one wait, and PMTU
  probes that wait behind them in the same queue;
* a PMTU probe declared lost and answered later;
* one wire format written down three times, and sizes computed from one copy for bytes
  written by another;
* fragments collected under a sequence number that other messages use too;
* acknowledgements of acknowledgements: which of two uses of a number one is about;
* promises that something happens in the end: silent sessions are dropped,
  handshakes complete, messages arrive, the queue drains.

`PROJECT.json` lists each of these at its line under "hazards".

### What makes each part correct

* channel ordering: ordered payloads come out in the order sent, with no gap or
  repetition, and nothing deliverable is held back; sequenced delivery never skips a
  newer packet and never goes back;
* unsequenced filter: no duplicate gets through, and no packet that is at most half
  a window late is refused;
* session manager: the counts equal what they count, the limits hold at every point
  of a poll, the application is told of every connection and of no other, no silent
  session stays;
* link: both ends agree on a session they think established, a message is delivered
  at most once within a session, and what was sent arrives;
* send path: `total_waiting_data` is exact, the queue is first-in first-out through
  every partial drain, a bandwidth window is exceeded by less than a datagram, the
  queue drains;
* PMTU discovery: the fragment size is raised only to sizes the path has carried,
  and the search stays bracketed;
* host: an application that reads its events in order knows its connections;
* fragments: what comes out is what one message was cut into, and nothing stays behind
  without a cause;
* acknowledgements: what counts as acknowledged was received, nothing is given up while
  it could still be acknowledged, and no packet is forgotten;
* codec: decoding undoes encoding under every setting, and nothing cut short is
  accepted;
* controls: window, round-trip estimate and throttle stay where their inputs put them.

## 2. Modules

```
SequenceNumbers <- ChannelBuffer <- ChannelState <- MCChannelState
       ^              ^  ^              |  ^------- ChannelStateProofs
       |              |  |              +--(INSTANCE) OrderedStream
       |              |  +--- Fragmentation <- MCFragmentation
       |              |            ^--------- FragmentationProofs
       |              +------ PeerLink <- MCPeerLink
       |                         |  ^--------- PeerLinkProofs
       |          PeerState <----+
       |           ^   ^----- SessionManager <- MCSessionManager
       |           |            ^-- HostFacade <- MCHostFacade
       |           |                     ^---- HostFacadeProofs
       |           +--- PeerControl <- MCPeerControl
       |                   |    ^------------- PeerControlProofs
       |                   +-- Codec, FlowControl, CongestionControl
       +-- UnsequencedState <- MCUnsequencedState
       |           ^----------------------------+
       +-- SequenceBuffer <- Acknowledgment <- MCAcknowledgment
                                   ^--------- SlidingWindowProofs
SendPath <- MCSendPath
   ^------- SendPathProofs

SequenceFold: induction, division and folds, (INSTANCE) used by the proof modules
```

**SequenceNumbers**: `u16` arithmetic and circular comparison with the width as a
parameter (`Modulus = 2 * HalfRange`; 65536 in the code). Every use of 32768 in the
code is `HalfRange`.

**ChannelBuffer**, **ChannelState**: what `process_ordered` and `process_sequenced`
do to one packet, and a channel driven by a remote that numbers packets
0, 1, 2, ... over a network that reorders and loses and, when `duplicates` was chosen
in the initial state, repeats; a stream with duplicates has at most `MaxRepeated` packets. The
`while let` loop is one step: `DrainsExactly` says how many packets it removes.
A payload is the absolute number of its packet, so the properties can speak of order.
The environment is a *conforming* remote, not this program's own sender: the send
path never emits `SendUnreliableSequenced` and numbers every reliable packet 0 (see
the finding on `link_ordered_stalls`); what the component promises to a remote that
does number its packets is what its doc comment states.

**OrderedStream**: the abstract specification of an ordered channel, a counter of
payloads sent and the sequence of those received; one step releases the next few.
It knows neither numbers nor buffers nor a network. `ImplementsOrderedStream` in
ChannelState is its instance with `sent <- ordered_sent, received <- delivered`.

**PeerState**: the enum and every transition, as operators shared by
SessionManager, PeerLink and PeerControl.

**SessionManager**: `manual_poll`, one action per loop iteration, because what
arrives during a poll is decided while it runs; a datagram is any sequence of
commands from any address, taken one command per step (`ReceiveConnect`,
`ReceiveVerifyConnect`, `ReceiveDisconnect`, `ReceiveOther`) and ended by `Finish`,
with or without a decoding error (`MayFail`). `announced` is what the
application can conclude from the events so far. `packets_in_flight` is left out of
`should_drop`: nothing calls `process_outgoing`, so it is always 0.

**PeerLink**: two hosts, each end the `Peer` its manager keeps for the other. Every
arm of `process_command` that matters to the handshake, to reliable data and to
disconnecting is an operator from peer to peer; `ProcessPacket` folds a datagram's
commands, keeps the effects of the commands before an error and discards their
payloads, as the code does. `Restart` is a dropped session replaced by a new one.
Session ids are drawn from a set of two, so that both the coincidence and the
mismatch of random ids happen. `Transmit` sends a prefix of the queue: where the
datagram boundary falls (sizes, bandwidth) is SendPath's business and a choice here.

**UnsequencedState**: the window as an array of words, a word as the set of its bits;
the word loop and the bit loop of `mark_received` are separate operators. A packet
stays in the network for `MaxDelay` sends and can be received again and again in
that time. The names of its specification (`UnsequencedSpec`) let one proof module
extend it together with Acknowledgment.

**SendPath**: one peer's fragmenter, queue, encoder, outgoing bandwidth window and
PMTU discovery. Only sizes are kept; a command carries the serial number it was
queued with. The clock is a choice at each `update`, with one constraint: the probe
interval (5 s by default) is longer than a bandwidth window (1 s), so after a probe,
reply or timeout a window ends before the next probe (`may_probe`). Compression is
off, payloads are not empty. `use_pmtu_discovery` is chosen in the initial state, so
that one run covers both configurations.

**HostFacade**: extends SessionManager; every step of the polling thread is a step of
the manager joined with its effect on the channels: what `handle_actions` collects,
what `flush` publishes. `Send` and `Recv` interleave with a poll, as clones of the
sender and receiver allow; `Broadcast` and `HostDisconnect` do not, because they borrow
the `Host`. `believed` is what an application concludes from the events read so far,
`refused` remembers whose last Connect came from a session that was not kept. Packet
events are left out, they say nothing about connections.

**Fragmentation**: from message to message: the cuts of the fragmenter (none above 255
pieces, the first only above `max_fragments`), the waiting-data limit command by
command, one `CommandFragmentBuffer` per sequence number, both fragment arms and the
two arms for whole messages, `cleanup_stale_fragments`. Keys are those the code uses: 0
for every reliable message, a wrapping counter for unreliable ones. A payload is the
sequence of its pieces, so a mixture shows; a command knows whether it carries the last
piece (`last`), the only one that may be shorter than the others.

**SequenceBuffer**, **Acknowledgment**: the ring of `Redundant + 1` slots (33 in the
code) and the `AcknowledgmentHandler` at both ends, called with the arguments
`process_command` calls it with. `Senders` says whether one end sends data or both do;
either way incoming data removes the receiver's own sent packet with that number and an
acknowledgement enters the ring of received numbers, as `process_incoming(s, s, mask)`
does. `process_outgoing` and `dropped_packets` are called as the component's tests call
them. Packets carry their absolute number, so that two uses of a sequence number are
different packets; `arrived` is what really came, `noted` what the handler was told.

**Codec**: all sixteen commands as tables of fields, a table for each of the two
encoders and one for the decoder, because the code has three matches that must agree;
packets, compression markers, checksum. Compression and hash functions are stand-ins
(run lengths, a sum) with what the code relies on: decompressing undoes compressing,
which may make data longer or shorter.

**FlowControl**, **CongestionControl**: operators on records, one per method. The
throttle, an `f32`, is counted in steps of `1/(20 * Scale)`, which both algorithms move
by whole steps. The averages of `update_rtt` are computed in `f32` and truncated; where
the exact value is a whole number of milliseconds rounding may lose one, which is a
choice in the model.

**PeerControl**: one peer between the wire and these controls. A remote sends datagrams
of control commands, whole or cut short; they are parsed by Codec, processed command by
command until one fails, and answered through the queue, which is encoded again. Data
commands, Acknowledge and PMTUReply are encoded and decoded here; what their arrival
does is in the other modules. `RegisterPackets`, `MeasureRtt`, `GatherDroppedPackets`,
`RecordReliableDataSent/Acked`, `AdjustWindow` and `UpdateThrottleStep` are the `Peer`'s
methods with any argument of a small set.

Not called by the host's poll, and modelled as the API of a `Peer` or its handler that
they are: `can_send_reliable`, `adjust_window_size`, `record_reliable_data_*`,
`update_throttle`, `should_drop_unreliable`, `gather_dropped_packets`,
`process_outgoing`, `cleanup_stale_fragments`.

## 3. Runs

All bounds are constants named in the modules.

| Run | Checks | Shows |
|---|---|---|
| `channel_wrap` | `OrderedDelivery BufferIsAhead SequencedDelivery ImplementsOrderedStream` | 8 ordered and 7 sequenced packets modulo 6, reordering and loss, an ordered window of a full turn; duplicates, in streams that end before the wrap; the refinement; sequenced delivery never drops a newer packet and goes back only to number 0 |
| `session_limits` | `CounterCoversPending DuplicateCountExact DuplicateLimit InboundLimit SilentSessionDropped` | three remotes on two IPs with the handshake, both limits 1; the last one is liveness |
| `host_facade` | `FacadeInv DrainedViewIsRight NoRepeatedConnect DepartureIsReported` | two remotes on one IP without the handshake, both limits 1, sends during a poll, broadcasts, disconnects, timeouts; what the application knows, and liveness of departures |
| `link_handshake` | `LinkInv HandshakeCompletesUnless` | handshake, one message each way, one loss, one copy; the last one is liveness |
| `link_implicit` | `ImplicitConnectCompletes DisconnectReachesPeer` | no handshake, one message each way, one copy, one restart, disconnects; liveness |
| `unsequenced_window` | `WindowInv DeliveredAtMostOnce LatePacketIsAccepted` | 30 packets modulo 24 through a window of 3 words of 2 bits |
| `send_path` | `QueueInv BandwidthOvershoot PmtuIsSound SearchIsBracketed QueueDrainsUnlessLowered` | payloads of every size class, both limits reached, PMTU discovery off and on with probes lost, late or batched with data |
| `fragments` | `BufferInv IntactUnlessShared UndisturbedArrives` | two messages of every kind and size class, the waiting-data limit reached, one command lost or repeated, buffers that time out; the last one is liveness |
| `acks` | `HandlerInv AckedWasReceived DroppedIsPastTheWindow BitfieldIsExact` | data both ways; packets and acknowledgements lost, repeated and reordered, from number 0 and across the wrap: what each handler guarantees although it mixes up the two directions |
| `peer_control` | `WireFormat SizesAreSafe EstablishedByOneIntroduction NegotiatedWindowIsLeast ControlInv RttIsBracketed AnswersMatchRequests SlowdownNeedsLoss` | every command kind under every compression and checksum setting; five steps of control commands, failures half way, samples, losses and adjustments in any order |

An invariant whose name ends in `Inv`, and `WireFormat` and `SizesAreSafe`, is a
conjunction of named parts, for the most part the type invariant and the properties it
is needed with:

| Invariant | Parts |
|---|---|
| `LinkInv` | `TypeOK`, `AgreeOnSession`, `OrderedAtMostOnce` |
| `WindowInv` | `UnsequencedTypeOK`, `WindowIsExact` |
| `QueueInv` | `TypeOK`, `WaitingDataIsExact`, `QueueIsFifo`, `QueuedDataFits` |
| `BufferInv` | `TypeOK`, `LeftoverHasCause` |
| `HandlerInv` | `TypeOK`, `EveryPacketAccounted` |
| `FacadeInv` | `HostTypeOK`, `BroadcastHasSession` |
| `WireFormat` | `RoundTrip`, `TruncatedIsRejected` |
| `SizesAreSafe` | `EncodersAgree`, `DatagramWithinBudget` |
| `ControlInv` | `TypeOK`, `AllAckedMaySend` |

The type invariants of ChannelState and SessionManager are proved (section 4) and no run
repeats them.

Two runs end in a violation: each states what a document of the repository says,
and TLC shows a behaviour of the code that differs. The constants are chosen so that the
trace has one cause.

| Run | Property | What happens |
|---|---|---|
| `link_ordered_stalls` | `OrderedIsDelivered` | the second ordered message repeats number 0 and is never delivered |
| `link_handshake_stuck` | `AnsweredConnectCompletes` | one side connects, the server answers with an id of its own, the client compares it with the id it chose itself, refuses and stays Connecting. With one possible id the property holds |

### Where the checked properties need their side conditions

Some properties hold only under the constants of their run, or name an exception. What
lies beyond is behaviour of the code worth knowing; each can be reproduced by changing
the constant or dropping the exception.

* Two hosts that open at the same time: each is Connecting when the CONNECT of the other
  comes and ignores it (the arm asks for state Idle), so both stay Connecting, whatever
  their ids. `HandshakeCompletesUnless` names this and the difference of the ids
  (`link_handshake_stuck`) as the only things that keep an undisturbed handshake from
  completing; without its last disjunct and with `SessionIds` {1} the trace is this one.
* A server does not wait for the ACK: `record_recv` runs after the commands of the same
  datagram, so the datagram with the CONNECT takes the server through
  `AcknowledgingConnect` to `Connected` before its answer has left, although
  `peer_state.rs:14` says "waiting for ACK". No property is stated about that wait.
* Duplicates and the wrap: `channel_wrap` and the theorems on the ordered stream take
  `MaxRepeated < Modulus`. With more, a copy of a delivered packet is buffered and
  delivered again one turn later, in place of another: `OrderedDelivery` fails.
* Sequence number 0: `process_sequenced` accepts it always, so a late first packet is
  delivered after newer ones; `SequencedDelivery` says that this is the only case.
* A refused session: `process_packet`'s events are handled before the limits decide, so
  the application may be told of a
  connection that does not exist and is never told of its end. `DrainedViewIsRight`,
  `NoRepeatedConnect` and `DepartureIsReported` say that this is the only case (`refused`).
* Connect after VERIFY_CONNECT: a client that VERIFY_CONNECT establishes is never
  announced, because `record_recv` compares only the states around its own call.
  `host_facade` and `DrainedViewCorrect` take `VerifyArrives` FALSE. A DISCONNECT to a session that was
  never established still emits Disconnect.
* Sessions the application opens: `manual_poll` does not test the limit on unestablished
  sessions for them, and counts them only from the next poll on. `InboundLimit` is about
  those opened by remotes.
* Restarts and the handshake: `connect_id` is stored and never compared, so an answer to
  the CONNECT of a dropped session is accepted; `AgreeOnSession` is stated without
  restarts.
* A fresh window: `unsequenced_window` starts with `FirstGroup` 0, and the theorems with
  one within `InReach`. A first group more than half a turn from 0 (the remote kept its
  session, this end opened a new one) moves no base and sets no bit, so its copies pass.
* Retransmission: a lost reliable message is not sent again, because sent packets are
  not recorded and `gather_dropped_packets` has no caller, although the repository's
  `README.md:172` says "retransmitted until acknowledged". The liveness properties of
  PeerLink and Fragmentation speak of what nothing disturbs.
* A lowered fragment size: PMTU discovery may set the fragment size below what a command
  that waits for bandwidth was cut for; it blocks the queue, later probes included.
  `QueueDrainsUnlessLowered` and `QueuedDataFits` exclude exactly that.
* A bandwidth limit that changes: SendPath has one constant limit. The BandwidthLimit
  command, which may lower it within a window, is in PeerControl; `BandwidthOvershoot`
  does not speak of the window in which it arrives.
* Shared sequence numbers: two large messages under way with one key
  are joined, completed early or never. `IntactUnlessShared`, `LeftoverHasCause` and
  `UndisturbedArrives` say that messages that share no key in time are safe. A fragment
  dropped at the waiting-data limit counts as a cause and as a disturbance: the message is
  lost and its other fragments stay at the receiver. So does what is left of a message that
  lost a fragment: nothing but tests calls `cleanup_stale_fragments`, although
  `fragment_buffer.rs:13` says that incomplete buffers are cleaned up.
* Data both ways: the handler does not tell the directions apart. Incoming data, recorded
  with `process_incoming(seq, seq, 0)`, removes the own packet of the same number and
  raises `remote_ack_sequence_num`; the number of an acknowledgement enters
  `received_packets` and the next acknowledgement. So `AckedWasReceived`,
  `DroppedIsPastTheWindow` and `BitfieldIsExact` speak of numbers under which data reached
  one of the two ends (`Exchanged`). That a removed packet was received by the other end
  (`InFlightUntilReceived`) fails in `acks`; it holds, and is proved (`OneWayInFlight`),
  when only one end sends. In a running host every reliable packet is numbered 0 and
  nothing calls `process_outgoing`, so this takes effect once numbers advance.
* Time in Acknowledgment: what is `MaxLag` numbers behind the stream further ahead is gone
  from the network, `dropped_packets` is called before a packet in flight gets that old,
  and a stream that far behind sends no more. `MaxLag` is at most half the range less the
  ring, 32735 in the code; beyond that an old number can not be told from a new one.
* The ring of received packets: 33 slots do not divide 65536, so for 64
  packets after a wrap the bitfield may miss packets that arrived (never the other way
  round). `AwayFromWrap` is the condition in `BitfieldIsExact`, and its bound
  `2 * Redundant` is tight.
* The initial window: `FlowControl::new` takes `initial_window_size` without clamping it.
  `FlowControlAssumption` has it between the minimum and the maximum; `ControlInv` and
  `NegotiatedWindowIsLeast` fail in the first state without.
* More than 255 commands in a datagram: the count is a byte. The codec properties are
  stated below that (`Encoding`).
* A window of more than 2^32 bytes: the product in `can_send_reliable` wraps;
  `FlowControlAssumption` excludes such a configuration, `AllAckedMaySend` fails without.
* An acceleration near 2^32, which a remote may configure, makes the throttle's sum wrap
  (in a release build); `SlowdownNeedsLoss` names the exception.
* A VERIFY_CONNECT that is refused has already overwritten ids and window.
  `EstablishedByOneIntroduction` says the ids do not survive; the window does
  (`NegotiatedWindowIsLeast` counts refused offers).
* `packet_loss_rate` of the statistics divides lost packets by datagrams, so it may
  exceed 1. No property is stated about it.
* PMTU probes: data queued behind a probe shares its datagram, which is then larger
  than the fragment size. `PmtuIsSound` holds nevertheless: the batch as a whole got
  through if the reply comes.

### Bounds and why they are enough

* Sequence numbers: the code only ever adds 1, adds a window advance, subtracts or
  compares with half the range, so a small even modulus has every case (equal, just
  ahead, just behind, half a turn, across the wrap). The theorems remove the bound for
  the channel, the unsequenced window and the acknowledgements.
* Sessions: two remotes on one IP and one on another is the smallest table where the
  per-IP and the global limits disagree. `IdleTimeout` 2 separates "heard now", "quiet"
  and "timed out". Non-blocking mode has every behaviour of blocking mode (a receive
  loop that ends after one datagram). The theorems remove these bounds for the
  invariants.
* Links: one loss and one copy are enough for a hole in the stream and for a repeated
  delivery, one restart for an old datagram to meet a new session. A second message is
  needed for the sequence number to matter (`link_ordered_stalls`); for the safety of the
  handshake the theorems remove the bound.
* Unsequenced: 3 words of 2 bits give a partial word shift, a full reset, and a carry
  between words; `MaxGap` 7 exceeds the window of 6, so the base moves.
* Host: `MaxEvents` 1 limits what is unread when a poll begins or receives; a poll
  itself may add several events, so queues of several events with one remote's events
  between another's occur. `MaxQueued` 2 lets a broadcast to two sessions, or a
  broadcast and a send, wait together. Two remotes that share an IP with a limit of one
  session make refusals happen.
* Fragments: `PieceCounts` 1 to 5 with `MaxFragments` 3 and `FragmentCountMax` 4 has a
  whole message, two and three fragments, first fragment only, and none. The limit of 6
  cuts a message of three fragments after the second, or drops a middle one. Two
  messages share a key or not; unreliable keys wrap after two.
* Acknowledgements: `Redundant` 1, a modulus of 10 and one acknowledgement in flight are
  enough for either end's numbers to meet the other's, to be given up and to wrap. `Starts`
  and `Ends` observe the stream from its beginning and across the wrap. The collision of
  slots needs `Redundant` 2 and a modulus that 3 does not divide, which with data both ways
  is left to the proof.
* Peer control: `Base` 17 stands for 256: the sixteen command kinds still fit a byte.
  The longest datagram has eight commands: TLC evaluates the folds over its bytes by
  recursion. Counts up to `Base - 1` are left to the proof (`PacketReadBack`). A peer observed
  with commands queued takes one step, under each of the six settings of compression and
  checksum; a new peer without either takes `MaxEvents` = 5, which is enough to connect,
  be refused, be offered a window, adjust it and send. Windows of 500 to 520 make a 32nd
  and a 16th differ and both bounds be hit; `Sizes` has one that saturates the counter.
* Send path: sizes are scaled to an 8-byte fragment in a 12-byte buffer. `PayloadSizes`
  has one that fits, one cut into exactly `max_fragments`, one into more, and one into
  more than the u8 maximum. `MaxWaitingData` cuts a message in the middle. Reliable and
  unreliable payloads differ only in header sizes, so `send_path` sends reliable and
  unsequenced ones.

`SYMMETRY` is used where no definition tells the permuted values apart (the two
ends in `acks`) and only in runs without temporal properties.
`CHECK_DEADLOCK FALSE` appears in the runs of ChannelState, UnsequencedState, PeerLink,
Fragmentation, Acknowledgment and PeerControl: their environment sends a bounded number
of packets, and after the last one nothing is left to do. SessionManager, HostFacade
and SendPath poll for ever and are checked for deadlock.

### Fairness

* SessionManager (`Fairness`): `manual_poll` is called again and again and runs to its
  end (weak fairness of its steps). Strong fairness of `Tick`: time passes between
  polls. Strong fairness of `EndReceive`: the socket is found empty sooner or later. In
  blocking mode the code leaves the loop after each datagram anyway; in non-blocking
  mode an endless stream of datagrams would postpone everything else, so there it is an
  assumption on the load.
* HostFacade (`HostFairness`): the same for the polling thread, with strong fairness
  where the receive loop and the loop over user events end, since other threads may
  always add to either; weak fairness of `Recv`, an application that keeps reading.
* Fragmentation (`FairSpec`): the queue is flushed, and a command on the wire that is not
  lost arrives. Nothing is assumed of `CleanupStaleFragments`.
* PeerLink (`FairSpec`): both hosts are polled, and a datagram that is not lost
  arrives. Nothing else is fair: no application has to send.
* SendPath (`FairSpec`): an update runs to its end, and updates at which the bandwidth
  window is over come again and again (strong fairness, because `idle` is left and
  re-entered). Nothing is assumed of replies.

## 4. Proofs

`ChannelStateProofs` (extends ChannelState) proves, for every width of the sequence
numbers, every window up to a full turn and any number of packets, the first
four under `MaxRepeated < Modulus` (a stream that meets duplicates ends before it wraps):

* `OrderedDeliveryCorrect`, `BufferIsAheadCorrect`;
* `ChannelImplementsStream`: `Spec => ImplementsOrderedStream`;
* `ChannelTypeCorrect`: `Spec => []TypeOK`;
* `SequencedDeliveryCorrect`: `Spec => SequencedDelivery`, without that condition.

`OrderedDelivery` is not inductive: it needs that every packet in flight or buffered
carries its absolute number modulo the range (`Behind` and, depending on `duplicates`,
`NumberedByDistance`: undelivered and less than a turn ahead, or `NumberedAbsolutely`:
the number itself, as the stream has not wrapped: `WrapSafe`), so that the packet found
under `expected_sequence` is the one the application waits for. The conjunction is
`OrderedInv`. The lemmas on wrapping arithmetic reduce each use of `%` to a linear fact,
which is what the SMT backend can do. The refinement uses the same invariant: the
packets `process_ordered` releases are then the next payloads of the stream
(`DeliveryIsRelease`), of which no more were released than sent; sending is `Submit`,
and every other step leaves both mapped variables alone.

The sequenced stream has an invariant of its own, `SequencedInv`: what is in flight and
the last packet accepted are at most `MaxLag` sends old and carry their absolute numbers
modulo the range (`NumberedByLag`). As `MaxLag` is at most half the range, the circular
comparison of two numbers then agrees with the order of the packets (`AcceptsNewer`), but
for number 0, which the code accepts without comparing.

`HostFacadeProofs` (extends HostFacade and with it SessionManager) proves of the session
manager alone, for every finite set of addresses, every assignment of IPs and every configuration:

* `SessionTypeCorrect`; `CounterNeverUnderflows` (`CounterCoversPending`);
  `DuplicateCountCorrect`; `DuplicateLimitCorrect`; `InboundLimitCorrect`.

The inductive invariant `SessionInv` joins these five with `CurrentDescends`: the
session held by a datagram in progress has developed from the one in the table by
commands alone, so that what becomes established when it is written back was pending
in the table and is covered by the counter. The remaining work is about cardinalities
of the table with one session inserted, replaced or removed (FiniteSetTheorems).

and of the host, for any number of remotes and any interleaving of the application's
threads with a poll:

* `HostImplementsManager`: `HostSpec => Spec`, so that everything proved of the manager
  holds in the host;
* `FacadeCorrect` (`FacadeInv`), `NoRepeatedConnectCorrect` (an action property);
* `DrainedViewCorrect` (`DrainedViewIsRight`), under `VerifyArrives = FALSE`: with a
  VERIFY_CONNECT the property is false (section 3).

`HostInv` adds to `SessionInv` that the manager's view of what it announced is what the
application will believe when it has read everything published and collected
(`ViewIsTold`), that an announced address has a session which can not be established
again or was refused, and that packets other than broadcasts alone wait while sessions
are removed. `Told` describes the effect of a sequence of events on one address by its
last event, which is what makes concatenation of the channels tractable.

`SendPathProofs` (extends SendPath) proves, for every configuration:

* `SendTypes`, `WaitingDataExact`, `QueueFifo`, `BandwidthBounded`, `PmtuSound`,
  `SearchBracketed`;
* `SendQueue` (`QueueInv`), under `Room`: the configured fragment size has room for more
  than the header of an unsequenced command. Without it the fragmenter cuts pieces of one byte
  that do not fit; the default of 1024 bytes satisfies it.

`SendInv` says that the queue and the counter are those that `Box` describes (serial
numbers that follow on from what was transmitted, and a counter that is the sum of the
payloads, over commands of sizes that could be queued), that replies under way are true
(they answer a probe that was carried), and that the fragment size is the configured one
or one the search has confirmed.

`SlidingWindowProofs` (extends UnsequencedState and Acknowledgment) proves of the former `WindowExact` (`WindowInv`),
`NoDuplicates` (`DeliveredAtMostOnce`) and `LateAccepted` (`LatePacketIsAccepted`) for
every width, window and number of packets under `InReach`: the window plus the largest
gap, and the first group plus the largest gap, are at most half the range plus one. In
the code (half range 32768, window 1024) that allows gaps of 31745 groups. It is what the
run's constants satisfy, and it is tight: one more and a group beyond the window counts
as old. `FilterInv` recovers the absolute number of the base from its distance behind the
sender's counter (`Base`), and says that a packet's group has the same distance as its
number, that the base lies half a window or more behind the newest packet, and that the
bit at each offset says whether the packet `Base + offset` was delivered.

Of the latter it proves, for every width of the number, every size of the ring and either
choice of senders, `AckedReceived` (`AckedWasReceived`), `DroppedPastTheWindow`
(`DroppedIsPastTheWindow`), `HandlerCorrect` (`HandlerInv`) and `BitfieldCorrect`
(`BitfieldIsExact`); and, where only one end sends, `OneWayInFlight`
(`InFlightUntilReceived`): then no data reaches the sender, and what was exchanged reached
the other end. `AckInv` gives every number in a handler, on the wire or in an
acknowledgement its absolute number: sequence numbers are absolute numbers modulo the
range (`NumbersOK`), what is in flight or on the wire is at most `MaxLag` behind both
streams (`SentIsRecent`, `DataIsRecent`, `AcksAreTrue`), so that equal sequence numbers
mean equal packets (`SameNumber`), and what an end noted was exchanged
(`NotedIsExchanged`). It remains that neither end falls behind by more than that
(`NewestIsNear`): an end has noted something as new as all it removed from `sent_packets`,
and no more than the other noted or sent (`NewestFollows`), so an old packet is either
still in flight, which bounds the streams, or followed by something new. `BufferIsExact`
says of every slot of the ring that what it names was noted and, within the window, that
it names what was noted, but for numbers refused as too old. The slot of a number is its
remainder by the size of the ring, hence the lemmas on division.

`PeerLinkProofs` (extends PeerLink) proves, for any number of messages, losses and
copies, with or without the handshake:

* `LinkTypes`; `OrderedOnceCorrect`: `OrderedAtMostOnce`, a part of `LinkInv`, with any number of
  restarts;
* `AgreementUntilRestart`: `AgreeOnSession` holds as long as no session was dropped;
* `LinkCorrect` (`LinkInv`), under `MaxRestarts = 0`, the case `AgreeOnSession` is about.

`LinkIndInv` has two halves. Ordered packets all carry number 0, so a channel has either
delivered nothing, or waits for number 1 for ever (`ChannelOK`): at most one delivery,
also when a failed datagram takes its payloads back. Agreement needs that what commands
say about sessions is true while they wait or travel (`Truthful`): a CONNECT carries its
sender's id, and whoever sent a VERIFY_CONNECT is past the states in which its ids could
change (`Settled`). `CommandAgrees` shows it for each arm of `process_command`, and a
fold takes it through a datagram to the first error.

`FragmentationProofs` (extends Fragmentation) proves, for any number of messages, losses,
copies and retransmissions:

* `ReassemblyIntact` (`IntactUnlessShared`) and `BuffersHaveCause` (`BufferInv`).

That a reassembled message is one that was sent can not be read off a buffer, which keeps
no trace of who filled it; the induction therefore follows the messages. `FragmentInv`
says that a buffer holds only pieces of messages of its key (`BuffersOK`); that a key
never shared belongs to one message at a time, which also set its buffer up (`OneOwner`);
and that of a message nothing has spoiled every piece is either on its way or buffered,
never both, with one still on its way, or all of it has come through (`Tracked`). A
leftover buffer then has a loss, a copy or a shared key as its cause.

`PeerControlProofs` (extends PeerControl, with Codec, FlowControl and CongestionControl)
proves, for every configuration and every sequence of datagrams:

* `ControlsStayInBounds` (`ControlInv`), `OneIntroduction`
  (`EstablishedByOneIntroduction`), `LeastWindow` (`NegotiatedWindowIsLeast`),
  `EveryRequestAnswered` (`AnswersMatchRequests`), `EstimateIsBracketed`
  (`RttIsBracketed`);
* `BoundedEncoderIsSafe` (`SizesAreSafe`) and the action property `ThrottleNeedsLoss`
  (`SlowdownNeedsLoss`);
* `ParseYieldsCommands`: whatever bytes arrive, also damaged ones, decoding fails or
  yields commands with fields of the right types;
* `PacketReadBack`: decode_packet reads back what encode_packet_into wrote, for commands
  of every kind with data of any length, as long as no length exceeds its two bytes and
  the number of commands its one (`Fits`);
* `WireRoundTrip`: therefore, with compression and checksum in between, `RoundTrip` holds
  of every datagram whose uncompressed packet is shorter than 2^16 bytes
  (`ShortDatagram`; the host sends only through
  `encode_queued_commands_bounded`, whose budget bounds the uncompressed packet).

`PeerInv` consists of the types of the records (`RecordsOK`), the datagram on the wire
being the encoding of its commands (`WireOK`), the window as the least of what was
offered (`WindowOK`), no more in transit than outstanding (`TransitOK`), the loss the
throttle reacted to (`LossOK`), `Introduced`, `AnswersMatchRequests` and the bracket of
the estimate (`EstimateOK`). A datagram is one action but a sequence of commands, so each
part is shown for every arm of `process_command` (`PacketInv`) and then taken through
the fold over the commands. `ParseYieldsCommands` is what makes it cover damaged
datagrams: the fold meets only commands of the right types.

The round trip rests on big endian digits (`NumberOfDigits`) and on reading one field from
the middle of a sequence (`FieldReadBack`: the bytes before, the field's, the bytes after
are a `Split`). After i fields the cursor has passed exactly their bytes and holds exactly
their values (`ArgsUpTo`), after i commands the rest of the packet is what the encoder
wrote for the others; each is a fold whose values on the prefixes are known, and
`FoldComputed` gives the end. An optional field is read back because it comes last in its
layout. The run lengths that stand for zlib and LZ4 are undone by the same method
(`InflateReadBack`).

### Induction and folds

`SequenceFold` states, for an operator `Op` it is instantiated with, what a left fold
over a sequence computes: there is a function with its values on the prefixes
(`FoldHasValues`, `PrefixValues`), a function with those values ends in it
(`FoldComputed`), and a set closed under `Op` contains it (`FoldType`); likewise for the
concatenation of a sequence of sequences (`FlattenPrefixes`). It spells both folds out as
SequencesExt defines them. All rests on `SetInduction`, induction for membership in a set,
which follows from the least element of a set of natural numbers. So `total_waiting_data`
as a sum over the queue, `RunCommands`, the re-queueing of commands and the reading of
fields and commands are proved, not only checked.

Assumptions used are the named ASSUMEs of the modules, which TLC evaluates in every
run, and the hypotheses named above, each of which the constants of the run satisfy.
`FilterInv`, `AckInv`, `LinkIndInv`, `FragmentInv` and `PeerInv` were checked with TLC on
the instances of the runs before they were proved.

Only model-checked:

* liveness under fairness (`SilentSessionDropped`, `DepartureIsReported`,
  `HandshakeCompletesUnless`, `ImplicitConnectCompletes`, `DisconnectReachesPeer`, `QueueDrainsUnlessLowered`,
  `UndisturbedArrives`): out of the prover's reach;
* of `WireFormat`, `TruncatedIsRejected`: that a datagram cut short is refused. With a
  checksum that depends on the instance, as the sum that stands for CRC32 is not proof
  against every cut.

## 5. Plan

What is left:

1. `TruncatedIsRejected` without compression and checksum: a packet cut short ends within
   a length or within what it announces;
2. an abstract at-most-once delivery that UnsequencedState implements.

## 6. Not modelled

* zlib, LZ4 and CRC32: libraries; Codec has stand-ins for them.
* Packet pool, shared bytes: reuse of buffers, without effect on what is sent or
  delivered. An interceptor that drops a datagram is the network losing it.
* `set_throttle_range` and `reset_stats` of congestion control, `packet_loss_rate` and
  `reset` of the statistics: nothing calls them.
* `BandwidthManager` and `ChannelManager` of bitfold-protocol: not called by the other
  crates.
* Socket binding and options, the sleep of the polling thread: input and output.
* Wording of errors and logs.
