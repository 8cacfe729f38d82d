------------------------------ MODULE SendPath ------------------------------
(***************************************************************************)
(* How one Peer sends: payloads are cut into commands (fragmenter), queued *)
(* under a limit on waiting bytes, batched into datagrams no larger than   *)
(* the current fragment size (encoder) and held back by the bandwidth      *)
(* limit, while PMTU discovery probes for a better fragment size through   *)
(* the same queue.                                                         *)
(*                                                                         *)
(* Sizes are the only data kept.  A command has its encoded size with the  *)
(* length prefix, the payload bytes command_data_size counts, and a serial *)
(* number given when it is first queued.  The clock is a choice: whether   *)
(* the bandwidth window is over, the probe interval has passed or a probe  *)
(* has timed out is decided at each update, except that a probe interval   *)
(* spans the end of a bandwidth window (5 s and 1 s by default).           *)
(* Compression is off.                                                     *)
(***************************************************************************)
EXTENDS Integers, Sequences, SequencesExt

CONSTANTS
    PacketOverhead,     \* bytes of a datagram besides its commands
    WholeHeader,        \* [Kinds -> Nat]: header of an unfragmented command
    FragmentHeader,     \* [Kinds -> Nat]: header of a fragment
    ControlSize,        \* encoded size of a control command
    ProbeHeader,        \* header of a PMTU probe
    Kinds,              \* kinds of payload sent
    PayloadSizes,       \* their sizes
    FragmentSize, ReceiveBufferMaxSize, MaxFragments, MaxWaitingData,
    OutgoingLimit,      \* Config::outgoing_bandwidth_limit, 0 for none
    UsePmtu,            \* values of Config::use_pmtu_discovery
    PmtuMin, PmtuMax, PmtuConvergeThreshold,
    PathMtu,            \* the network drops larger datagrams
    FragmentCountMax,   \* u8::MAX
    MaxMessages,        \* bound: payloads sent
    MaxControls         \* bound: control commands queued

ASSUME SendPathAssumption ==
    /\ Kinds \subseteq {"reliable", "unreliable", "unsequenced"}
    /\ WholeHeader \in [Kinds -> Nat] /\ FragmentHeader \in [Kinds -> Nat]
    /\ PayloadSizes \subseteq Nat \ {0}
    /\ \A n \in {PacketOverhead, ControlSize, ProbeHeader, FragmentSize,
                 ReceiveBufferMaxSize, FragmentCountMax} : n \in Nat \ {0}
    /\ \A n \in {MaxFragments, MaxWaitingData, OutgoingLimit, PmtuMin, PmtuMax,
                 PmtuConvergeThreshold, PathMtu, MaxMessages, MaxControls} : n \in Nat
    /\ UsePmtu \subseteq BOOLEAN

VARIABLES
    pc,                      \* "idle", or where process_event or update is
    command_queue,
    total_waiting_data,
    bytes_sent_this_window,
    use_pmtu_discovery,      \* the configuration: it never changes
    fragment_size, low, high, outstanding,   \* PmtuDiscovery
    may_probe,               \* can the interval since last_probe be over?
    replies,                 \* PMTU replies on their way
    transmitted,             \* commands sent so far
    messages, controls, probes

pmtu == <<use_pmtu_discovery, fragment_size, low, high, outstanding, may_probe>>
counters == <<messages, controls, probes>>
vars == <<pc, command_queue, total_waiting_data, bytes_sent_this_window, pmtu,
          replies,  transmitted, counters>>

NoProbe == << >>
Minimum(a, b) == IF a < b THEN a ELSE b
DivCeil(a, b) == (a + b - 1) \div b

-----------------------------------------------------------------------------
(* The queue: Peer::enqueue_command and drain_commands.                     *)

Outbox == [queue |-> command_queue, waiting |-> total_waiting_data]

(* A command that would exceed max_waiting_data is dropped, and no caller   *)
(* looks at the result.                                                     *)
EnqueueCommand(o, c) ==
    IF MaxWaitingData > 0 /\ o.waiting + c.data > MaxWaitingData THEN o
    ELSE [queue |-> Append(o.queue, c), waiting |-> o.waiting + c.data]

(* A new command gets the next serial number.                               *)
EnqueueNew(o, c) == EnqueueCommand(o, [c EXCEPT !.serial = transmitted + Len(o.queue) + 1])

Becomes(o) == command_queue' = o.queue /\ total_waiting_data' = o.waiting

Command(type, header, data) ==
    [type |-> type, size |-> header + data, data |-> data, serial |-> 0, token |-> 0, target |-> 0]

Control == [Command("control", 0, 0) EXCEPT !.size = ControlSize]

-----------------------------------------------------------------------------
(* The fragmenter: enqueue_reliable_data, enqueue_unreliable_data and the   *)
(* chunks of an unsequenced payload.                                        *)

DatagramCap == Minimum(fragment_size, ReceiveBufferMaxSize)

Budget(header) ==
    IF DatagramCap > PacketOverhead + header THEN DatagramCap - PacketOverhead - header ELSE 0

(* The pieces of len bytes, each of at most piece bytes.                    *)
Pieces(type, header, len, piece) ==
    [i \in 1 .. DivCeil(len, piece) |->
        Command(type, header, Minimum(piece, len - (i - 1) * piece))]

(* Nothing when the payload cannot be cut into 255 fragments; the first     *)
(* fragment alone when there are more than max_fragments.                   *)
Fragments(kind, len) ==
    LET piece == Budget(FragmentHeader[kind])
        all == Pieces("data", FragmentHeader[kind], len, piece)
    IN  IF piece < 1 \/ DivCeil(len, piece) > FragmentCountMax THEN << >>
        ELSE IF DivCeil(len, piece) > MaxFragments THEN <<all[1]>> ELSE all

Commands(kind, len) ==
    LET whole == Budget(WholeHeader[kind])
    IN  CASE kind = "unsequenced" ->
               Pieces("data", WholeHeader[kind], len, IF whole < 1 THEN 1 ELSE whole)
          [] kind # "unsequenced" /\ whole < 1 -> << >>
          [] kind # "unsequenced" /\ whole >= 1 /\ len <= whole ->
               <<Command("data", WholeHeader[kind], len)>>
          [] OTHER -> Fragments(kind, len)

-----------------------------------------------------------------------------
(* The encoder: encode_queued_commands_bounded.                             *)

SizeOf(commands) == PacketOverhead + FoldLeft(LAMBDA n, c : n + c.size, 0, commands)

(* A probe at the head lifts the cap to the receive buffer's size.          *)
MaxSize ==
    IF command_queue # << >> /\ Head(command_queue).type = "probe"
    THEN ReceiveBufferMaxSize ELSE DatagramCap

FitsStrictly(n) == SizeOf(SubSeq(command_queue, 1, n)) < MaxSize

(* As many commands as fit; 0 when the first is too large.                  *)
Fits(n) == SizeOf(SubSeq(command_queue, 1, n)) <= MaxSize

SelectedCount ==
    CHOOSE n \in 0 .. Len(command_queue) :
        /\ n > 0 => Fits(n)
        /\ n < Len(command_queue) => ~Fits(n + 1)

RequeuedInReverse(n) ==
    FoldLeft(EnqueueCommand, [queue |-> << >>, waiting |-> 0],
             Reverse(SubSeq(command_queue, n + 1, Len(command_queue))))

(* drain_commands, then the rest is queued again through enqueue_command.   *)
Requeued(n) ==
    FoldLeft(EnqueueCommand, [queue |-> << >>, waiting |-> 0],
             SubSeq(command_queue, n + 1, Len(command_queue)))

CanSendIgnored == TRUE

(* can_send_within_bandwidth. *)
CanSendWithinBandwidth == OutgoingLimit = 0 \/ bytes_sent_this_window < OutgoingLimit

MaySend == command_queue # << >> /\ CanSendWithinBandwidth /\ Fits(1)

(* What comes back for the probes of a datagram that gets through.          *)
RepliesTo(commands, size) ==
    IF size > PathMtu THEN {}
    ELSE {[size |-> c.target, token |-> c.token] : c \in {x \in ToSet(commands) : x.type = "probe"}}

Flushing == pc \in {"flush_event", "flush_update"}

(* One iteration of the flush loop of process_event and update ...          *)
FlushOne ==
    /\ Flushing /\ MaySend
    /\ LET n == SelectedCount
           commands == SubSeq(command_queue, 1, n)
           size == SizeOf(commands)
       IN  /\ Becomes(Requeued(n))
           /\ bytes_sent_this_window' = bytes_sent_this_window + size
           /\ transmitted' = transmitted + n
           /\ replies' = replies \cup RepliesTo(commands, size)
    /\ UNCHANGED <<pc, pmtu, counters>>

(* ... and its end; update goes on with handle_pmtu.                        *)
FlushEnds ==
    /\ Flushing /\ ~MaySend
    /\ pc' = IF pc = "flush_event" THEN "idle" ELSE "pmtu"
    /\ UNCHANGED <<command_queue, total_waiting_data, bytes_sent_this_window, pmtu,
                   replies,  transmitted, counters>>

-----------------------------------------------------------------------------
(* process_event: the application sends a payload.                          *)
ProcessEvent(kind, len) ==
    /\ pc = "idle" /\ messages < MaxMessages
    /\ Becomes(FoldLeft(EnqueueNew, Outbox, Commands(kind, len)))
    /\ messages' = messages + 1
    /\ pc' = "flush_event"
    /\ UNCHANGED <<bytes_sent_this_window, pmtu, replies,  transmitted,
                   controls, probes>>

(* A received command queues an acknowledgement, a Pong or another answer.  *)
QueueAnswer ==
    /\ pc = "idle" /\ controls < MaxControls
    /\ Becomes(EnqueueNew(Outbox, Control))
    /\ controls' = controls + 1
    /\ UNCHANGED <<pc, bytes_sent_this_window, pmtu, replies,  transmitted,
                   messages, probes>>

(* update starts: the bandwidth window may be over, a Ping may be due.      *)
BeginUpdate(expired, ping) ==
    /\ pc = "idle" /\ (ping => controls < MaxControls)
    /\ bytes_sent_this_window' = IF expired THEN 0 ELSE bytes_sent_this_window
    /\ Becomes(IF ping THEN EnqueueNew(Outbox, Control) ELSE Outbox)
    /\ controls' = IF ping THEN controls + 1 ELSE controls
    /\ may_probe' = (may_probe \/ expired)
    /\ pc' = "flush_update"
    /\ UNCHANGED <<use_pmtu_discovery, fragment_size, low, high, outstanding, replies, 
                  transmitted, messages, probes>>

-----------------------------------------------------------------------------
(* PmtuDiscovery::handle_pmtu, the last step of update.                     *)

SkipPmtu ==
    /\ ~use_pmtu_discovery
    /\ UNCHANGED <<command_queue, total_waiting_data, pmtu, probes>>

(* A probe is out: it stays so, or has failed.                              *)
AwaitProbe ==
    /\ use_pmtu_discovery /\ outstanding # NoProbe
    /\ \/ UNCHANGED <<high, outstanding, may_probe>>
       \/ /\ high' = IF outstanding.size > 0 THEN Minimum(high, outstanding.size - 1) ELSE high
          /\ outstanding' = NoProbe
          /\ may_probe' = FALSE
    /\ UNCHANGED <<command_queue, total_waiting_data, use_pmtu_discovery, fragment_size, low, probes>>

ClampedHigh == Minimum(high, ReceiveBufferMaxSize)

Converged == ClampedHigh - low <= PmtuConvergeThreshold

Converge ==
    /\ use_pmtu_discovery /\ outstanding = NoProbe /\ Converged
    /\ high' = ClampedHigh
    /\ fragment_size' = low
    /\ UNCHANGED <<command_queue, total_waiting_data, use_pmtu_discovery, low, outstanding,
                   may_probe, probes>>

WaitForInterval ==
    /\ use_pmtu_discovery /\ outstanding = NoProbe /\ ~Converged
    /\ high' = ClampedHigh
    /\ UNCHANGED <<command_queue, total_waiting_data, use_pmtu_discovery, fragment_size, low, outstanding,
                   may_probe, probes>>

ProbeSizeShort(target) == ProbeHeader + 1

(* The payload fills the datagram up to the target.                         *)
ProbeSize(target) ==
    IF target > PacketOverhead + ProbeHeader THEN target - PacketOverhead ELSE ProbeHeader + 1

SendProbe ==
    /\ use_pmtu_discovery /\ outstanding = NoProbe /\ ~Converged /\ may_probe
    /\ may_probe' = FALSE
    /\ high' = ClampedHigh
    /\ LET target == (low + ClampedHigh) \div 2
           probe == [Command("probe", ProbeSize(target), 0)
                       EXCEPT !.target = target, !.token = probes + 1]
       IN  /\ Becomes(EnqueueNew(Outbox, probe))
           /\ outstanding' = [size |-> target, token |-> probes + 1]
    /\ probes' = probes + 1
    /\ UNCHANGED <<use_pmtu_discovery, fragment_size, low>>

HandlePmtu ==
    /\ pc = "pmtu"
    /\ SkipPmtu \/ AwaitProbe \/ Converge \/ WaitForInterval \/ SendProbe
    /\ pc' = "idle"
    /\ UNCHANGED <<bytes_sent_this_window, replies,  transmitted, messages, controls>>

(* process_reply: only the reply to the probe that is out counts.           *)
ReplyAlways(r) == outstanding # NoProbe

ReplyMatches(r) == outstanding # NoProbe /\ outstanding.token = r.token

ReceiveReply(r) ==
    /\ pc = "idle" /\ r \in replies
    /\ replies' = replies \ {r}
    /\ IF ReplyMatches(r)
       THEN /\ low' = IF low < r.size THEN r.size ELSE low
            /\ fragment_size' = low'
            /\ outstanding' = NoProbe
            /\ may_probe' = FALSE
            /\ UNCHANGED <<use_pmtu_discovery, high>>
       ELSE UNCHANGED pmtu
    /\ UNCHANGED <<pc, command_queue, total_waiting_data, bytes_sent_this_window,
                    transmitted, counters>>

Init ==
    /\ pc = "idle"
    /\ command_queue = << >> /\ total_waiting_data = 0
    /\ bytes_sent_this_window = 0
    /\ use_pmtu_discovery \in UsePmtu
    /\ fragment_size = FragmentSize /\ low = PmtuMin /\ high = PmtuMax
    /\ outstanding = NoProbe /\ may_probe = FALSE
    /\ replies = {}
    /\ transmitted = 0 /\ messages = 0 /\ controls = 0 /\ probes = 0

Next ==
    \/ \E kind \in Kinds, len \in PayloadSizes : ProcessEvent(kind, len)
    \/ QueueAnswer
    \/ \E expired, ping \in BOOLEAN : BeginUpdate(expired, ping)
    \/ FlushOne \/ FlushEnds \/ HandlePmtu
    \/ \E r \in replies : ReceiveReply(r)

Spec == Init /\ [][Next]_vars

(* manual_poll calls update again and again, each call runs to its end, and *)
(* now and then a second has passed.                                        *)
FairSpec ==
    /\ Spec
    /\ WF_vars(FlushOne \/ FlushEnds \/ HandlePmtu)
    /\ SF_vars(\E ping \in BOOLEAN : BeginUpdate(TRUE, ping))

-----------------------------------------------------------------------------
TypeOK ==
    /\ pc \in {"idle", "flush_event", "flush_update", "pmtu"}
    /\ \A i \in DOMAIN command_queue :
          LET c == command_queue[i]
          IN  c.size \in Nat /\ c.data \in IF c.type = "data" THEN Nat \ {0} ELSE {0}
    /\ total_waiting_data \in Nat /\ bytes_sent_this_window \in Nat
    /\ fragment_size \in Nat /\ low \in Nat /\ high \in Nat
    /\ may_probe \in BOOLEAN
    /\ outstanding = NoProbe \/ (outstanding.size \in Nat /\ outstanding.token \in 1 .. probes)

(* total_waiting_data is what waits: the payload bytes of the queue, however*)
(* often it was drained, cut and queued again, and never more than          *)
(* max_waiting_data.                                                        *)
WaitingDataIsExact ==
    /\ total_waiting_data = FoldLeft(LAMBDA n, c : n + c.data, 0, command_queue)
    /\ MaxWaitingData > 0 => total_waiting_data <= MaxWaitingData

(* drain_commands and the queueing again of what did not fit lose, repeat   *)
(* and reorder nothing: every command once queued is sent once, in order.   *)
QueueIsFifo ==
    \A i \in DOMAIN command_queue : command_queue[i].serial = transmitted + i

(* The bandwidth limit is exceeded by less than one datagram per window.    *)
BandwidthOvershoot ==
    OutgoingLimit > 0 => bytes_sent_this_window < OutgoingLimit + ReceiveBufferMaxSize

(* PMTU discovery raises low, and with it the fragment size, only to sizes  *)
(* that the path has carried: late replies and batched probes included.     *)
PmtuIsSound == PmtuMin <= PathMtu => low <= PathMtu

(* The bounds of the search stay in order around the probe that is out.     *)
SearchIsBracketed ==
    PmtuMin <= Minimum(PmtuMax, ReceiveBufferMaxSize) /\ PmtuConvergeThreshold > 0 =>
        /\ low <= high
        /\ outstanding # NoProbe => outstanding.size \in low + 1 .. high

(* "keep commands queued for next window": the queue is drained again and   *)
(* again, unless PMTU discovery has lowered the fragment size below the     *)
(* configured one and not raised it since.                                  *)
QueueDrainsUnlessLowered == []<>(command_queue = << >> \/ fragment_size < FragmentSize)

(* "so a single SendReliable or SendFragment fits within one UDP datagram   *)
(* when encoded": no queued data command is too large to be sent, unless    *)
(* PMTU discovery has lowered the fragment size.                            *)
QueuedDataFits ==
    fragment_size >= FragmentSize => \A i \in DOMAIN command_queue :
        command_queue[i].type = "data" =>
            PacketOverhead + command_queue[i].size <= DatagramCap

(* The command queue through enqueue_command and every partial drain of     *)
(* encode_queued_commands_bounded: its total is exact, its order kept, and  *)
(* what it holds can be sent.                                               *)
QueueInv == TypeOK /\ WaitingDataIsExact /\ QueueIsFifo /\ QueuedDataFits

=============================================================================
