------------------------------ MODULE PeerLink ------------------------------
(***************************************************************************)
(* Two hosts of bitfold talking to each other: each end is the Peer that   *)
(* its session manager keeps for the other.  Modelled are the connection   *)
(* handshake with its session ids, the queue of commands and the datagrams *)
(* they are batched into, reliable data on one channel with its            *)
(* acknowledgements, the local and remote disconnect, and the replacement  *)
(* of a dropped session by a new one.  The network reorders datagrams and, *)
(* within the bounds, loses and duplicates them.                           *)
(*                                                                         *)
(* A payload is the number of the message within its sender.  Messages     *)
(* fit one command: fragments are not part of this module.  Datagrams in   *)
(* flight are a set: only acknowledgements can be equal, and handling one  *)
(* twice in a row changes nothing.                                         *)
(***************************************************************************)
EXTENDS PeerState, ChannelBuffer, Sequences, FiniteSets, SequencesExt

CONSTANTS
    Peers,        \* the two ends
    SessionIds,   \* the values rng.random() can give to outgoing_session_id
    Modes,        \* subset of {"ordered", "unordered"}: reliable data sent
    MaxMessages,  \* bound: messages each application sends
    MaxLost,      \* bound: datagrams the network loses
    MaxCopies,    \* bound: datagrams the network delivers a second time
    MaxRestarts,  \* bound: sessions dropped and created again
    MayDisconnect \* does an application call Host::disconnect?

ASSUME LinkAssumption ==
    /\ IsFiniteSet(Peers) /\ Cardinality(Peers) = 2
    /\ SessionIds # {}
    /\ Modes \subseteq {"ordered", "unordered"}
    /\ MaxMessages \in Nat /\ MaxLost \in Nat
    /\ MaxCopies \in Nat /\ MaxRestarts \in Nat
    /\ MayDisconnect \in BOOLEAN

VARIABLES
    peer,    \* the Peer of each end
    wire,    \* datagrams in flight: destination and commands
    sent,    \* messages each application has sent, in order: their modes
    lost, copies, restarts

vars == <<peer, wire, sent, lost, copies, restarts>>

Other(p) == CHOOSE q \in Peers : q # p

-----------------------------------------------------------------------------
(* Commands, the fields the properties tell apart. *)

Connect(id) == [type |-> "Connect", outgoing_session_id |-> id]

VerifyConnect(incoming, outgoing) ==
    [type |-> "VerifyConnect", incoming_session_id |-> incoming,
     outgoing_session_id |-> outgoing]

Acknowledge == [type |-> "Acknowledge"]

DisconnectCommand == [type |-> "Disconnect"]

(* local_sequence_num(): only process_outgoing advances it, and nothing in  *)
(* the send path calls that.                                                *)
LocalSequenceNum == 0

SendReliable(mode, n) ==
    [type |-> "SendReliable", sequence |-> LocalSequenceNum, mode |-> mode, data |-> n]

(* Peer::new. *)
NewPeer(id) ==
    [state |-> "Idle", outgoing_session_id |-> id, incoming_session_id |-> 0,
     queue |-> << >>, expected |-> 0, buffered |-> [s \in {} |-> 0],
     ordered |-> << >>, unordered |-> << >>]

(* A peer as Peer::new leaves it also stands for no session at all: the     *)
(* first datagram or user event creates one.                                *)
HasSession(pr) == pr # NewPeer(pr.outgoing_session_id)

EnqueueNothing(pr, command) == pr

Enqueue(pr, command) == [pr EXCEPT !.queue = Append(@, command)]

-----------------------------------------------------------------------------
(* process_command, one operator per arm: the peer after the command.       *)

HandleConnectUnanswered(pr, c) ==
    IF pr.state # "Idle" THEN pr
    ELSE [pr EXCEPT !.state = OnConnect(@), !.incoming_session_id = c.outgoing_session_id]

(* Only an Idle peer answers, once.                                         *)
HandleConnect(pr, c) ==
    IF pr.state # "Idle" THEN pr
    ELSE Enqueue([pr EXCEPT !.state = OnConnect(@),
                            !.incoming_session_id = c.outgoing_session_id],
                 VerifyConnect(c.outgoing_session_id, pr.outgoing_session_id))

SessionIdIgnored(pr, c) == FALSE

(* The error return of the VERIFY_CONNECT arm. *)
SessionIdMismatch(pr, c) ==
    /\ c.type = "VerifyConnect" /\ pr.state = "Connecting"
    /\ c.outgoing_session_id # pr.outgoing_session_id

(* incoming_session_id is stored before the ids are compared.               *)
HandleVerifyConnect(pr, c) ==
    IF pr.state # "Connecting" THEN pr
    ELSE [pr EXCEPT !.incoming_session_id = c.incoming_session_id,
                    !.state = IF SessionIdMismatch(pr, c) THEN @ ELSE OnVerifyConnect(@)]

(* Reliable data is acknowledged; ordered data goes through the channel,    *)
(* unordered data straight to the application.                              *)
DeliverOrdered(pr, c) ==
    LET buffer == BufferInsert(pr.buffered, c)
        k == CHOOSE n \in 0 .. Modulus : DrainsExactly(buffer, pr.expected, n)
    IN  [pr EXCEPT !.ordered = @ \o ReadyPackets(buffer, pr.expected, k),
                   !.buffered = Drained(buffer, pr.expected, k),
                   !.expected = WrappingAdd(@, k)]

DeliverUnordered(pr, c) == [pr EXCEPT !.unordered = Append(@, c.data)]

HandleSendReliable(pr, c) ==
    LET acked == Enqueue(pr, Acknowledge)
    IN  IF c.mode = "ordered" THEN DeliverOrdered(acked, c) ELSE DeliverUnordered(acked, c)

(* DISCONNECT makes a Zombie of any peer; an acknowledgement finds no sent  *)
(* packet to remove.                                                        *)
HandleCommand(pr, c) ==
    CASE c.type = "Connect" -> HandleConnect(pr, c)
      [] c.type = "VerifyConnect" -> HandleVerifyConnect(pr, c)
      [] c.type = "SendReliable" -> HandleSendReliable(pr, c)
      [] c.type = "Disconnect" -> [pr EXCEPT !.state = OnDisconnect(@)]
      [] c.type = "Acknowledge" -> pr

(* process_command_packet: the first error ends the loop, and the payloads  *)
(* extracted so far are lost with it.                                       *)
RunCommands(pr, commands) ==
    LET Step(r, c) ==
          IF r.failed THEN r
          ELSE [peer |-> HandleCommand(r.peer, c), failed |-> SessionIdMismatch(r.peer, c)]
    IN  FoldLeft(Step, [peer |-> pr, failed |-> FALSE], commands)

(* process_packet: record_recv and the packet events only when all went     *)
(* well.                                                                    *)
ProcessPacket(pr, commands) ==
    LET r == RunCommands(pr, commands)
    IN  IF r.failed
        THEN [r.peer EXCEPT !.ordered = pr.ordered, !.unordered = pr.unordered]
        ELSE [r.peer EXCEPT !.state = RecordRecv(@)]

-----------------------------------------------------------------------------
(* The flush loop of process_event and update: datagrams take prefixes of   *)
(* the queue; what the bandwidth limit holds back stays queued.             *)
Transmit(p, pr, n) ==
    /\ peer' = [peer EXCEPT ![p] = [pr EXCEPT !.queue = SubSeq(@, n + 1, Len(@))]]
    /\ wire' = IF n = 0 THEN wire
               ELSE wire \cup {[to |-> Other(p), commands |-> SubSeq(pr.queue, 1, n)]}

(* record_send of process_event, with the CONNECT of initiate_connect.      *)
AfterRecordSend(pr) ==
    LET begun == [pr EXCEPT !.state = RecordSend(@)]
    IN  IF Handshake /\ pr.state = "Idle"
        THEN Enqueue(begun, Connect(pr.outgoing_session_id)) ELSE begun

(* Host::send and process_event.                                            *)
Send(p, mode) ==
    /\ Len(sent[p]) < MaxMessages
    /\ LET pr == Enqueue(AfterRecordSend(peer[p]), SendReliable(mode, Len(sent[p]) + 1))
       IN  \E n \in 0 .. Len(pr.queue) : Transmit(p, pr, n)
    /\ sent' = [sent EXCEPT ![p] = Append(@, mode)]
    /\ UNCHANGED <<lost, copies, restarts>>

(* update, in the next poll.                                                *)
Update(p) ==
    /\ \E n \in 1 .. Len(peer[p].queue) : Transmit(p, peer[p], n)
    /\ UNCHANGED <<sent, lost, copies, restarts>>

DisconnectSilently(pr) == [pr EXCEPT !.state = "Disconnecting"]

StartDisconnect(pr) == Enqueue([pr EXCEPT !.state = DisconnectedLocally(@)], DisconnectCommand)

(* Host::disconnect.                                                        *)
Disconnect(p) ==
    /\ MayDisconnect
    /\ HasSession(peer[p]) /\ ~IsDisconnecting(peer[p].state)
    /\ peer' = [peer EXCEPT ![p] = StartDisconnect(@)]
    /\ UNCHANGED <<wire, sent, lost, copies, restarts>>

(* A datagram arrives.  A Zombie is removed at the end of the poll that     *)
(* made it one (Restart); until then the datagrams and the user events of   *)
(* that poll still reach it.                                                *)
Receive(d) ==
    /\ peer' = [peer EXCEPT ![d.to] = ProcessPacket(@, d.commands)]
    /\ \/ wire' = wire \ {d} /\ UNCHANGED copies
       \/ copies < MaxCopies /\ copies' = copies + 1 /\ UNCHANGED wire
    /\ UNCHANGED <<sent, lost, restarts>>

Lose(d) ==
    /\ lost < MaxLost
    /\ lost' = lost + 1
    /\ wire' = wire \ {d}
    /\ UNCHANGED <<peer, sent, copies, restarts>>

(* The session was dropped, by timeout or as a Zombie, and a new one stands *)
(* in its place, with a fresh session id.                                   *)
Restart(p, id) ==
    /\ restarts < MaxRestarts /\ HasSession(peer[p])
    /\ restarts' = restarts + 1
    /\ peer' = [peer EXCEPT ![p] = NewPeer(id)]
    /\ UNCHANGED <<wire, sent, lost, copies>>

Init ==
    /\ \E id \in [Peers -> SessionIds] : peer = [p \in Peers |-> NewPeer(id[p])]
    /\ wire = {}
    /\ sent = [p \in Peers |-> << >>]
    /\ lost = 0 /\ copies = 0 /\ restarts = 0

Next ==
    \/ \E p \in Peers, mode \in Modes : Send(p, mode)
    \/ \E p \in Peers : Update(p) \/ Disconnect(p)
    \/ \E p \in Peers, id \in SessionIds : Restart(p, id)
    \/ \E d \in wire : Receive(d) \/ Lose(d)

Spec == Init /\ [][Next]_vars

(* The hosts are polled again and again, and a datagram that is not lost    *)
(* arrives.                                                                 *)
FairSpec ==
    /\ Spec
    /\ \A p \in Peers : WF_vars(Update(p))
    /\ WF_vars(\E d \in wire : Receive(d))

-----------------------------------------------------------------------------
TypeOK ==
    /\ \A p \in Peers :
          /\ peer[p].state \in PeerStates
          /\ peer[p].outgoing_session_id \in SessionIds
          /\ peer[p].incoming_session_id \in SessionIds \cup {0}
          /\ peer[p].expected \in SequenceNumber
    /\ \A d \in wire : d.to \in Peers /\ Len(d.commands) > 0
    /\ sent \in [Peers -> Seq(Modes)]

Messages(p, mode) == {n \in 1 .. Len(sent[p]) : sent[p][n] = mode}

(* Ordered data reaches the application only if the other end sent it as    *)
(* ordered data, and at most once, whatever the network repeats.            *)
OrderedAtMostOnce ==
    \A p \in Peers :
        /\ ToSet(peer[p].ordered) \subseteq Messages(Other(p), "ordered")
        /\ IsInjective(peer[p].ordered)

(* Without restarts, a client that accepted VERIFY_CONNECT agrees with its  *)
(* server: the server took this client's CONNECT and both hold the same     *)
(* session id.                                                              *)
AgreeOnSession ==
    \A p \in Peers : peer[p].state = "ConnectionSucceeded" =>
        /\ peer[Other(p)].incoming_session_id = peer[p].outgoing_session_id
        /\ peer[Other(p)].outgoing_session_id = peer[p].outgoing_session_id
        /\ peer[p].incoming_session_id = peer[p].outgoing_session_id

Undisturbed == lost = 0 /\ restarts = 0

(* Without the handshake, whoever starts to connect does get connected,     *)
(* through the acknowledgement of its first packet (or disconnects), unless *)
(* a datagram is lost or a session dropped on the way.                      *)
ImplicitConnectCompletes ==
    \A p \in Peers : peer[p].state = "Connecting" ~>
        (peer[p].state # "Connecting" \/ ~Undisturbed)

AnswerArriving(p) ==
    \E d \in wire : d.to = p /\ \E i \in DOMAIN d.commands : d.commands[i].type = "VerifyConnect"

(* "uses Connect->VerifyConnect->ACK handshake with session IDs": a client  *)
(* whose CONNECT the server answered does not stay Connecting.              *)
AnsweredConnectCompletes ==
    \A p \in Peers :
        (peer[p].state = "Connecting" /\ AnswerArriving(p)) ~> peer[p].state # "Connecting"

(* With the handshake, what keeps a client Connecting, other than a         *)
(* datagram lost or a session dropped, is one of two things: the server     *)
(* chose another session id and the client refuses its answer, or both ends *)
(* opened at the same time and each ignores the CONNECT of the other.       *)
HandshakeCompletesUnless ==
    \A p \in Peers : peer[p].state = "Connecting" ~>
        \/ peer[p].state # "Connecting"
        \/ ~Undisturbed
        \/ peer[Other(p)].outgoing_session_id # peer[p].outgoing_session_id
        \/ peer[Other(p)].state = "Connecting"

(* A local disconnect reaches the other end: its session becomes a Zombie,  *)
(* which the session manager reports and removes, unless a datagram is lost *)
(* or a session dropped on the way.                                         *)
DisconnectReachesPeer ==
    \A p \in Peers : peer[p].state = "Disconnecting" ~>
        (peer[p].state = "Zombie" \/ peer[Other(p)].state = "Zombie" \/ ~Undisturbed)

(* "Delivery and order guaranteed": every ordered message sent is delivered.*)
OrderedIsDelivered ==
    \A p \in Peers : \A n \in 1 .. MaxMessages :
        n \in Messages(p, "ordered") ~> n \in ToSet(peer[Other(p)].ordered)

(* At every point of a handshake: the peers are well formed, a client that  *)
(* process_command made ConnectionSucceeded agrees with its server, and     *)
(* ordered data sent meanwhile arrives at most once.                        *)
LinkInv == TypeOK /\ AgreeOnSession /\ OrderedAtMostOnce

=============================================================================
