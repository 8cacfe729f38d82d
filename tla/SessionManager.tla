--------------------------- MODULE SessionManager ---------------------------
(***************************************************************************)
(* The SessionManager of bitfold-host: the table of sessions, the count of *)
(* sessions per IP and the local counter of unestablished sessions that    *)
(* manual_poll keeps while it works through one poll: the receive loop,    *)
(* the loop over user events, the two passes over all sessions, and the    *)
(* removal of dropped ones.  manual_poll runs in one thread; its loops are *)
(* modelled iteration by iteration because what arrives during a poll is   *)
(* decided while it runs.                                                  *)
(*                                                                         *)
(* A session is its life-cycle state, the clock ticks since last_heard     *)
(* (quiet) and, as a history variable, whether a remote or the user        *)
(* created it.  Datagrams are any sequence of commands from any address.   *)
(* announced holds the addresses whose last life-cycle event was Connect:  *)
(* actions are pushed to pending_events in order and flush publishes them  *)
(* in that order at the end of the poll.                                   *)
(***************************************************************************)
EXTENDS PeerState, Integers, FiniteSets

CONSTANTS
    Addr,               \* socket addresses of remotes
    Ip,                 \* their IPs
    IpOf,               \* [Addr -> Ip]: SocketAddr::ip
    MaxUnestablished,   \* Config::max_unestablished_connections
    MaxDuplicatePeers,  \* Config::max_duplicate_peers, 0 for no limit
    IdleTimeout,        \* Config::idle_connection_timeout, in clock ticks
    BlockingMode,       \* Config::blocking_mode
    VerifyArrives       \* can a VERIFY_CONNECT with the right session id arrive?

ASSUME SessionAssumption ==
    /\ IpOf \in [Addr -> Ip]
    /\ IsFiniteSet(Addr)
    /\ MaxUnestablished \in Nat
    /\ MaxDuplicatePeers \in Nat
    /\ IdleTimeout \in Nat \ {0}
    /\ BlockingMode \in BOOLEAN
    /\ VerifyArrives \in BOOLEAN

VARIABLES
    pc,                     \* where manual_poll is
    sessions,               \* HashMap of sessions: address -> session
    duplicate_peer_count,   \* sessions per IP, 0 for a missing entry
    unestablished_sessions, \* the local counter of manual_poll
    current,                \* the datagram in process_packet: address and session
    to_drop,                \* addresses collected for removal
    announced               \* the application believes these to be connected

vars == <<pc, sessions, duplicate_peer_count, unestablished_sessions,
          current, to_drop, announced>>

Session == [state : PeerStates, quiet : 0 .. IdleTimeout, origin : {"remote", "user"}]

Datagram == [addr : Addr, session : Session]
NoDatagram == << >>

Phases == {"idle", "recv", "commands", "user", "remove"}

(* Peer::new, by a datagram or by the user. *)
NewSession(origin) == [state |-> "Idle", quiet |-> 0, origin |-> origin]

(* unestablished_session_count: a pass over the table. *)
UnestablishedSessionCount ==
    Cardinality({a \in DOMAIN sessions : ~IsEstablished(sessions[a].state)})

-----------------------------------------------------------------------------
(* Duplicate peers. *)

CanAcceptOneMore(a) ==
    MaxDuplicatePeers = 0 \/ duplicate_peer_count[IpOf[a]] <= MaxDuplicatePeers

CanAcceptDuplicate(a) ==
    MaxDuplicatePeers = 0 \/ duplicate_peer_count[IpOf[a]] < MaxDuplicatePeers

IncrementNothing(a) == UNCHANGED duplicate_peer_count

IncrementDuplicateCount(a) ==
    duplicate_peer_count' = [duplicate_peer_count EXCEPT ![IpOf[a]] = @ + 1]

(* A missing entry is left missing. *)
DecrementDuplicateCount(a) ==
    duplicate_peer_count' =
        [duplicate_peer_count EXCEPT ![IpOf[a]] = IF @ = 0 THEN 0 ELSE @ - 1]

(* The table after inserting or replacing one session, or removing one. *)
WithSession(a, s) ==
    [b \in DOMAIN sessions \cup {a} |-> IF b = a THEN s ELSE sessions[b]]

WithoutSession(a) == [b \in DOMAIN sessions \ {a} |-> sessions[b]]

-----------------------------------------------------------------------------
(* manual_poll, the receive loop. *)

BeginPoll ==
    /\ pc = "idle"
    /\ unestablished_sessions' = UnestablishedSessionCount
    /\ pc' = "recv"
    /\ UNCHANGED <<sessions, duplicate_peer_count, current, to_drop, announced>>

(* receive_packet returned a datagram of a: process_packet starts on the    *)
(* session of a, or on one just created.  A datagram that the interceptor   *)
(* or the incoming bandwidth limit drops changes nothing here.              *)
ReceiveDatagram(a) ==
    /\ pc = "recv"
    /\ current' = [addr |-> a,
                   session |-> IF a \in DOMAIN sessions THEN sessions[a]
                               ELSE NewSession("remote")]
    /\ pc' = "commands"
    /\ UNCHANGED <<sessions, duplicate_peer_count, unestablished_sessions,
                   to_drop, announced>>

(* process_command: every command refreshes last_heard; state is the one    *)
(* the command leads to.                                                    *)
ProcessCommand(state) ==
    /\ pc = "commands"
    /\ current' = [current EXCEPT !.session =
                      [current.session EXCEPT !.state = state, !.quiet = 0]]
    /\ UNCHANGED <<pc, sessions, duplicate_peer_count, unestablished_sessions,
                   to_drop, announced>>

ReceiveConnect == ProcessCommand(OnConnect(current.session.state))
ReceiveVerifyConnect == VerifyArrives /\ ProcessCommand(OnVerifyConnect(current.session.state))
ReceiveDisconnect == ProcessCommand(OnDisconnect(current.session.state))
ReceiveOther == ProcessCommand(current.session.state)

(* The session after the last command: process_packet calls record_recv     *)
(* only when every command was accepted.                                    *)
AfterRecord(ok) ==
    IF ok THEN [current.session EXCEPT !.state = RecordRecv(@)] ELSE current.session

(* Action::Emit(SocketEvent::Connect). *)
AnnounceConnect(a, before, after) ==
    announced' = IF BecameEstablished(before, after) THEN announced \cup {a} ELSE announced

AfterDatagram == IF BlockingMode THEN "user" ELSE "recv"

(* The rest of process_packet, then the manager's bookkeeping: a known      *)
(* session that became established leaves the counter, ...                  *)
FinishKnown(ok) ==
    LET a == current.addr
        s == AfterRecord(ok)
    IN  /\ pc = "commands" /\ a \in DOMAIN sessions
        /\ AnnounceConnect(a, current.session.state, s.state)
        /\ sessions' = WithSession(a, s)
        /\ unestablished_sessions' =
              IF BecameEstablished(sessions[a].state, s.state)
              THEN unestablished_sessions - 1 ELSE unestablished_sessions
        /\ pc' = AfterDatagram
        /\ current' = NoDatagram
        /\ UNCHANGED <<duplicate_peer_count, to_drop>>

CountNotInserted(n) == n

(* ... a new session is counted once it is in the table ...                 *)
CountInserted(n) == n + 1

NoLimit(a) == CanAcceptDuplicate(a)

Accepts(a) ==
    unestablished_sessions < MaxUnestablished /\ CanAcceptDuplicate(a)

FinishAccepted(ok) ==
    LET a == current.addr
        s == AfterRecord(ok)
    IN  /\ pc = "commands" /\ a \notin DOMAIN sessions
        /\ Accepts(a)
        /\ AnnounceConnect(a, current.session.state, s.state)
        /\ sessions' = WithSession(a, s)
        /\ IncrementDuplicateCount(a)
        /\ unestablished_sessions' = CountInserted(unestablished_sessions)
        /\ pc' = AfterDatagram
        /\ current' = NoDatagram
        /\ UNCHANGED to_drop

(* ... and one over a limit is discarded, after its events were pushed.     *)
FinishRefused(ok) ==
    LET a == current.addr
    IN  /\ pc = "commands" /\ a \notin DOMAIN sessions
        /\ ~Accepts(a)
        /\ AnnounceConnect(a, current.session.state, AfterRecord(ok).state)
        /\ pc' = AfterDatagram
        /\ current' = NoDatagram
        /\ UNCHANGED <<sessions, duplicate_peer_count, unestablished_sessions,
                       to_drop>>

(* WouldBlock or another error ends the loop. *)
EndReceive ==
    /\ pc = "recv"
    /\ pc' = "user"
    /\ UNCHANGED <<sessions, duplicate_peer_count, unestablished_sessions,
                   current, to_drop, announced>>

-----------------------------------------------------------------------------
(* manual_poll, the loop over user events. *)

(* process_event on a session of the table. *)
UserEventKnown(a) ==
    /\ pc = "user" /\ a \in DOMAIN sessions
    /\ LET s == [sessions[a] EXCEPT !.state = RecordSend(@)]
       IN  /\ AnnounceConnect(a, sessions[a].state, s.state)
           /\ sessions' = WithSession(a, s)
           /\ unestablished_sessions' =
                 IF BecameEstablished(sessions[a].state, s.state)
                 THEN unestablished_sessions - 1 ELSE unestablished_sessions
    /\ UNCHANGED <<pc, duplicate_peer_count, current, to_drop>>

(* A new session: checked against the duplicate limit only, not counted.    *)
UserEventNew(a) ==
    /\ pc = "user" /\ a \notin DOMAIN sessions
    /\ CanAcceptDuplicate(a)
    /\ LET s == [NewSession("user") EXCEPT !.state = RecordSend(@)]
       IN  /\ AnnounceConnect(a, "Idle", s.state)
           /\ sessions' = WithSession(a, s)
    /\ IncrementDuplicateCount(a)
    /\ UNCHANGED <<pc, unestablished_sessions, current, to_drop>>

-----------------------------------------------------------------------------
(* manual_poll, the passes over all sessions.  update sends what is queued  *)
(* and probes the path; it changes nothing that is represented here.        *)

ShouldDropEstablished(s) ==
    s.state = "Zombie" \/ (s.quiet >= IdleTimeout /\ IsEstablished(s.state))

(* packets_in_flight is not a reason: process_outgoing is never called, so  *)
(* it is always 0.                                                          *)
ShouldDrop(s) == s.state = "Zombie" \/ s.quiet >= IdleTimeout

(* A Zombie emits Disconnect; a timeout emits Timeout, and Disconnect too   *)
(* when the session is established.  Each tells the application that the    *)
(* peer is gone.                                                            *)
EmitsDeparture(s) == s.state = "Zombie" \/ s.quiet >= IdleTimeout

CollectDrops ==
    /\ pc = "user"
    /\ to_drop' = {a \in DOMAIN sessions : ShouldDrop(sessions[a])}
    /\ announced' = announced \ {a \in to_drop' : EmitsDeparture(sessions[a])}
    /\ pc' = "remove"
    /\ UNCHANGED <<sessions, duplicate_peer_count, unestablished_sessions, current>>

RemoveSession(a) ==
    /\ pc = "remove" /\ a \in to_drop
    /\ to_drop' = to_drop \ {a}
    /\ sessions' = WithoutSession(a)
    /\ DecrementDuplicateCount(a)
    /\ UNCHANGED <<pc, unestablished_sessions, current, announced>>

(* messenger.flush() and return: the local counter is gone. *)
EndPoll ==
    /\ pc = "remove" /\ to_drop = {}
    /\ pc' = "idle"
    /\ unestablished_sessions' = 0
    /\ UNCHANGED <<sessions, duplicate_peer_count, current, to_drop, announced>>

-----------------------------------------------------------------------------
(* Between polls. *)

(* Host::disconnect. *)
Disconnect(a) ==
    /\ pc = "idle" /\ a \in DOMAIN sessions
    /\ sessions' = [sessions EXCEPT ![a].state = DisconnectedLocally(@)]
    /\ UNCHANGED <<pc, duplicate_peer_count, unestablished_sessions, current,
                   to_drop, announced>>

(* The clock, saturating at the timeout: manual_poll gets one reading per   *)
(* poll.                                                                    *)
Tick ==
    /\ pc = "idle"
    /\ sessions' = [a \in DOMAIN sessions |->
          [sessions[a] EXCEPT !.quiet = IF @ < IdleTimeout THEN @ + 1 ELSE @]]
    /\ UNCHANGED <<pc, duplicate_peer_count, unestablished_sessions, current,
                   to_drop, announced>>

Init ==
    /\ pc = "idle"
    /\ sessions = [a \in {} |-> NewSession("remote")]
    /\ duplicate_peer_count = [i \in Ip |-> 0]
    /\ unestablished_sessions = 0
    /\ current = NoDatagram
    /\ to_drop = {}
    /\ announced = {}

(* process_packet fails when the datagram cannot be decoded, before any     *)
(* command, and when a Connecting session gets a VERIFY_CONNECT with a      *)
(* foreign session id.                                                      *)
MayFail ==
    \/ current.session = IF current.addr \in DOMAIN sessions
                         THEN sessions[current.addr] ELSE NewSession("remote")
    \/ current.session.state = "Connecting"

Finish ==
    \E ok \in BOOLEAN :
        /\ pc = "commands" /\ (ok \/ MayFail)
        /\ FinishKnown(ok) \/ FinishAccepted(ok) \/ FinishRefused(ok)

Next ==
    \/ BeginPoll \/ EndReceive \/ CollectDrops \/ EndPoll \/ Tick
    \/ \E a \in Addr : ReceiveDatagram(a)
    \/ ReceiveConnect \/ ReceiveVerifyConnect \/ ReceiveDisconnect \/ ReceiveOther
    \/ Finish
    \/ \E a \in Addr : UserEventKnown(a) \/ UserEventNew(a)
    \/ \E a \in to_drop : RemoveSession(a)
    \/ \E a \in Addr : Disconnect(a)

Spec == Init /\ [][Next]_vars

(* manual_poll runs to its end and is called again; the clock advances; and *)
(* the receive loop, which goes on while datagrams are waiting, finds the   *)
(* socket empty sooner or later.                                            *)
Fairness ==
    /\ WF_vars(BeginPoll) /\ WF_vars(Finish) /\ SF_vars(EndReceive)
    /\ WF_vars(CollectDrops) /\ WF_vars(EndPoll)
    /\ WF_vars(\E a \in to_drop : RemoveSession(a))
    /\ SF_vars(Tick)

FairSpec == Spec /\ Fairness

-----------------------------------------------------------------------------
TypeOK ==
    /\ pc \in Phases
    /\ DOMAIN sessions \subseteq Addr
    /\ \A a \in DOMAIN sessions : sessions[a] \in Session
    /\ duplicate_peer_count \in [Ip -> Nat]
    /\ unestablished_sessions \in Int
    /\ current \in IF pc = "commands" THEN Datagram ELSE {NoDatagram}
    /\ to_drop \subseteq DOMAIN sessions
    /\ pc # "remove" => to_drop = {}
    /\ announced \subseteq Addr

SessionsOf(i) == {a \in DOMAIN sessions : IpOf[a] = i}

Pending == {a \in DOMAIN sessions : IsPending(sessions[a].state)}

(* The usize counter of manual_poll never goes below zero: while datagrams  *)
(* are processed it counts at least the sessions that can still become      *)
(* established, and each of those is subtracted once.                       *)
CounterCoversPending ==
    pc \in {"recv", "commands"} => unestablished_sessions >= Cardinality(Pending)

(* duplicate_peer_count is exact at every point of a poll: it counts the    *)
(* sessions of the IP, however they were created, replaced or dropped.      *)
DuplicateCountExact ==
    \A i \in Ip : duplicate_peer_count[i] = Cardinality(SessionsOf(i))

(* No IP ever has more sessions than max_duplicate_peers.                   *)
DuplicateLimit ==
    MaxDuplicatePeers # 0 =>
        \A i \in Ip : Cardinality(SessionsOf(i)) <= MaxDuplicatePeers

(* max_unestablished_connections holds for the sessions remotes create: the *)
(* number of them still waiting for their handshake is within the limit,    *)
(* although the counter is only local to one poll.                          *)
InboundLimit ==
    Cardinality({a \in Pending : sessions[a].origin = "remote"}) <= MaxUnestablished

(* A session that stays silent is dropped in the end, established or not:   *)
(* manual_poll leaks no session.                                            *)
SilentSessionDropped ==
    \A a \in Addr : []<>(a \notin DOMAIN sessions \/ sessions[a].quiet = 0)

=============================================================================
