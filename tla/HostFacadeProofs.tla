-------------------------- MODULE HostFacadeProofs --------------------------
(***************************************************************************)
(* The Host, from its sessions to its application, for every number of     *)
(* remotes, IPs and every limit.                                           *)
(*                                                                         *)
(* The sessions: the per-IP counts are exact, the limits hold and the      *)
(* local counter of manual_poll covers every session that can still be     *)
(* established, so that subtracting from it never underflows.              *)
(*                                                                         *)
(* The facade, for every interleaving of the application's threads with a  *)
(* poll: what waits in the channels, what the application knows once it    *)
(* has read its events, and that no session is announced twice.            *)
(***************************************************************************)
EXTENDS HostFacade, FiniteSetTheorems, SequenceTheorems, TLAPS

-----------------------------------------------------------------------------
(* The sessions. *)

(* A life-cycle change from s to t: what is disconnecting stays so, and     *)
(* nothing becomes pending that was not.                                    *)
Evolves(s, t) ==
    /\ t \in PeerStates
    /\ IsPending(t) => IsPending(s)
    /\ IsDisconnecting(s) => IsDisconnecting(t)

(* The session process_packet works on descends from the one in the table,  *)
(* or is new and the remote's.                                              *)
CurrentDescends ==
    pc = "commands" =>
        IF current.addr \in DOMAIN sessions
        THEN /\ Evolves(sessions[current.addr].state, current.session.state)
             /\ current.session.origin = sessions[current.addr].origin
        ELSE current.session.origin = "remote"

SessionInv ==
    /\ TypeOK
    /\ CurrentDescends
    /\ CounterCoversPending
    /\ DuplicateCountExact
    /\ DuplicateLimit
    /\ InboundLimit

-----------------------------------------------------------------------------
(* Every transition of the life cycle is an evolution. *)
LEMMA TransitionsEvolve ==
    ASSUME NEW s \in PeerStates
    PROVE  /\ Evolves(s, RecordSend(s))
           /\ Evolves(s, RecordRecv(s))
           /\ Evolves(s, DisconnectedLocally(s))
           /\ Evolves(s, OnConnect(s))
           /\ Evolves(s, OnVerifyConnect(s))
           /\ Evolves(s, OnDisconnect(s))
           /\ Evolves(s, s)
BY DEF Evolves, PeerStates, IsPending, IsEstablished, IsDisconnecting,
       RecordSend, RecordRecv, DisconnectedLocally, OnConnect, OnVerifyConnect,
       OnDisconnect

(* Several commands of one datagram are again an evolution. *)
LEMMA EvolvesTransitive ==
    ASSUME NEW s \in PeerStates, NEW t \in PeerStates, NEW u \in PeerStates,
           Evolves(s, t), Evolves(t, u)
    PROVE  Evolves(s, u)
BY DEF Evolves

(* Only a pending session can become established. *)
LEMMA EstablishedWasPending ==
    ASSUME NEW s \in PeerStates, NEW t \in PeerStates,
           Evolves(s, t), BecameEstablished(s, t)
    PROVE  IsPending(s) /\ ~IsPending(t)
BY DEF Evolves, BecameEstablished, PeerStates, IsPending, IsEstablished, IsDisconnecting

(* The table is finite, so every set of sessions has a cardinality.         *)
LEMMA Finite ==
    ASSUME TypeOK, NEW S, S \subseteq DOMAIN sessions
    PROVE  IsFiniteSet(S) /\ Cardinality(S) \in Nat
BY SessionAssumption, FS_Subset, FS_CardinalityType DEF TypeOK

(* A smaller set has a smaller cardinality, and strictly so when it misses  *)
(* an element.                                                              *)
LEMMA Smaller ==
    ASSUME NEW S, NEW T, IsFiniteSet(T), S \subseteq T
    PROVE  /\ IsFiniteSet(S) /\ Cardinality(S) \in Nat /\ Cardinality(T) \in Nat
           /\ Cardinality(S) <= Cardinality(T)
           /\ \A x \in T \ S : Cardinality(S) <= Cardinality(T) - 1
<1>1. /\ IsFiniteSet(S) /\ Cardinality(S) \in Nat /\ Cardinality(T) \in Nat
      /\ Cardinality(S) <= Cardinality(T)
  BY FS_Subset, FS_CardinalityType
<1>2. ASSUME NEW x \in T \ S
      PROVE  Cardinality(S) <= Cardinality(T) - 1
  <2>1. IsFiniteSet(T \ {x}) /\ Cardinality(T \ {x}) = Cardinality(T) - 1
    BY FS_RemoveElement
  <2>2. S \subseteq T \ {x}
    BY <1>2
  <2>. QED
    BY <2>1, <2>2, FS_Subset
<1>. QED
  BY <1>1, <1>2

-----------------------------------------------------------------------------
(* Replacing a session by one it evolves into: no count grows, and if it    *)
(* became established the pending sessions are one fewer.                   *)
LEMMA Replacement ==
    ASSUME SessionInv, NEW a \in DOMAIN sessions, NEW s \in Session,
           Evolves(sessions[a].state, s.state), s.origin = sessions[a].origin,
           sessions' = WithSession(a, s),
           UNCHANGED duplicate_peer_count
    PROVE  /\ DOMAIN sessions' = DOMAIN sessions
           /\ \A b \in DOMAIN sessions' : sessions'[b] \in Session
           /\ Cardinality(Pending') <= Cardinality(Pending)
           /\ Cardinality(Pending') \in Nat /\ Cardinality(Pending) \in Nat
           /\ BecameEstablished(sessions[a].state, s.state) =>
                 Cardinality(Pending') <= Cardinality(Pending) - 1
           /\ InboundLimit' /\ DuplicateCountExact' /\ DuplicateLimit'
<1>1. TypeOK /\ a \in Addr
  BY DEF SessionInv, TypeOK
<1>2. /\ DOMAIN sessions' = DOMAIN sessions
      /\ \A b \in DOMAIN sessions : sessions'[b] = IF b = a THEN s ELSE sessions[b]
  BY DEF WithSession
<1>3. \A b \in DOMAIN sessions' : sessions'[b] \in Session
  BY <1>1, <1>2 DEF TypeOK
<1>4. Pending' \subseteq Pending
  BY <1>2 DEF Pending, Evolves
<1>5. IsFiniteSet(Pending)
  BY <1>1, Finite DEF Pending
<1>6. ASSUME BecameEstablished(sessions[a].state, s.state)
      PROVE  a \in Pending \ Pending'
  <2>1. sessions[a].state \in PeerStates /\ s.state \in PeerStates
    BY <1>1 DEF TypeOK, Session
  <2>. QED
    BY <1>2, <1>6, <2>1, EstablishedWasPending DEF Pending
<1>7. InboundLimit'
  <2>. DEFINE P == {b \in Pending : sessions[b].origin = "remote"}
              Q == {b \in Pending' : sessions'[b].origin = "remote"}
  <2>1. Q \subseteq P
    BY <1>2, <1>4 DEF Pending
  <2>2. IsFiniteSet(P) /\ Cardinality(P) <= MaxUnestablished
    <3>1. P \subseteq DOMAIN sessions
      BY DEF Pending
    <3>2. Cardinality(P) <= MaxUnestablished
      BY DEF SessionInv, InboundLimit
    <3>. HIDE DEF P
    <3>. QED
      BY <1>1, <3>1, <3>2, Finite
  <2>3. Cardinality(Q) <= MaxUnestablished
    <3>. HIDE DEF P, Q
    <3>. QED
      BY <2>1, <2>2, Smaller, SessionAssumption
  <2>. QED
    BY <2>3 DEF InboundLimit
<1>8. DuplicateCountExact' /\ DuplicateLimit'
  BY <1>2 DEF SessionInv, DuplicateCountExact, DuplicateLimit, SessionsOf
<1>. QED
  BY <1>2, <1>3, <1>4, <1>5, <1>6, <1>7, <1>8, Smaller

(* Inserting a session under the duplicate limit. *)
LEMMA Insertion ==
    ASSUME SessionInv, NEW a \in Addr, a \notin DOMAIN sessions, NEW s \in Session,
           CanAcceptDuplicate(a),
           sessions' = WithSession(a, s),
           IncrementDuplicateCount(a)
    PROVE  /\ DOMAIN sessions' = DOMAIN sessions \cup {a}
           /\ \A b \in DOMAIN sessions' : sessions'[b] \in Session
           /\ duplicate_peer_count' \in [Ip -> Nat]
           /\ Pending' = IF IsPending(s.state) THEN Pending \cup {a} ELSE Pending
           /\ {b \in Pending' : sessions'[b].origin = "remote"} \subseteq
                 {b \in Pending : sessions[b].origin = "remote"} \cup {b \in {a} : s.origin = "remote"}
           /\ DuplicateCountExact' /\ DuplicateLimit'
<1>1. TypeOK /\ IpOf \in [Addr -> Ip] /\ DOMAIN sessions \subseteq Addr
  BY SessionAssumption DEF SessionInv, TypeOK
<1>2. /\ DOMAIN sessions' = DOMAIN sessions \cup {a}
      /\ sessions'[a] = s
      /\ \A b \in DOMAIN sessions : sessions'[b] = sessions[b]
  BY DEF WithSession
<1>3. \A b \in DOMAIN sessions' : sessions'[b] \in Session
  BY <1>1, <1>2 DEF TypeOK
<1>4. /\ duplicate_peer_count \in [Ip -> Nat]
      /\ duplicate_peer_count' = [duplicate_peer_count EXCEPT ![IpOf[a]] = @ + 1]
  BY <1>1 DEF TypeOK, IncrementDuplicateCount
<1>5. ASSUME NEW i \in Ip
      PROVE  /\ duplicate_peer_count'[i] = Cardinality(SessionsOf(i)')
             /\ MaxDuplicatePeers # 0 => Cardinality(SessionsOf(i)') <= MaxDuplicatePeers
  <2>1. /\ duplicate_peer_count[i] = Cardinality(SessionsOf(i))
        /\ MaxDuplicatePeers # 0 => Cardinality(SessionsOf(i)) <= MaxDuplicatePeers
    BY DEF SessionInv, DuplicateCountExact, DuplicateLimit
  <2>2. CASE i # IpOf[a]
    <3>1. SessionsOf(i)' = SessionsOf(i)
      BY <1>2, <2>2 DEF SessionsOf
    <3>. QED
      BY <1>4, <2>1, <2>2, <3>1
  <2>3. CASE i = IpOf[a]
    <3>1. SessionsOf(i)' = SessionsOf(i) \cup {a} /\ a \notin SessionsOf(i)
      BY <1>2, <2>3 DEF SessionsOf
    <3>2. IsFiniteSet(SessionsOf(i)) /\ Cardinality(SessionsOf(i)) \in Nat
      BY <1>1, Finite DEF SessionsOf
    <3>3. Cardinality(SessionsOf(i)') = Cardinality(SessionsOf(i)) + 1
      BY <3>1, <3>2, FS_AddElement
    <3>4. MaxDuplicatePeers # 0 => duplicate_peer_count[i] < MaxDuplicatePeers
      BY <2>3 DEF CanAcceptDuplicate
    <3>. QED
      BY <1>4, <2>1, <2>3, <3>2, <3>3, <3>4, SessionAssumption
  <2>. QED
    BY <2>2, <2>3
<1>6. duplicate_peer_count' \in [Ip -> Nat]
  <2>1. IpOf[a] \in Ip /\ duplicate_peer_count[IpOf[a]] + 1 \in Nat
    BY <1>1, <1>4
  <2>. QED
    BY <1>4, <2>1
<1>7. Pending' = IF IsPending(s.state) THEN Pending \cup {a} ELSE Pending
  BY <1>2 DEF Pending
<1>8. {b \in Pending' : sessions'[b].origin = "remote"} \subseteq
         {b \in Pending : sessions[b].origin = "remote"} \cup {b \in {a} : s.origin = "remote"}
  <2>. SUFFICES ASSUME NEW b \in Pending', sessions'[b].origin = "remote"
                PROVE  b \in {c \in Pending : sessions[c].origin = "remote"} \cup {c \in {a} : s.origin = "remote"}
    OBVIOUS
  <2>1. CASE b = a
    BY <1>2, <2>1
  <2>2. CASE b # a
    <3>1. b \in DOMAIN sessions /\ sessions'[b] = sessions[b] /\ b \in Pending
      BY <1>2, <2>2 DEF Pending
    <3>. QED
      BY <3>1
  <2>. QED
    BY <2>1, <2>2
<1>. QED
  BY <1>2, <1>3, <1>5, <1>6, <1>7, <1>8 DEF DuplicateCountExact, DuplicateLimit

(* Removing a session. *)
LEMMA Removal ==
    ASSUME SessionInv, NEW a \in DOMAIN sessions,
           sessions' = WithoutSession(a),
           DecrementDuplicateCount(a)
    PROVE  /\ DOMAIN sessions' = DOMAIN sessions \ {a}
           /\ \A b \in DOMAIN sessions' : sessions'[b] \in Session
           /\ duplicate_peer_count' \in [Ip -> Nat]
           /\ InboundLimit' /\ DuplicateCountExact' /\ DuplicateLimit'
<1>1. TypeOK /\ IpOf \in [Addr -> Ip] /\ DOMAIN sessions \subseteq Addr
  BY SessionAssumption DEF SessionInv, TypeOK
<1>2. /\ DOMAIN sessions' = DOMAIN sessions \ {a}
      /\ \A b \in DOMAIN sessions' : sessions'[b] = sessions[b]
  BY DEF WithoutSession
<1>3. \A b \in DOMAIN sessions' : sessions'[b] \in Session
  BY <1>1, <1>2 DEF TypeOK
<1>4. /\ duplicate_peer_count \in [Ip -> Nat]
      /\ duplicate_peer_count' =
            [duplicate_peer_count EXCEPT ![IpOf[a]] = IF @ = 0 THEN 0 ELSE @ - 1]
  BY <1>1 DEF TypeOK, DecrementDuplicateCount
<1>5. ASSUME NEW i \in Ip
      PROVE  /\ duplicate_peer_count'[i] = Cardinality(SessionsOf(i)')
             /\ duplicate_peer_count'[i] \in Nat
             /\ MaxDuplicatePeers # 0 => Cardinality(SessionsOf(i)') <= MaxDuplicatePeers
  <2>1. /\ duplicate_peer_count[i] = Cardinality(SessionsOf(i))
        /\ MaxDuplicatePeers # 0 => Cardinality(SessionsOf(i)) <= MaxDuplicatePeers
    BY DEF SessionInv, DuplicateCountExact, DuplicateLimit
  <2>2. CASE i # IpOf[a]
    <3>1. SessionsOf(i)' = SessionsOf(i)
      BY <1>2, <2>2 DEF SessionsOf
    <3>. QED
      BY <1>4, <2>1, <2>2, <3>1
  <2>3. CASE i = IpOf[a]
    <3>1. SessionsOf(i)' = SessionsOf(i) \ {a} /\ a \in SessionsOf(i)
      BY <1>2, <2>3 DEF SessionsOf
    <3>2. IsFiniteSet(SessionsOf(i)) /\ Cardinality(SessionsOf(i)) \in Nat
      BY <1>1, Finite DEF SessionsOf
    <3>3. /\ Cardinality(SessionsOf(i)') = Cardinality(SessionsOf(i)) - 1
          /\ Cardinality(SessionsOf(i)') \in Nat
      BY <3>1, <3>2, FS_RemoveElement, FS_CardinalityType
    <3>. QED
      BY <1>4, <2>1, <2>3, <3>2, <3>3, SessionAssumption
  <2>. QED
    BY <2>2, <2>3
<1>6. duplicate_peer_count' \in [Ip -> Nat]
  BY <1>4, <1>5
<1>7. InboundLimit'
  <2>. DEFINE P == {b \in Pending : sessions[b].origin = "remote"}
              Q == {b \in Pending' : sessions'[b].origin = "remote"}
  <2>1. Q \subseteq P
    BY <1>2 DEF Pending
  <2>2. P \subseteq DOMAIN sessions /\ Cardinality(P) <= MaxUnestablished
    BY DEF SessionInv, InboundLimit, Pending
  <2>3. Cardinality(Q) <= MaxUnestablished
    <3>. HIDE DEF P, Q
    <3>. QED
      BY <1>1, <2>1, <2>2, Finite, Smaller, SessionAssumption
  <2>. QED
    BY <2>3 DEF InboundLimit
<1>. QED
  BY <1>2, <1>3, <1>5, <1>6, <1>7 DEF DuplicateCountExact, DuplicateLimit

-----------------------------------------------------------------------------
(* A new SessionManager has no session and satisfies the invariant. *)
LEMMA SessionInit ==
    ASSUME Init
    PROVE  SessionInv
<1>1. DOMAIN sessions = {}
  BY DEF Init
<1>2. TypeOK /\ CurrentDescends /\ CounterCoversPending
  BY <1>1 DEF Init, TypeOK, CurrentDescends, CounterCoversPending, Phases
<1>3. \A i \in Ip : SessionsOf(i) = {}
  BY <1>1 DEF SessionsOf
<1>4. {a \in Pending : sessions[a].origin = "remote"} = {}
  BY <1>1 DEF Pending
<1>5. Cardinality({}) = 0
  BY FS_EmptySet
<1>6. DuplicateCountExact /\ DuplicateLimit
  <2>1. \A i \in Ip : Cardinality(SessionsOf(i)) = 0
    BY <1>3, <1>5, Zenon
  <2>. QED
    BY <2>1, SessionAssumption DEF Init, DuplicateCountExact, DuplicateLimit
<1>7. InboundLimit
  <2>. DEFINE P == {a \in Pending : sessions[a].origin = "remote"}
  <2>1. Cardinality(P) = 0
    BY <1>4, <1>5, Zenon
  <2>2. Cardinality(P) <= MaxUnestablished
    <3>. HIDE DEF P
    <3>. QED
      BY <2>1, SessionAssumption
  <2>. QED
    BY <2>2 DEF InboundLimit
<1>. QED
  BY <1>2, <1>6, <1>7 DEF SessionInv

(* Steps that leave the table alone. *)
LEMMA TableUntouched ==
    ASSUME SessionInv, UNCHANGED <<sessions, duplicate_peer_count>>
    PROVE  /\ InboundLimit' /\ DuplicateCountExact' /\ DuplicateLimit'
           /\ Pending' = Pending
BY DEF SessionInv, InboundLimit, DuplicateCountExact, DuplicateLimit, Pending, SessionsOf

(* A command moves the session in process_packet along its life cycle. *)
LEMMA CommandStep ==
    ASSUME SessionInv, pc = "commands", NEW t,
           Evolves(current.session.state, t),
           current' = [current EXCEPT !.session =
                          [current.session EXCEPT !.state = t, !.quiet = 0]],
           UNCHANGED <<pc, sessions, duplicate_peer_count, unestablished_sessions,
                       to_drop, announced>>
    PROVE  SessionInv'
<1>1. TypeOK /\ current \in Datagram
  BY DEF SessionInv, TypeOK
<1>2. /\ t \in PeerStates /\ current.session.state \in PeerStates
      /\ current'.addr = current.addr
      /\ current'.session.state = t
      /\ current'.session.origin = current.session.origin
  BY <1>1 DEF Evolves, Datagram, Session
<1>3. current' \in Datagram
  <2>. DEFINE s == [current.session EXCEPT !.state = t, !.quiet = 0]
  <2>1. s \in Session
    <3>1. current.session \in Session
      BY <1>1 DEF Datagram
    <3>2. 0 \in 0 .. IdleTimeout
      BY SessionAssumption
    <3>. QED
      BY <1>2, <3>1, <3>2 DEF Session
  <2>2. current' = [current EXCEPT !.session = s]
    OBVIOUS
  <2>. HIDE DEF s
  <2>. QED
    BY <1>1, <2>1, <2>2 DEF Datagram
<1>4. TypeOK'
  BY <1>1, <1>3 DEF TypeOK
<1>5. CurrentDescends'
  <2>1. CASE current.addr \in DOMAIN sessions
    <3>1. /\ Evolves(sessions[current.addr].state, current.session.state)
          /\ current.session.origin = sessions[current.addr].origin
          /\ sessions[current.addr].state \in PeerStates
      BY <1>1, <2>1 DEF SessionInv, CurrentDescends, TypeOK, Session
    <3>2. Evolves(sessions[current.addr].state, t)
      BY <1>2, <3>1, EvolvesTransitive
    <3>. QED
      BY <1>2, <2>1, <3>1, <3>2 DEF CurrentDescends
  <2>2. CASE current.addr \notin DOMAIN sessions
    BY <1>2, <2>2 DEF SessionInv, CurrentDescends
  <2>. QED
    BY <2>1, <2>2
<1>6. CounterCoversPending'
  BY TableUntouched DEF SessionInv, CounterCoversPending
<1>. QED
  BY <1>4, <1>5, <1>6, TableUntouched DEF SessionInv

(* The end of process_packet for a session of the table. *)
LEMMA FinishKnownStep ==
    ASSUME SessionInv, NEW ok \in BOOLEAN, FinishKnown(ok)
    PROVE  SessionInv'
<1>. DEFINE a == current.addr
            s == AfterRecord(ok)
            before == sessions[a].state
<1>1. /\ TypeOK /\ pc = "commands" /\ a \in DOMAIN sessions
      /\ current \in Datagram /\ before \in PeerStates
  BY DEF SessionInv, TypeOK, FinishKnown, Session
<1>2. /\ s \in Session /\ s.origin = sessions[a].origin /\ Evolves(before, s.state)
  <2>1. /\ current.session \in Session
        /\ current.session.origin = sessions[a].origin
        /\ Evolves(before, current.session.state)
    BY <1>1 DEF SessionInv, CurrentDescends, Datagram
  <2>2. CASE ok
    <3>1. s = [current.session EXCEPT !.state = RecordRecv(current.session.state)]
      BY <2>2 DEF AfterRecord
    <3>2. /\ current.session.state \in PeerStates
          /\ Evolves(current.session.state, RecordRecv(current.session.state))
          /\ RecordRecv(current.session.state) \in PeerStates
      BY <2>1, TransitionsEvolve DEF Session, Evolves
    <3>3. /\ s \in Session /\ s.origin = current.session.origin
          /\ s.state = RecordRecv(current.session.state)
      BY <2>1, <3>1, <3>2 DEF Session
    <3>. QED
      BY <1>1, <2>1, <3>2, <3>3, EvolvesTransitive
  <2>3. CASE ~ok
    BY <2>1, <2>3 DEF AfterRecord
  <2>. QED
    BY <2>2, <2>3
<1>3. /\ sessions' = WithSession(a, s)
      /\ unestablished_sessions' = IF BecameEstablished(before, s.state)
                                   THEN unestablished_sessions - 1
                                   ELSE unestablished_sessions
      /\ pc' = AfterDatagram /\ current' = NoDatagram
      /\ UNCHANGED <<duplicate_peer_count, to_drop>>
      /\ announced' \subseteq announced \cup {a}
  BY DEF FinishKnown, AnnounceConnect
<1>. HIDE DEF s
<1>4. /\ DOMAIN sessions' = DOMAIN sessions
      /\ \A b \in DOMAIN sessions' : sessions'[b] \in Session
      /\ Cardinality(Pending') <= Cardinality(Pending)
      /\ Cardinality(Pending') \in Nat /\ Cardinality(Pending) \in Nat
      /\ BecameEstablished(before, s.state) =>
            Cardinality(Pending') <= Cardinality(Pending) - 1
      /\ InboundLimit' /\ DuplicateCountExact' /\ DuplicateLimit'
  BY <1>1, <1>2, <1>3, Replacement
<1>5. /\ unestablished_sessions >= Cardinality(Pending)
      /\ unestablished_sessions \in Int
  BY <1>1 DEF SessionInv, CounterCoversPending, TypeOK
<1>6. unestablished_sessions' >= Cardinality(Pending') /\ unestablished_sessions' \in Int
  BY <1>3, <1>4, <1>5
<1>7. pc' \in {"recv", "user"}
  BY <1>3 DEF AfterDatagram
<1>8. TypeOK'
  BY <1>1, <1>3, <1>4, <1>6, <1>7 DEF TypeOK, Phases
<1>9. CurrentDescends' /\ CounterCoversPending'
  BY <1>6, <1>7 DEF CurrentDescends, CounterCoversPending
<1>. QED
  BY <1>4, <1>8, <1>9 DEF SessionInv

(* The end of process_packet for a session that enters the table: the       *)
(* counter was below the limit, so one more pending session is within it.   *)
LEMMA FinishAcceptedStep ==
    ASSUME SessionInv, NEW ok \in BOOLEAN, FinishAccepted(ok)
    PROVE  SessionInv'
<1>. DEFINE a == current.addr
            s == AfterRecord(ok)
<1>1. /\ TypeOK /\ pc = "commands" /\ a \notin DOMAIN sessions
      /\ current \in Datagram /\ a \in Addr
  BY DEF SessionInv, TypeOK, FinishAccepted, Datagram
<1>2. s \in Session
  <2>1. current.session \in Session
    BY <1>1 DEF Datagram
  <2>2. RecordRecv(current.session.state) \in PeerStates
    BY <2>1, TransitionsEvolve DEF Session, Evolves
  <2>. QED
    BY <2>1, <2>2 DEF AfterRecord, Session
<1>3. /\ sessions' = WithSession(a, s)
      /\ IncrementDuplicateCount(a) /\ CanAcceptDuplicate(a)
      /\ unestablished_sessions < MaxUnestablished
      /\ unestablished_sessions' = unestablished_sessions + 1
      /\ pc' = AfterDatagram /\ current' = NoDatagram
      /\ UNCHANGED to_drop
      /\ announced' \subseteq announced \cup {a}
  BY DEF FinishAccepted, AnnounceConnect, Accepts, CountInserted
<1>. HIDE DEF s
<1>4. /\ DOMAIN sessions' = DOMAIN sessions \cup {a}
      /\ \A b \in DOMAIN sessions' : sessions'[b] \in Session
      /\ duplicate_peer_count' \in [Ip -> Nat]
      /\ Pending' = IF IsPending(s.state) THEN Pending \cup {a} ELSE Pending
      /\ DuplicateCountExact' /\ DuplicateLimit'
  BY <1>1, <1>2, <1>3, Insertion
<1>5. /\ unestablished_sessions >= Cardinality(Pending)
      /\ unestablished_sessions \in Int
      /\ IsFiniteSet(Pending) /\ Cardinality(Pending) \in Nat
  BY <1>1, Finite DEF SessionInv, CounterCoversPending, TypeOK, Pending
<1>6. /\ IsFiniteSet(Pending') /\ Cardinality(Pending') \in Nat
      /\ Cardinality(Pending') <= Cardinality(Pending) + 1
  <2>1. a \notin Pending
    BY <1>1 DEF Pending
  <2>2. IsFiniteSet(Pending \cup {a}) /\ Cardinality(Pending \cup {a}) = Cardinality(Pending) + 1
    BY <1>5, <2>1, FS_AddElement
  <2>. QED
    BY <1>4, <1>5, <2>2
<1>7. unestablished_sessions' >= Cardinality(Pending') /\ unestablished_sessions' \in Int
  BY <1>3, <1>5, <1>6
<1>8. InboundLimit'
  <2>. DEFINE Q == {b \in Pending' : sessions'[b].origin = "remote"}
  <2>1. Q \subseteq Pending'
    OBVIOUS
  <2>2. Cardinality(Q) <= MaxUnestablished
    <3>1. Cardinality(Q) \in Nat /\ Cardinality(Q) <= Cardinality(Pending')
      BY <1>6, <2>1, Smaller
    <3>. HIDE DEF Q
    <3>. QED
      BY <1>3, <1>5, <1>6, <3>1, SessionAssumption
  <2>. QED
    BY <2>2 DEF InboundLimit
<1>9. pc' \in {"recv", "user"}
  BY <1>3 DEF AfterDatagram
<1>10. TypeOK'
  BY <1>1, <1>3, <1>4, <1>7, <1>9 DEF TypeOK, Phases
<1>11. CurrentDescends' /\ CounterCoversPending'
  BY <1>7, <1>9 DEF CurrentDescends, CounterCoversPending
<1>. QED
  BY <1>4, <1>8, <1>10, <1>11 DEF SessionInv

(* Steps of the passes over the table and of the receive loop that change   *)
(* neither a session nor a count.                                           *)
LEMMA QuietStep ==
    ASSUME SessionInv, UNCHANGED <<sessions, duplicate_peer_count>>,
           BeginPoll \/ EndReceive \/ CollectDrops \/ EndPoll \/ UNCHANGED vars
             \/ (\E ok \in BOOLEAN : FinishRefused(ok))
             \/ (\E a \in Addr : ReceiveDatagram(a))
    PROVE  SessionInv'
<1>1. TypeOK /\ CurrentDescends /\ CounterCoversPending
  BY DEF SessionInv
<1>2. /\ InboundLimit' /\ DuplicateCountExact' /\ DuplicateLimit'
      /\ Pending' = Pending /\ sessions' = sessions
  BY TableUntouched
<1>. SUFFICES TypeOK' /\ CurrentDescends' /\ CounterCoversPending'
  BY <1>2 DEF SessionInv
<1>3. CASE BeginPoll
  <2>. DEFINE U == {a \in DOMAIN sessions : ~IsEstablished(sessions[a].state)}
  <2>1. Pending \subseteq U
    BY DEF Pending, IsPending
  <2>2. IsFiniteSet(U) /\ Cardinality(U) \in Nat
    BY <1>1, Finite
  <2>3. Cardinality(Pending) <= Cardinality(U)
    BY <2>1, <2>2, Smaller
  <2>4. unestablished_sessions' = Cardinality(U)
    BY <1>3 DEF BeginPoll, UnestablishedSessionCount
  <2>5. CounterCoversPending' /\ unestablished_sessions' \in Int
    <3>1. Cardinality(Pending) \in Nat
      BY <1>1, Finite DEF Pending
    <3>. HIDE DEF U
    <3>. QED
      BY <1>2, <2>2, <2>3, <2>4, <3>1 DEF CounterCoversPending
  <2>. QED
    BY <1>1, <1>3, <2>5 DEF BeginPoll, TypeOK, CurrentDescends, Phases
<1>4. CASE EndReceive
  BY <1>1, <1>2, <1>4 DEF EndReceive, TypeOK, CurrentDescends, CounterCoversPending, Phases
<1>5. CASE CollectDrops
  BY <1>1, <1>2, <1>5 DEF CollectDrops, TypeOK, CurrentDescends, CounterCoversPending, Phases
<1>6. CASE EndPoll
  BY <1>1, <1>2, <1>6 DEF EndPoll, TypeOK, CurrentDescends, CounterCoversPending, Phases
<1>7. CASE UNCHANGED vars
  BY <1>1, <1>2, <1>7 DEF vars, TypeOK, CurrentDescends, CounterCoversPending
<1>8. ASSUME NEW ok \in BOOLEAN, FinishRefused(ok)
      PROVE  TypeOK' /\ CurrentDescends' /\ CounterCoversPending'
  <2>1. /\ pc = "commands" /\ pc' \in {"recv", "user"} /\ current' = NoDatagram
        /\ UNCHANGED <<unestablished_sessions, to_drop>>
        /\ announced' \subseteq announced \cup {current.addr}
    BY <1>8 DEF FinishRefused, AfterDatagram, AnnounceConnect
  <2>2. current.addr \in Addr
    BY <1>1, <2>1 DEF TypeOK, Datagram
  <2>. QED
    BY <1>1, <1>2, <2>1, <2>2 DEF TypeOK, CurrentDescends, CounterCoversPending, Phases
<1>9. ASSUME NEW a \in Addr, ReceiveDatagram(a)
      PROVE  TypeOK' /\ CurrentDescends' /\ CounterCoversPending'
  <2>. DEFINE s == IF a \in DOMAIN sessions THEN sessions[a] ELSE NewSession("remote")
  <2>1. /\ pc = "recv" /\ pc' = "commands"
        /\ current' = [addr |-> a, session |-> s]
        /\ UNCHANGED <<unestablished_sessions, to_drop, announced>>
    BY <1>9 DEF ReceiveDatagram
  <2>2. NewSession("remote") \in Session /\ NewSession("remote").origin = "remote"
    BY SessionAssumption DEF NewSession, Session, PeerStates
  <2>3. s \in Session
    BY <1>1, <2>2 DEF TypeOK
  <2>4. TypeOK'
    BY <1>1, <1>2, <2>1, <2>3 DEF TypeOK, Phases, Datagram
  <2>5. CurrentDescends'
    <3>1. CASE a \in DOMAIN sessions
      <4>1. sessions[a].state \in PeerStates
        BY <1>1, <3>1 DEF TypeOK, Session
      <4>2. Evolves(sessions[a].state, sessions[a].state)
        BY <4>1, TransitionsEvolve
      <4>. QED
        BY <1>2, <2>1, <3>1, <4>2 DEF CurrentDescends
    <3>2. CASE a \notin DOMAIN sessions
      BY <1>2, <2>1, <2>2, <3>2 DEF CurrentDescends
    <3>. QED
      BY <3>1, <3>2
  <2>6. CounterCoversPending'
    BY <1>1, <1>2, <2>1 DEF CounterCoversPending
  <2>. QED
    BY <2>4, <2>5, <2>6
<1>. QED
  BY <1>3, <1>4, <1>5, <1>6, <1>7, <1>8, <1>9

(* A user event: the session it creates is not the remote's. *)
LEMMA UserEventStep ==
    ASSUME SessionInv, NEW a \in Addr, UserEventKnown(a) \/ UserEventNew(a)
    PROVE  SessionInv'
<1>1. TypeOK /\ pc = "user" /\ pc' = "user" /\ UNCHANGED <<current, to_drop>>
  BY DEF SessionInv, UserEventKnown, UserEventNew
<1>2. CASE UserEventKnown(a)
  <2>. DEFINE s == [sessions[a] EXCEPT !.state = RecordSend(sessions[a].state)]
  <2>1. /\ a \in DOMAIN sessions /\ sessions' = WithSession(a, s)
        /\ UNCHANGED duplicate_peer_count
        /\ unestablished_sessions' \in {unestablished_sessions, unestablished_sessions - 1}
        /\ announced' \subseteq announced \cup {a}
    BY <1>2 DEF UserEventKnown, AnnounceConnect
  <2>2. sessions[a] \in Session /\ sessions[a].state \in PeerStates
    BY <1>1, <2>1 DEF TypeOK, Session
  <2>3. /\ Evolves(sessions[a].state, RecordSend(sessions[a].state))
        /\ RecordSend(sessions[a].state) \in PeerStates
    BY <2>2, TransitionsEvolve DEF Evolves
  <2>4. s \in Session /\ s.origin = sessions[a].origin /\ Evolves(sessions[a].state, s.state)
    BY <2>2, <2>3 DEF Session
  <2>. HIDE DEF s
  <2>5. /\ DOMAIN sessions' = DOMAIN sessions
        /\ \A b \in DOMAIN sessions' : sessions'[b] \in Session
        /\ InboundLimit' /\ DuplicateCountExact' /\ DuplicateLimit'
    BY <2>1, <2>4, Replacement
  <2>6. unestablished_sessions' \in Int
    BY <1>1, <2>1 DEF TypeOK
  <2>. QED
    BY <1>1, <2>1, <2>5, <2>6 DEF SessionInv, TypeOK, CurrentDescends, CounterCoversPending
<1>3. CASE UserEventNew(a)
  <2>. DEFINE s == [NewSession("user") EXCEPT !.state = RecordSend("Idle")]
  <2>1. /\ a \notin DOMAIN sessions /\ CanAcceptDuplicate(a)
        /\ IncrementDuplicateCount(a)
        /\ UNCHANGED unestablished_sessions
        /\ announced' \subseteq announced \cup {a}
    BY <1>3 DEF UserEventNew, AnnounceConnect
  <2>2. sessions' = WithSession(a, s)
    BY <1>3 DEF UserEventNew, NewSession
  <2>3. s \in Session /\ s.origin # "remote"
    BY SessionAssumption DEF NewSession, Session, PeerStates, RecordSend
  <2>. HIDE DEF s
  <2>4. /\ DOMAIN sessions' = DOMAIN sessions \cup {a}
        /\ \A b \in DOMAIN sessions' : sessions'[b] \in Session
        /\ duplicate_peer_count' \in [Ip -> Nat]
        /\ {b \in Pending' : sessions'[b].origin = "remote"} \subseteq
              {b \in Pending : sessions[b].origin = "remote"} \cup {b \in {a} : s.origin = "remote"}
        /\ DuplicateCountExact' /\ DuplicateLimit'
    BY <2>1, <2>2, <2>3, Insertion
  <2>5. InboundLimit'
    <3>. DEFINE P == {b \in Pending : sessions[b].origin = "remote"}
                Q == {b \in Pending' : sessions'[b].origin = "remote"}
    <3>1. Q \subseteq P
      BY <2>3, <2>4
    <3>2. P \subseteq DOMAIN sessions /\ Cardinality(P) <= MaxUnestablished
      BY DEF SessionInv, InboundLimit, Pending
    <3>3. Cardinality(Q) <= MaxUnestablished
      <4>. HIDE DEF P, Q
      <4>. QED
        BY <1>1, <3>1, <3>2, Finite, Smaller, SessionAssumption
    <3>. QED
      BY <3>3 DEF InboundLimit
  <2>. QED
    BY <1>1, <2>1, <2>4, <2>5 DEF SessionInv, TypeOK, CurrentDescends, CounterCoversPending
<1>. QED
  BY <1>2, <1>3

(* One round of the loop over to_drop: table and count shrink together. *)
LEMMA RemoveStep ==
    ASSUME SessionInv, NEW a \in to_drop, RemoveSession(a)
    PROVE  SessionInv'
<1>1. /\ TypeOK /\ pc = "remove" /\ pc' = "remove" /\ a \in DOMAIN sessions
      /\ to_drop' = to_drop \ {a}
      /\ UNCHANGED <<unestablished_sessions, current, announced>>
      /\ sessions' = WithoutSession(a) /\ DecrementDuplicateCount(a)
  BY DEF SessionInv, TypeOK, RemoveSession
<1>2. /\ DOMAIN sessions' = DOMAIN sessions \ {a}
      /\ \A b \in DOMAIN sessions' : sessions'[b] \in Session
      /\ duplicate_peer_count' \in [Ip -> Nat]
      /\ InboundLimit' /\ DuplicateCountExact' /\ DuplicateLimit'
  BY <1>1, Removal
<1>. QED
  BY <1>1, <1>2 DEF SessionInv, TypeOK, CurrentDescends, CounterCoversPending

(* Host::disconnect and the clock, between polls. *)
LEMMA BetweenPolls ==
    ASSUME SessionInv, Tick \/ (\E a \in Addr : Disconnect(a))
    PROVE  SessionInv'
<1>1. /\ TypeOK /\ pc = "idle"
      /\ UNCHANGED <<pc, duplicate_peer_count, unestablished_sessions, current,
                     to_drop, announced>>
  BY DEF SessionInv, Tick, Disconnect
<1>2. /\ DOMAIN sessions' = DOMAIN sessions
      /\ \A b \in DOMAIN sessions : /\ sessions'[b] \in Session
                                    /\ sessions'[b].origin = sessions[b].origin
                                    /\ IsPending(sessions'[b].state) => IsPending(sessions[b].state)
  <2>1. CASE Tick
    <3>1. ASSUME NEW b \in DOMAIN sessions
          PROVE  /\ sessions'[b] \in Session
                 /\ sessions'[b].origin = sessions[b].origin
                 /\ sessions'[b].state = sessions[b].state
      <4>1. sessions[b] \in Session
        BY <1>1 DEF TypeOK
      <4>2. sessions'[b] = [sessions[b] EXCEPT !.quiet =
               IF sessions[b].quiet < IdleTimeout THEN sessions[b].quiet + 1 ELSE sessions[b].quiet]
        BY <2>1 DEF Tick
      <4>3. (IF sessions[b].quiet < IdleTimeout THEN sessions[b].quiet + 1 ELSE sessions[b].quiet)
               \in 0 .. IdleTimeout
        BY <4>1, SessionAssumption DEF Session
      <4>. QED
        BY <4>1, <4>2, <4>3 DEF Session
    <3>2. DOMAIN sessions' = DOMAIN sessions
      BY <2>1 DEF Tick
    <3>. QED
      BY <3>1, <3>2
  <2>2. ASSUME NEW a \in Addr, Disconnect(a)
        PROVE  <1>2!1 /\ <1>2!2
    <3>1. /\ a \in DOMAIN sessions
          /\ DOMAIN sessions' = DOMAIN sessions
          /\ \A b \in DOMAIN sessions \ {a} : sessions'[b] = sessions[b]
          /\ sessions'[a] = [sessions[a] EXCEPT !.state = DisconnectedLocally(sessions[a].state)]
      BY <2>2 DEF Disconnect
    <3>2. sessions[a] \in Session /\ sessions[a].state \in PeerStates
      BY <1>1, <3>1 DEF TypeOK, Session
    <3>3. Evolves(sessions[a].state, DisconnectedLocally(sessions[a].state))
      BY <3>2, TransitionsEvolve
    <3>4. /\ sessions'[a] \in Session
          /\ sessions'[a].origin = sessions[a].origin
          /\ IsPending(sessions'[a].state) => IsPending(sessions[a].state)
      BY <3>1, <3>2, <3>3 DEF Session, Evolves
    <3>. QED
      BY <1>1, <3>1, <3>4 DEF TypeOK
  <2>. QED
    BY <2>1, <2>2
<1>3. InboundLimit'
  <2>. DEFINE P == {b \in Pending : sessions[b].origin = "remote"}
              Q == {b \in Pending' : sessions'[b].origin = "remote"}
  <2>1. Q \subseteq P
    BY <1>2 DEF Pending
  <2>2. P \subseteq DOMAIN sessions /\ Cardinality(P) <= MaxUnestablished
    BY DEF SessionInv, InboundLimit, Pending
  <2>3. Cardinality(Q) <= MaxUnestablished
    <3>. HIDE DEF P, Q
    <3>. QED
      BY <1>1, <2>1, <2>2, Finite, Smaller, SessionAssumption
  <2>. QED
    BY <2>3 DEF InboundLimit
<1>4. DuplicateCountExact' /\ DuplicateLimit'
  BY <1>1, <1>2 DEF SessionInv, DuplicateCountExact, DuplicateLimit, SessionsOf
<1>. QED
  BY <1>1, <1>2, <1>3, <1>4 DEF SessionInv, TypeOK, CurrentDescends, CounterCoversPending

(* Every step of manual_poll, and those between polls, preserves it. *)
LEMMA SessionStep ==
    ASSUME SessionInv, [Next]_vars
    PROVE  SessionInv'
<1>1. CASE ReceiveConnect \/ ReceiveVerifyConnect \/ ReceiveDisconnect \/ ReceiveOther
  <2>1. pc = "commands" /\ current.session.state \in PeerStates
    BY <1>1 DEF ReceiveConnect, ReceiveVerifyConnect, ReceiveDisconnect, ReceiveOther,
                ProcessCommand, SessionInv, TypeOK, Datagram, Session
  <2>2. PICK t : /\ Evolves(current.session.state, t)
                 /\ current' = [current EXCEPT !.session =
                                   [current.session EXCEPT !.state = t, !.quiet = 0]]
                 /\ UNCHANGED <<pc, sessions, duplicate_peer_count, unestablished_sessions,
                                to_drop, announced>>
    BY <1>1, <2>1, TransitionsEvolve
    DEF ReceiveConnect, ReceiveVerifyConnect, ReceiveDisconnect, ReceiveOther, ProcessCommand
  <2>. QED
    BY <2>1, <2>2, CommandStep
<1>2. CASE Finish
  <2>1. PICK ok \in BOOLEAN : FinishKnown(ok) \/ FinishAccepted(ok) \/ FinishRefused(ok)
    BY <1>2 DEF Finish
  <2>2. FinishRefused(ok) => UNCHANGED <<sessions, duplicate_peer_count>>
    BY DEF FinishRefused
  <2>. QED
    BY <2>1, <2>2, FinishKnownStep, FinishAcceptedStep, QuietStep
<1>3. CASE BeginPoll \/ EndReceive \/ CollectDrops \/ EndPoll \/ UNCHANGED vars
  BY <1>3, QuietStep DEF BeginPoll, EndReceive, CollectDrops, EndPoll, vars
<1>4. ASSUME NEW a \in Addr, ReceiveDatagram(a)
      PROVE  SessionInv'
  BY <1>4, QuietStep DEF ReceiveDatagram
<1>5. ASSUME NEW a \in Addr, UserEventKnown(a) \/ UserEventNew(a)
      PROVE  SessionInv'
  BY <1>5, UserEventStep
<1>6. ASSUME NEW a \in to_drop, RemoveSession(a)
      PROVE  SessionInv'
  BY <1>6, RemoveStep
<1>7. CASE Tick \/ (\E a \in Addr : Disconnect(a))
  BY <1>7, BetweenPolls
<1>. QED
  BY <1>1, <1>2, <1>3, <1>4, <1>5, <1>6, <1>7 DEF Next

-----------------------------------------------------------------------------
(* The inductive invariant holds of every run of the manager. *)
LEMMA SessionInvariant == Spec => []SessionInv
<1>1. Init => SessionInv
  BY SessionInit
<1>2. SessionInv /\ [Next]_vars => SessionInv'
  BY SessionStep
<1>. QED
  BY <1>1, <1>2, PTL DEF Spec

(* Type correctness, for every set of remotes and every configuration. *)
THEOREM SessionTypeCorrect == Spec => []TypeOK
<1>1. SessionInv => TypeOK
  BY DEF SessionInv
<1>. QED
  BY <1>1, SessionInvariant, PTL

(* The local counter of manual_poll covers the sessions that can still be   *)
(* established, so unestablished_sessions -= 1 never underflows.            *)
THEOREM CounterNeverUnderflows == Spec => []CounterCoversPending
<1>1. SessionInv => CounterCoversPending
  BY DEF SessionInv
<1>. QED
  BY <1>1, SessionInvariant, PTL

(* duplicate_peer_count always equals the number of sessions of the IP.     *)
THEOREM DuplicateCountCorrect == Spec => []DuplicateCountExact
<1>1. SessionInv => DuplicateCountExact
  BY DEF SessionInv
<1>. QED
  BY <1>1, SessionInvariant, PTL

(* No IP exceeds max_duplicate_peers, whoever creates the sessions.         *)
THEOREM DuplicateLimitCorrect == Spec => []DuplicateLimit
<1>1. SessionInv => DuplicateLimit
  BY DEF SessionInv
<1>. QED
  BY <1>1, SessionInvariant, PTL

(* Remotes never hold more than max_unestablished_connections pending       *)
(* sessions, across polls.                                                  *)
THEOREM InboundLimitCorrect == Spec => []InboundLimit
<1>1. SessionInv => InboundLimit
  BY DEF SessionInv
<1>. QED
  BY <1>1, SessionInvariant, PTL

-----------------------------------------------------------------------------
(* The facade. *)

Join(s, t) == s \o t

Concats == INSTANCE SequenceFold WITH Op <- Join

-----------------------------------------------------------------------------
(* Sequences. *)

(* The elements of two sequences one after the other.                       *)
LEMMA ConcatElements ==
    ASSUME NEW V, NEW s \in Seq(V), NEW t \in Seq(V)
    PROVE  /\ s \o t \in Seq(V) /\ Len(s \o t) = Len(s) + Len(t)
           /\ DOMAIN (s \o t) = 1 .. Len(s) + Len(t)
           /\ \A i \in 1 .. Len(s) : (s \o t)[i] = s[i]
           /\ \A i \in 1 .. Len(t) : (s \o t)[Len(s) + i] = t[i]
           /\ \A i \in DOMAIN (s \o t) :
                 \/ i \in DOMAIN s /\ (s \o t)[i] = s[i]
                 \/ i > Len(s) /\ i - Len(s) \in DOMAIN t /\ (s \o t)[i] = t[i - Len(s)]
<1>1. /\ s \o t \in Seq(V) /\ Len(s \o t) = Len(s) + Len(t)
      /\ Len(s) \in Nat /\ Len(t) \in Nat
      /\ DOMAIN s = 1 .. Len(s) /\ DOMAIN t = 1 .. Len(t)
  OBVIOUS
<1>2. \A i \in 1 .. Len(s) + Len(t) :
         (s \o t)[i] = IF i <= Len(s) THEN s[i] ELSE t[i - Len(s)]
  OBVIOUS
<1>3. DOMAIN (s \o t) = 1 .. Len(s) + Len(t)
  BY <1>1
<1>4. ASSUME NEW i \in 1 .. Len(t) PROVE (s \o t)[Len(s) + i] = t[i]
  <2>1. Len(s) + i \in 1 .. Len(s) + Len(t) /\ ~ (Len(s) + i <= Len(s)) /\ (Len(s) + i) - Len(s) = i
    BY <1>1
  <2>. QED
    BY <1>2, <2>1
<1>5. \A i \in 1 .. Len(s) : (s \o t)[i] = s[i]
  BY <1>1, <1>2
<1>6. ASSUME NEW i \in 1 .. Len(s) + Len(t)
      PROVE  \/ i \in DOMAIN s /\ (s \o t)[i] = s[i]
             \/ i > Len(s) /\ i - Len(s) \in DOMAIN t /\ (s \o t)[i] = t[i - Len(s)]
  BY <1>1, <1>2
<1>. QED
  BY <1>1, <1>3, <1>4, <1>5, <1>6

(* The elements of s are in V, and those of the n parts are among them.     *)
HasParts(V, n, seqs, s) ==
    /\ s \in Seq(V)
    /\ \A j \in 1 .. n : \A p \in DOMAIN seqs[j] : \E k \in DOMAIN s : s[k] = seqs[j][p]

(* FlattenSeq has the elements of its parts and no others.                  *)
LEMMA FlattenElements ==
    ASSUME NEW V, NEW n \in Nat, NEW seqs \in [1 .. n -> Seq(V)]
    PROVE  HasParts(V, n, seqs, FlattenSeq(seqs))
<1>1. FlattenSeq(seqs) = Concats!Flattened(seqs)
  BY DEF FlattenSeq, Concats!Flattened
<1>2. PICK f : /\ f[0] = << >>
               /\ \A i \in 0 .. n - 1 : f[i + 1] = f[i] \o seqs[i + 1]
               /\ FlattenSeq(seqs) = f[n]
  <2>1. PICK f : Concats!Joins(seqs, n, f)
    BY Concats!FlattenPrefixes
  <2>. QED
    BY <1>1, <2>1 DEF Concats!Joins
<1>. DEFINE S == {i \in Nat : i <= n => HasParts(V, i, seqs, f[i])}
<1>3. 0 \in S
  <2>1. f[0] \in Seq(V) /\ 1 .. 0 = {}
    BY <1>2
  <2>2. HasParts(V, 0, seqs, f[0])
    BY <2>1 DEF HasParts
  <2>. QED
    BY <2>2
<1>4. ASSUME NEW i \in Nat, i \in S PROVE i + 1 \in S
  <2>. SUFFICES ASSUME i + 1 <= n PROVE HasParts(V, i + 1, seqs, f[i + 1])
    OBVIOUS
  <2>1. i \in 0 .. n - 1 /\ i + 1 \in 1 .. n /\ HasParts(V, i, seqs, f[i])
    BY <1>4
  <2>. DEFINE s == f[i]
              t == seqs[i + 1]
              u == f[i + 1]
  <2>2. s \in Seq(V) /\ t \in Seq(V) /\ u = s \o t
    BY <1>2, <2>1 DEF HasParts
  <2>. HIDE DEF s, t, u
  <2>3. /\ u \in Seq(V) /\ DOMAIN u = 1 .. Len(s) + Len(t)
        /\ \A k \in 1 .. Len(s) : u[k] = s[k]
        /\ \A k \in 1 .. Len(t) : u[Len(s) + k] = t[k]
    BY <2>2, ConcatElements
  <2>4. Len(s) \in Nat /\ Len(t) \in Nat /\ DOMAIN s = 1 .. Len(s) /\ DOMAIN t = 1 .. Len(t)
    BY <2>2
  <2>5. \A k \in DOMAIN s : k \in DOMAIN u /\ u[k] = s[k]
    BY <2>3, <2>4
  <2>6. ASSUME NEW j \in 1 .. i + 1, NEW p \in DOMAIN seqs[j]
        PROVE  \E k \in DOMAIN u : u[k] = seqs[j][p]
    <3>1. CASE j = i + 1
      <4>1. p \in DOMAIN t /\ seqs[j][p] = t[p]
        BY <3>1 DEF t
      <4>2. Len(s) + p \in DOMAIN u /\ u[Len(s) + p] = t[p]
        BY <2>3, <2>4, <4>1
      <4>. QED
        BY <4>1, <4>2
    <3>2. CASE j \in 1 .. i
      <4>1. PICK k \in DOMAIN s : s[k] = seqs[j][p]
        BY <2>1, <3>2 DEF HasParts, s
      <4>. QED
        BY <2>5, <4>1
    <3>. QED
      BY <2>1, <3>1, <3>2
  <2>. QED
    BY <2>3, <2>6 DEF HasParts, u
<1>5. Nat \subseteq S
  <2>. HIDE DEF S
  <2>. QED
    BY <1>3, <1>4, Concats!SetInduction
<1>. QED
  BY <1>2, <1>5

-----------------------------------------------------------------------------
(* What the application believes of an address after reading events. *)

Told(B, E, a) ==
    \/ a \in B /\ \A i \in DOMAIN E : E[i].addr # a
    \/ \E i \in DOMAIN E : /\ E[i].kind = "Connect" /\ E[i].addr = a
                           /\ \A j \in DOMAIN E : j > i => E[j].addr # a

(* One more event decides for its own address only.                         *)
LEMMA ToldOneMore ==
    ASSUME NEW B, NEW E \in Seq(Event), NEW e \in Event, NEW a
    PROVE  Told(B, E \o <<e>>, a) <=> IF e.addr = a THEN e.kind = "Connect" ELSE Told(B, E, a)
<1>. DEFINE F == E \o <<e>>
            n == Len(E)
<1>1. /\ n \in Nat /\ DOMAIN E = 1 .. n /\ DOMAIN F = 1 .. n + 1
      /\ \A i \in 1 .. n : F[i] = E[i]
      /\ F[n + 1] = e
  OBVIOUS
<1>. HIDE DEF F, n
<1>2. CASE e.addr = a
  <2>1. n + 1 \in DOMAIN F /\ \A j \in DOMAIN F : ~ (j > n + 1)
    BY <1>1
  <2>2. Told(B, F, a) => e.kind = "Connect"
    <3>1. \A i \in DOMAIN F : i # n + 1 => n + 1 > i
      BY <1>1
    <3>. QED
      BY <1>1, <1>2, <2>1, <3>1 DEF Told
  <2>3. e.kind = "Connect" => Told(B, F, a)
    BY <1>1, <1>2, <2>1 DEF Told
  <2>. QED
    BY <1>2, <2>2, <2>3 DEF F
<1>3. CASE e.addr # a
  <2>1. Told(B, E, a) => Told(B, F, a)
    BY <1>1, <1>3 DEF Told
  <2>2. Told(B, F, a) => Told(B, E, a)
    BY <1>1, <1>3 DEF Told
  <2>. QED
    BY <1>3, <2>1, <2>2 DEF F
<1>. QED
  BY <1>2, <1>3

(* Departures end the belief in the addresses they name.                    *)
LEMMA ToldDepartures ==
    ASSUME NEW B, NEW E \in Seq(Event), NEW D \in Seq(Event), NEW a,
           \A k \in DOMAIN D : D[k].kind # "Connect"
    PROVE  Told(B, E \o D, a) <=> Told(B, E, a) /\ \A k \in DOMAIN D : D[k].addr # a
<1>. DEFINE F == E \o D
            n == Len(E)
            m == Len(D)
<1>1. /\ n \in Nat /\ m \in Nat /\ DOMAIN E = 1 .. n /\ DOMAIN D = 1 .. m
      /\ DOMAIN F = 1 .. n + m
      /\ \A i \in 1 .. n : F[i] = E[i]
      /\ \A k \in 1 .. m : F[n + k] = D[k]
  BY ConcatElements
<1>2. \A i \in DOMAIN F : i \in 1 .. n \/ \E k \in 1 .. m : i = n + k
  <2>. SUFFICES ASSUME NEW i \in DOMAIN F, i \notin 1 .. n PROVE \E k \in 1 .. m : i = n + k
    OBVIOUS
  <2>1. i - n \in 1 .. m /\ i = n + (i - n)
    BY <1>1
  <2>. QED
    BY <2>1
<1>3. \A k \in 1 .. m : n + k \in DOMAIN F /\ \A i \in 1 .. n : n + k > i
  BY <1>1
<1>4. \A i \in 1 .. n : i \in DOMAIN F
  BY <1>1
<1>. HIDE DEF F, n, m
<1>5. Told(B, F, a) => Told(B, E, a) /\ \A k \in DOMAIN D : D[k].addr # a
  <2>. SUFFICES ASSUME Told(B, F, a) PROVE Told(B, E, a) /\ \A k \in DOMAIN D : D[k].addr # a
    OBVIOUS
  <2>1. CASE a \in B /\ \A i \in DOMAIN F : F[i].addr # a
    BY <1>1, <1>3, <1>4, <2>1 DEF Told
  <2>2. CASE \E i \in DOMAIN F : /\ F[i].kind = "Connect" /\ F[i].addr = a
                                 /\ \A j \in DOMAIN F : j > i => F[j].addr # a
    <3>1. PICK i \in DOMAIN F : /\ F[i].kind = "Connect" /\ F[i].addr = a
                                /\ \A j \in DOMAIN F : j > i => F[j].addr # a
      BY <2>2
    <3>2. i \in 1 .. n
      <4>1. ASSUME NEW k \in 1 .. m, i = n + k PROVE FALSE
        <5>1. F[i] = D[k] /\ k \in DOMAIN D
          BY <1>1, <4>1
        <5>. QED
          BY <3>1, <5>1
      <4>. QED
        BY <1>2, <4>1
    <3>3. E[i].kind = "Connect" /\ E[i].addr = a /\ \A j \in 1 .. n : j > i => E[j].addr # a
      BY <1>1, <1>4, <3>1, <3>2
    <3>4. \A k \in 1 .. m : D[k].addr # a
      BY <1>1, <1>3, <3>1, <3>2
    <3>. QED
      BY <1>1, <3>2, <3>3, <3>4 DEF Told
  <2>. QED
    BY <2>1, <2>2 DEF Told
<1>6. Told(B, E, a) /\ (\A k \in DOMAIN D : D[k].addr # a) => Told(B, F, a)
  <2>. SUFFICES ASSUME Told(B, E, a), \A k \in DOMAIN D : D[k].addr # a PROVE Told(B, F, a)
    OBVIOUS
  <2>1. CASE a \in B /\ \A i \in DOMAIN E : E[i].addr # a
    <3>1. ASSUME NEW i \in DOMAIN F PROVE F[i].addr # a
      BY <1>1, <1>2, <2>1
    <3>. QED
      BY <2>1, <3>1 DEF Told
  <2>2. CASE \E i \in DOMAIN E : /\ E[i].kind = "Connect" /\ E[i].addr = a
                                 /\ \A j \in DOMAIN E : j > i => E[j].addr # a
    <3>1. PICK i \in DOMAIN E : /\ E[i].kind = "Connect" /\ E[i].addr = a
                                /\ \A j \in DOMAIN E : j > i => E[j].addr # a
      BY <2>2
    <3>2. ASSUME NEW j \in DOMAIN F, j > i PROVE F[j].addr # a
      <4>1. CASE j \in 1 .. n
        <5>1. F[j] = E[j] /\ j \in DOMAIN E
          BY <1>1, <4>1
        <5>. QED
          BY <3>1, <3>2, <5>1
      <4>2. ASSUME NEW k \in 1 .. m, j = n + k PROVE F[j].addr # a
        <5>1. F[j] = D[k] /\ k \in DOMAIN D
          BY <1>1, <4>2
        <5>. QED
          BY <5>1
      <4>. QED
        BY <1>2, <4>1, <4>2
    <3>3. i \in DOMAIN F /\ F[i] = E[i]
      BY <1>1, <1>4
    <3>. QED
      BY <3>1, <3>2, <3>3 DEF Told
  <2>. QED
    BY <2>1, <2>2 DEF Told
<1>. QED
  BY <1>5, <1>6 DEF F

(* Reading the first event changes nothing of what the whole stream tells.  *)
LEMMA ToldOneRead ==
    ASSUME NEW B, NEW E \in Seq(Event), E # << >>, NEW a
    PROVE  LET e == Head(E)
               C == IF e.kind = "Connect" THEN B \cup {e.addr} ELSE B \ {e.addr}
           IN  Told(C, Tail(E), a) <=> Told(B, E, a)
<1>. DEFINE e == Head(E)
            C == IF e.kind = "Connect" THEN B \cup {e.addr} ELSE B \ {e.addr}
            T == Tail(E)
            n == Len(E)
<1>1. /\ n \in Nat /\ n > 0 /\ DOMAIN E = 1 .. n /\ DOMAIN T = 1 .. n - 1
      /\ E[1] = e /\ \A i \in 1 .. n - 1 : T[i] = E[i + 1]
  OBVIOUS
<1>. HIDE DEF e, T, n
<1>2. \A i \in 1 .. n : i = 1 \/ (i - 1 \in 1 .. n - 1 /\ E[i] = T[i - 1])
  <2>. SUFFICES ASSUME NEW i \in 1 .. n, i # 1 PROVE i - 1 \in 1 .. n - 1 /\ E[i] = T[i - 1]
    OBVIOUS
  <2>1. i - 1 \in 1 .. n - 1 /\ (i - 1) + 1 = i
    BY <1>1
  <2>. QED
    BY <1>1, <2>1
<1>3. Told(C, T, a) => Told(B, E, a)
  <2>. SUFFICES ASSUME Told(C, T, a) PROVE Told(B, E, a)
    OBVIOUS
  <2>1. CASE a \in C /\ \A i \in DOMAIN T : T[i].addr # a
    <3>1. \A i \in DOMAIN E : i # 1 => E[i].addr # a
      BY <1>1, <1>2, <2>1
    <3>2. CASE e.addr = a
      <4>1. e.kind = "Connect"
        BY <2>1, <3>2
      <4>2. 1 \in DOMAIN E /\ \A j \in DOMAIN E : j > 1 => j # 1
        BY <1>1
      <4>. QED
        BY <1>1, <3>1, <3>2, <4>1, <4>2 DEF Told
    <3>3. CASE e.addr # a
      BY <1>1, <2>1, <3>1, <3>3 DEF Told
    <3>. QED
      BY <3>2, <3>3
  <2>2. CASE \E i \in DOMAIN T : /\ T[i].kind = "Connect" /\ T[i].addr = a
                                 /\ \A j \in DOMAIN T : j > i => T[j].addr # a
    <3>1. PICK i \in DOMAIN T : /\ T[i].kind = "Connect" /\ T[i].addr = a
                                /\ \A j \in DOMAIN T : j > i => T[j].addr # a
      BY <2>2
    <3>2. i + 1 \in DOMAIN E /\ E[i + 1].kind = "Connect" /\ E[i + 1].addr = a
      BY <1>1, <3>1
    <3>3. ASSUME NEW j \in DOMAIN E, j > i + 1 PROVE E[j].addr # a
      <4>1. j # 1 /\ j - 1 > i
        BY <1>1, <3>3
      <4>. QED
        BY <1>1, <1>2, <3>1, <4>1
    <3>. QED
      BY <3>2, <3>3 DEF Told
  <2>. QED
    BY <2>1, <2>2 DEF Told
<1>4. Told(B, E, a) => Told(C, T, a)
  <2>. SUFFICES ASSUME Told(B, E, a) PROVE Told(C, T, a)
    OBVIOUS
  <2>1. CASE a \in B /\ \A i \in DOMAIN E : E[i].addr # a
    <3>1. e.addr # a
      <4>1. 1 \in DOMAIN E
        BY <1>1
      <4>. QED
        BY <1>1, <2>1, <4>1
    <3>2. ASSUME NEW i \in DOMAIN T PROVE T[i].addr # a
      <4>1. i + 1 \in DOMAIN E /\ T[i] = E[i + 1]
        BY <1>1
      <4>. QED
        BY <2>1, <4>1
    <3>. QED
      BY <2>1, <3>1, <3>2 DEF Told
  <2>2. CASE \E i \in DOMAIN E : /\ E[i].kind = "Connect" /\ E[i].addr = a
                                 /\ \A j \in DOMAIN E : j > i => E[j].addr # a
    <3>1. PICK i \in DOMAIN E : /\ E[i].kind = "Connect" /\ E[i].addr = a
                                /\ \A j \in DOMAIN E : j > i => E[j].addr # a
      BY <2>2
    <3>2. CASE i = 1
      <4>1. a \in C
        BY <1>1, <3>1, <3>2
      <4>2. ASSUME NEW j \in DOMAIN T PROVE T[j].addr # a
        <5>1. j + 1 \in DOMAIN E /\ j + 1 > 1 /\ T[j] = E[j + 1]
          BY <1>1
        <5>. QED
          BY <3>1, <3>2, <5>1
      <4>. QED
        BY <4>1, <4>2 DEF Told
    <3>3. CASE i # 1
      <4>1. i - 1 \in DOMAIN T /\ T[i - 1] = E[i]
        BY <1>1, <1>2, <3>3
      <4>2. ASSUME NEW j \in DOMAIN T, j > i - 1 PROVE T[j].addr # a
        <5>1. j + 1 \in DOMAIN E /\ j + 1 > i /\ T[j] = E[j + 1]
          BY <1>1, <4>2
        <5>. QED
          BY <3>1, <5>1
      <4>. QED
        BY <3>1, <4>1, <4>2 DEF Told
    <3>. QED
      BY <3>2, <3>3
  <2>. QED
    BY <2>1, <2>2 DEF Told
<1>. QED
  BY <1>3, <1>4 DEF e, T

-----------------------------------------------------------------------------
(* The inductive invariant. *)

(* What was published or collected and is not read yet.                     *)
Unread == event_channel \o pending_events

ChannelsOK ==
    /\ user_events \in Seq(UserEvent) /\ Len(user_events) <= MaxQueued
    /\ pending_events \in Seq(Event) /\ event_channel \in Seq(Event)
    /\ pc = "idle" => pending_events = << >>
    /\ believed \subseteq Addr /\ refused \subseteq Addr

(* While sessions are removed only packets that are not broadcast wait.     *)
BroadcastsAreServed ==
    /\ BroadcastHasSession
    /\ pc = "remove" => \A i \in DOMAIN user_events : ~user_events[i].broadcast

(* The manager's own view is what the application will have been told.      *)
ViewIsTold == \A a \in Addr : a \in announced <=> Told(believed, Unread, a)

(* An announced address has a session that can not be established again, or *)
(* its last Connect was refused.                                            *)
AnnouncedIsKnown ==
    /\ announced \subseteq DOMAIN sessions \cup refused
    /\ pc = "remove" => announced \cap to_drop = {}
    /\ \A a \in DOMAIN sessions : a \in announced /\ a \notin refused
          => ~IsPending(sessions[a].state)

(* Without VERIFY_CONNECT every established session was announced.          *)
EstablishedIsAnnounced ==
    ~VerifyArrives =>
        /\ Established \ to_drop \subseteq announced
        /\ pc = "commands" /\ IsEstablished(current.session.state)
              => current.addr \in Established

HostInv ==
    /\ SessionInv /\ ChannelsOK /\ BroadcastsAreServed /\ ViewIsTold
    /\ AnnouncedIsKnown /\ EstablishedIsAnnounced

(* Every step of the host is a step of its session manager, or leaves it    *)
(* alone.                                                                   *)
LEMMA HostRefinesManager ==
    ASSUME ChannelsOK, HostNext \/ UNCHANGED hostVars
    PROVE  [Next]_vars
<1>1. CASE PollFinishes
  <2>1. Finish
    BY <1>1 DEF PollFinishes, Finish
  <2>. QED
    BY <2>1 DEF Next
<1>2. CASE PollUserEvent
  <2>1. Head(user_events) \in UserEvent
    BY <1>2 DEF PollUserEvent, ChannelsOK
  <2>2. Head(user_events).addr \in Addr
    BY <2>1 DEF UserEvent
  <2>. QED
    BY <1>2, <2>2 DEF PollUserEvent, Next
<1>. QED
  BY <1>1, <1>2
  DEF HostNext, hostVars, Next, PollBegins, PollReceives, PollCommand, PollEndsReceive,
      PollCollectsDrops, PollRemoves, PollEnds, Send, Broadcast, Recv, HostDisconnect, TimePasses

(* A host that has just been created satisfies the invariant.               *)
LEMMA HostInitInv ==
    ASSUME HostInit
    PROVE  HostInv
<1>1. SessionInv
  BY SessionInit DEF HostInit
<1>2. ChannelsOK /\ BroadcastsAreServed
  BY FacadeAssumption
  DEF HostInit, Init, ChannelsOK, BroadcastsAreServed, BroadcastHasSession, FacadeAssumption
<1>3. ViewIsTold
  BY DEF HostInit, Init, ViewIsTold, Told, Unread
<1>4. AnnouncedIsKnown /\ EstablishedIsAnnounced
  BY DEF HostInit, Init, AnnouncedIsKnown, EstablishedIsAnnounced, Established
<1>. QED
  BY <1>1, <1>2, <1>3, <1>4 DEF HostInv

(* A call of process_packet or process_event that announces a Connect when  *)
(* the session has become established tells the application so.             *)
LEMMA ConnectIsTold ==
    ASSUME ChannelsOK, ViewIsTold, NEW a \in Addr, NEW s, NEW t,
           Emit(ConnectEvents(a, s, t)), AnnounceConnect(a, s, t),
           UNCHANGED <<event_channel, believed>>
    PROVE  ViewIsTold' /\ pending_events' \in Seq(Event)
<1>. DEFINE e == [kind |-> "Connect", addr |-> a]
<1>1. event_channel \in Seq(Event) /\ pending_events \in Seq(Event) /\ e \in Event
      /\ Unread \in Seq(Event)
  BY DEF ChannelsOK, Event, Unread
<1>2. CASE BecameEstablished(s, t)
  <2>1. pending_events' = pending_events \o <<e>> /\ announced' = announced \cup {a}
    BY <1>2 DEF Emit, ConnectEvents, AnnounceConnect
  <2>. HIDE DEF e
  <2>2. pending_events' \in Seq(Event)
    BY <1>1, <2>1
  <2>3. Unread' = Unread \o <<e>>
    BY <1>1, <2>1 DEF Unread
  <2>4. ASSUME NEW b \in Addr PROVE b \in announced' <=> Told(believed', Unread', b)
    <3>1. Told(believed, Unread', b) <=>
            IF e.addr = b THEN e.kind = "Connect" ELSE Told(believed, Unread, b)
      BY <1>1, <2>3, ToldOneMore
    <3>2. e.addr = a /\ e.kind = "Connect"
      BY DEF e
    <3>. QED
      BY <2>1, <3>1, <3>2 DEF ViewIsTold
  <2>. QED
    BY <2>2, <2>4 DEF ViewIsTold
<1>3. CASE ~BecameEstablished(s, t)
  <2>1. pending_events' = pending_events /\ announced' = announced
    BY <1>1, <1>3 DEF Emit, ConnectEvents, AnnounceConnect
  <2>. QED
    BY <1>1, <2>1 DEF ViewIsTold, Unread
<1>. QED
  BY <1>2, <1>3

(* Steps that leave the channels, the application and what was announced    *)
(* alone.                                                                   *)
LEMMA QuietHostStep ==
    ASSUME HostInv, UNCHANGED <<channels, application, announced>>,
           pc' = "idle" => pc = "idle",
           DOMAIN sessions \subseteq DOMAIN sessions', pc' # "remove" \/ pc = "remove"
    PROVE  ChannelsOK' /\ BroadcastsAreServed' /\ ViewIsTold'
<1>1. UNCHANGED <<user_events, pending_events, event_channel, believed, refused, announced>>
  BY DEF channels, application
<1>2. ChannelsOK'
  BY <1>1 DEF HostInv, ChannelsOK
<1>3. BroadcastsAreServed'
  BY <1>1 DEF HostInv, BroadcastsAreServed, BroadcastHasSession
<1>4. ViewIsTold'
  BY <1>1 DEF HostInv, ViewIsTold, Unread
<1>. QED
  BY <1>2, <1>3, <1>4

(* What the life cycle says of the states that matter here.                 *)
LEMMA StateFacts ==
    ASSUME NEW s \in PeerStates
    PROVE  /\ IsPending(s) \/ IsEstablished(s) \/ IsDisconnecting(s)
           /\ IsEstablished(s) => ~IsPending(s)
           /\ ~BecameEstablished(s, RecordSend(s))
           /\ IsEstablished(RecordSend(s)) => IsEstablished(s)
           /\ IsPending(RecordSend(s)) => IsPending(s)
           /\ BecameEstablished(s, RecordRecv(s)) => IsPending(s)
           /\ IsEstablished(OnConnect(s)) => IsEstablished(s)
           /\ ~IsEstablished(OnDisconnect(s))
           /\ ~IsEstablished(DisconnectedLocally(s))
           /\ ~IsPending(DisconnectedLocally(s))
BY DEF PeerStates, IsPending, IsEstablished, IsDisconnecting, BecameEstablished, RecordSend,
       RecordRecv, OnConnect, OnDisconnect, DisconnectedLocally

(* process_command before the end of the datagram: nothing is announced.    *)
LEMMA CommandHostStep ==
    ASSUME HostInv, PollBegins \/ PollReceives \/ PollCommand \/ PollEndsReceive
    PROVE  /\ ChannelsOK' /\ BroadcastsAreServed' /\ ViewIsTold'
           /\ AnnouncedIsKnown' /\ EstablishedIsAnnounced'
<1>1. /\ UNCHANGED <<sessions, announced, to_drop, channels, application>>
      /\ pc \in {"idle", "recv", "commands"} /\ pc' \in {"recv", "commands", "user"}
  BY DEF PollBegins, BeginPoll, PollReceives, ReceiveDatagram, PollCommand, ReceiveConnect,
         ReceiveVerifyConnect, ReceiveDisconnect, ReceiveOther, ProcessCommand, PollEndsReceive,
         EndReceive
<1>2. ChannelsOK' /\ BroadcastsAreServed' /\ ViewIsTold'
  BY <1>1, QuietHostStep
<1>3. AnnouncedIsKnown'
  BY <1>1 DEF HostInv, AnnouncedIsKnown, application
<1>4. EstablishedIsAnnounced'
  <2>. SUFFICES ASSUME ~VerifyArrives
                PROVE  /\ Established' \ to_drop' \subseteq announced'
                       /\ pc' = "commands" /\ IsEstablished(current'.session.state)
                             => current'.addr \in Established'
    BY DEF EstablishedIsAnnounced
  <2>1. Established' = Established
    BY <1>1 DEF Established
  <2>2. Established' \ to_drop' \subseteq announced'
    BY <1>1, <2>1 DEF HostInv, EstablishedIsAnnounced
  <2>3. CASE PollBegins \/ PollEndsReceive
    BY <2>2, <2>3 DEF PollBegins, BeginPoll, PollEndsReceive, EndReceive
  <2>4. CASE PollReceives
    <3>1. PICK a \in Addr : ReceiveDatagram(a)
      BY <2>4 DEF PollReceives
    <3>2. /\ current'.addr = a
          /\ current'.session = IF a \in DOMAIN sessions THEN sessions[a] ELSE NewSession("remote")
      BY <3>1 DEF ReceiveDatagram
    <3>3. CASE a \in DOMAIN sessions
      BY <2>1, <2>2, <3>2, <3>3 DEF Established
    <3>4. CASE a \notin DOMAIN sessions
      <4>1. current'.session.state = "Idle"
        BY <3>2, <3>4 DEF NewSession
      <4>. QED
        BY <2>2, <4>1 DEF IsEstablished
    <3>. QED
      BY <3>3, <3>4
  <2>5. CASE PollCommand
    <3>1. pc = "commands" /\ current \in Datagram /\ current.session.state \in PeerStates
      BY <2>5 DEF PollCommand, ReceiveConnect, ReceiveVerifyConnect, ReceiveDisconnect, ReceiveOther,
                  ProcessCommand, HostInv, SessionInv, TypeOK, Datagram, Session
    <3>2. PICK t : /\ current' = [current EXCEPT !.session =
                                     [current.session EXCEPT !.state = t, !.quiet = 0]]
                   /\ t \in {OnConnect(current.session.state), OnDisconnect(current.session.state),
                              current.session.state}
      BY <2>5 DEF PollCommand, ReceiveConnect, ReceiveVerifyConnect, ReceiveDisconnect, ReceiveOther,
                  ProcessCommand
    <3>3. current'.addr = current.addr /\ current'.session.state = t
      BY <3>1, <3>2 DEF Datagram, Session
    <3>4. IsEstablished(t) => IsEstablished(current.session.state)
      BY <3>1, <3>2, StateFacts
    <3>. QED
      BY <2>1, <2>2, <3>1, <3>3, <3>4 DEF HostInv, EstablishedIsAnnounced
  <2>. QED
    BY <2>3, <2>4, <2>5
<1>. QED
  BY <1>2, <1>3, <1>4

(* The end of process_packet, for a session of the table, a new one that is *)
(* kept and one that is not.                                                *)
LEMMA FinishHostStep ==
    ASSUME HostInv, PollFinishes
    PROVE  /\ ChannelsOK' /\ BroadcastsAreServed' /\ ViewIsTold'
           /\ AnnouncedIsKnown' /\ EstablishedIsAnnounced'
<1>. DEFINE a == current.addr
            before == current.session.state
<1>1. PICK ok \in BOOLEAN :
        LET events == ConnectEvents(a, before, AfterRecord(ok).state)
        IN  /\ Emit(events)
            /\ \/ (FinishKnown(ok) \/ FinishAccepted(ok)) /\ refused' = refused \ Named(events)
               \/ FinishRefused(ok) /\ refused' = refused \cup Named(events)
  BY DEF PollFinishes
<1>. DEFINE after == AfterRecord(ok).state
            became == BecameEstablished(before, after)
<1>2. UNCHANGED <<user_events, event_channel, believed>> /\ pc = "commands"
  BY DEF PollFinishes
<1>3. /\ current \in Datagram /\ a \in Addr /\ before \in PeerStates
      /\ DOMAIN sessions \subseteq Addr /\ to_drop = {} /\ current.session \in Session
  BY <1>2 DEF HostInv, SessionInv, TypeOK, Datagram, Session
<1>4. /\ after \in {before, RecordRecv(before)} /\ AfterRecord(ok).state \in PeerStates
      /\ Evolves(before, after)
  <2>1. after \in {before, RecordRecv(before)}
    BY <1>3 DEF AfterRecord, Session
  <2>2. Evolves(before, before) /\ Evolves(before, RecordRecv(before))
    BY <1>3, TransitionsEvolve
  <2>. QED
    BY <2>1, <2>2 DEF Evolves
<1>5. /\ pc' \in {"recv", "user"} /\ to_drop' = to_drop
      /\ AnnounceConnect(a, before, after)
      /\ \/ sessions' = WithSession(a, AfterRecord(ok))
         \/ sessions' = sessions /\ a \notin DOMAIN sessions
  BY <1>1 DEF FinishKnown, FinishAccepted, FinishRefused, AfterDatagram
<1>6. Named(ConnectEvents(a, before, after)) = IF became THEN {a} ELSE {}
  BY DEF Named, ConnectEvents
<1>7. /\ announced' = IF became THEN announced \cup {a} ELSE announced
      /\ \/ sessions' = WithSession(a, AfterRecord(ok)) /\ refused' = IF became THEN refused \ {a} ELSE refused
         \/ /\ sessions' = sessions /\ a \notin DOMAIN sessions
            /\ refused' = IF became THEN refused \cup {a} ELSE refused
  BY <1>1, <1>5, <1>6 DEF AnnounceConnect, FinishKnown, FinishAccepted, FinishRefused
<1>8. /\ DOMAIN sessions \subseteq DOMAIN sessions'
      /\ \A b \in DOMAIN sessions' : b = a \/ (b \in DOMAIN sessions /\ sessions'[b] = sessions[b])
      /\ sessions' = WithSession(a, AfterRecord(ok)) =>
            a \in DOMAIN sessions' /\ sessions'[a] = AfterRecord(ok)
  BY <1>5 DEF WithSession
<1>. HIDE DEF a, before, after, became
<1>9. ViewIsTold' /\ pending_events' \in Seq(Event)
  <2>1. Emit(ConnectEvents(a, before, after))
    BY <1>1 DEF after
  <2>. QED
    BY <1>2, <1>3, <1>5, <2>1, ConnectIsTold DEF HostInv
<1>10. ChannelsOK'
  <2>1. refused' \subseteq Addr
    BY <1>3, <1>7 DEF HostInv, ChannelsOK
  <2>. QED
    BY <1>2, <1>5, <1>9, <2>1 DEF HostInv, ChannelsOK
<1>11. BroadcastsAreServed'
  BY <1>2, <1>5, <1>8 DEF HostInv, BroadcastsAreServed, BroadcastHasSession
<1>12. AnnouncedIsKnown'
  <2>1. announced' \subseteq DOMAIN sessions' \cup refused'
    BY <1>7, <1>8 DEF HostInv, AnnouncedIsKnown
  <2>2. ASSUME NEW b \in DOMAIN sessions', b \in announced', b \notin refused'
        PROVE  ~IsPending(sessions'[b].state)
    <3>1. CASE b # a
      BY <1>7, <1>8, <2>2, <3>1 DEF HostInv, AnnouncedIsKnown
    <3>2. CASE b = a /\ became
      <4>1. sessions'[b] = AfterRecord(ok)
        BY <1>7, <1>8, <2>2, <3>2
      <4>2. IsEstablished(after) /\ after \in PeerStates
        BY <1>4, <3>2 DEF became, BecameEstablished, after
      <4>. QED
        BY <4>1, <4>2, StateFacts DEF after
    <3>3. CASE b = a /\ ~became
      <4>1. a \in announced /\ a \notin refused
        BY <1>7, <2>2, <3>3
      <4>2. a \in DOMAIN sessions /\ ~IsPending(sessions[a].state)
        BY <4>1 DEF HostInv, AnnouncedIsKnown
      <4>3. sessions'[b] = AfterRecord(ok)
        BY <1>7, <1>8, <3>3, <4>2
      <4>4. Evolves(sessions[a].state, before)
        BY <1>2, <4>2 DEF HostInv, SessionInv, CurrentDescends, a, before
      <4>5. ~IsPending(after)
        BY <1>4, <4>2, <4>4 DEF Evolves
      <4>. QED
        BY <4>3, <4>5 DEF after
    <3>. QED
      BY <3>1, <3>2, <3>3
  <2>. QED
    BY <1>5, <2>1, <2>2 DEF AnnouncedIsKnown
<1>13. EstablishedIsAnnounced'
  <2>. SUFFICES ASSUME ~VerifyArrives, NEW b \in DOMAIN sessions', IsEstablished(sessions'[b].state)
                PROVE  b \in announced'
    BY <1>5 DEF EstablishedIsAnnounced, Established
  <2>1. \A c \in DOMAIN sessions : IsEstablished(sessions[c].state) => c \in announced
    BY <1>3 DEF HostInv, EstablishedIsAnnounced, Established
  <2>2. CASE b # a
    BY <1>7, <1>8, <2>1, <2>2
  <2>3. CASE b = a /\ IsEstablished(before)
    <3>1. a \in DOMAIN sessions /\ IsEstablished(sessions[a].state)
      BY <1>2, <2>3 DEF HostInv, EstablishedIsAnnounced, Established, a, before
    <3>. QED
      BY <1>7, <2>1, <2>3, <3>1
  <2>4. CASE b = a /\ ~IsEstablished(before)
    <3>1. CASE became
      BY <1>7, <2>4, <3>1
    <3>2. CASE ~became
      <4>1. ~IsEstablished(after)
        BY <2>4, <3>2 DEF became, BecameEstablished
      <4>2. sessions'[b] # AfterRecord(ok)
        BY <4>1 DEF after
      <4>. QED
        BY <1>7, <1>8, <2>4, <4>2
    <3>. QED
      BY <3>1, <3>2
  <2>. QED
    BY <2>2, <2>3, <2>4
<1>. QED
  BY <1>9, <1>10, <1>11, <1>12, <1>13

(* A user event is taken from the channel: record_send never establishes a  *)
(* session, so nothing is announced.                                        *)
LEMMA UserEventHostStep ==
    ASSUME HostInv, PollUserEvent
    PROVE  /\ ChannelsOK' /\ BroadcastsAreServed' /\ ViewIsTold'
           /\ AnnouncedIsKnown' /\ EstablishedIsAnnounced'
<1>. DEFINE a == Head(user_events).addr
<1>1. /\ pc = "user" /\ user_events # << >> /\ user_events \in Seq(UserEvent)
      /\ user_events' = Tail(user_events) /\ UNCHANGED <<event_channel, believed, refused>>
  BY DEF PollUserEvent, HostInv, ChannelsOK, application
<1>2. a \in Addr
  <2>1. Head(user_events) \in UserEvent
    BY <1>1
  <2>. QED
    BY <2>1 DEF UserEvent
<1>3. to_drop = {} /\ \A b \in DOMAIN sessions : sessions[b] \in Session /\ sessions[b].state \in PeerStates
  BY <1>1 DEF HostInv, SessionInv, TypeOK, Session
<1>4. PICK s \in PeerStates, t \in PeerStates :
        /\ ~BecameEstablished(s, t) /\ (IsEstablished(t) => IsEstablished(s))
        /\ IsPending(t) => IsPending(s)
        /\ Emit(ConnectEvents(a, s, t)) /\ AnnounceConnect(a, s, t)
        /\ UNCHANGED <<pc, to_drop>>
        /\ \/ sessions' = sessions
           \/ a \in DOMAIN sessions' /\ a \in DOMAIN sessions /\ sessions[a].state = s
           \/ a \in DOMAIN sessions' /\ a \notin DOMAIN sessions /\ s = "Idle"
        /\ sessions' # sessions => sessions'[a].state = t
        /\ DOMAIN sessions \subseteq DOMAIN sessions'
        /\ \A b \in DOMAIN sessions' : b = a \/ (b \in DOMAIN sessions /\ sessions'[b] = sessions[b])
  <2>1. CASE UserEventKnown(a) /\ Emit(ConnectEvents(a, sessions[a].state, sessions'[a].state))
    <3>. DEFINE s == sessions[a].state
                n == [sessions[a] EXCEPT !.state = RecordSend(@)]
    <3>1. /\ a \in DOMAIN sessions /\ AnnounceConnect(a, s, n.state)
          /\ sessions' = WithSession(a, n) /\ UNCHANGED <<pc, to_drop>>
      BY <2>1 DEF UserEventKnown
    <3>2. s \in PeerStates /\ n.state = RecordSend(s) /\ RecordSend(s) \in PeerStates
      BY <1>3, <3>1, TransitionsEvolve DEF Session, Evolves
    <3>. HIDE DEF n
    <3>3. /\ DOMAIN sessions' = DOMAIN sessions /\ sessions'[a] = n
          /\ \A b \in DOMAIN sessions' : b = a \/ (b \in DOMAIN sessions /\ sessions'[b] = sessions[b])
      BY <3>1 DEF WithSession
    <3>4. Emit(ConnectEvents(a, s, RecordSend(s))) /\ AnnounceConnect(a, s, RecordSend(s))
      BY <2>1, <3>1, <3>2, <3>3
    <3>5. sessions'[a].state = RecordSend(s)
      BY <3>2, <3>3
    <3>6. /\ ~BecameEstablished(s, RecordSend(s))
          /\ IsEstablished(RecordSend(s)) => IsEstablished(s)
          /\ IsPending(RecordSend(s)) => IsPending(s)
      BY <3>2, StateFacts
    <3>. HIDE DEF s, a
    <3>. USE <3>2
    <3>. WITNESS s \in PeerStates, RecordSend(s) \in PeerStates
    <3>. QED
      BY <3>1, <3>3, <3>4, <3>5, <3>6 DEF s
  <2>2. CASE UserEventNew(a) /\ Emit(ConnectEvents(a, "Idle", sessions'[a].state))
    <3>. DEFINE n == [NewSession("user") EXCEPT !.state = RecordSend(@)]
    <3>1. /\ a \notin DOMAIN sessions /\ AnnounceConnect(a, "Idle", n.state)
          /\ sessions' = WithSession(a, n) /\ UNCHANGED <<pc, to_drop>>
      BY <2>2 DEF UserEventNew
    <3>2. "Idle" \in PeerStates /\ n.state = RecordSend("Idle") /\ RecordSend("Idle") \in PeerStates
      BY DEF NewSession, RecordSend, PeerStates
    <3>. HIDE DEF n
    <3>3. /\ DOMAIN sessions' = DOMAIN sessions \cup {a} /\ sessions'[a] = n
          /\ \A b \in DOMAIN sessions' : b = a \/ (b \in DOMAIN sessions /\ sessions'[b] = sessions[b])
      BY <3>1 DEF WithSession
    <3>4. Emit(ConnectEvents(a, "Idle", RecordSend("Idle"))) /\ AnnounceConnect(a, "Idle", RecordSend("Idle"))
      BY <2>2, <3>1, <3>2, <3>3
    <3>5. sessions'[a].state = RecordSend("Idle")
      BY <3>2, <3>3
    <3>6. /\ ~BecameEstablished("Idle", RecordSend("Idle"))
          /\ IsEstablished(RecordSend("Idle")) => IsEstablished("Idle")
          /\ IsPending(RecordSend("Idle")) => IsPending("Idle")
      BY <3>2, StateFacts
    <3>. HIDE DEF a
    <3>. USE <3>2
    <3>. WITNESS "Idle" \in PeerStates, RecordSend("Idle") \in PeerStates
    <3>. QED
      BY <3>1, <3>3, <3>4, <3>5, <3>6
  <2>3. CASE UNCHANGED <<vars, pending_events>>
    <3>1. "Idle" \in PeerStates /\ ~BecameEstablished("Idle", "Idle")
      BY DEF PeerStates, BecameEstablished
    <3>2. pending_events \in Seq(Event)
      BY DEF HostInv, ChannelsOK
    <3>3. Emit(ConnectEvents(a, "Idle", "Idle")) /\ AnnounceConnect(a, "Idle", "Idle")
      BY <2>3, <3>1, <3>2 DEF Emit, ConnectEvents, AnnounceConnect, vars
    <3>4. sessions' = sessions /\ UNCHANGED <<pc, to_drop>>
      BY <2>3 DEF vars
    <3>. HIDE DEF a
    <3>. USE <3>1
    <3>. WITNESS "Idle" \in PeerStates, "Idle" \in PeerStates
    <3>. QED
      BY <3>1, <3>3, <3>4
  <2>. QED
    BY <2>1, <2>2, <2>3 DEF PollUserEvent
<1>. HIDE DEF a
<1>5. announced' = announced
  BY <1>4 DEF AnnounceConnect
<1>6. ViewIsTold' /\ pending_events' \in Seq(Event)
  BY <1>1, <1>2, <1>4, ConnectIsTold DEF HostInv
<1>7. /\ user_events' \in Seq(UserEvent) /\ Len(user_events') <= Len(user_events)
      /\ Len(user_events) \in Nat /\ Len(user_events') \in Nat
      /\ \A i \in DOMAIN user_events' :
            i + 1 \in DOMAIN user_events /\ user_events'[i] = user_events[i + 1]
  BY <1>1
<1>8. ChannelsOK'
  BY <1>1, <1>4, <1>6, <1>7, FacadeAssumption DEF HostInv, ChannelsOK, FacadeAssumption
<1>9. BroadcastsAreServed'
  BY <1>1, <1>4, <1>7 DEF HostInv, BroadcastsAreServed, BroadcastHasSession
<1>10. AnnouncedIsKnown'
  <2>1. announced' \subseteq DOMAIN sessions' \cup refused'
    BY <1>1, <1>4, <1>5 DEF HostInv, AnnouncedIsKnown
  <2>2. ASSUME NEW b \in DOMAIN sessions', b \in announced', b \notin refused'
        PROVE  ~IsPending(sessions'[b].state)
    <3>1. b \in DOMAIN sessions /\ ~IsPending(sessions[b].state)
      BY <1>1, <1>5, <2>2 DEF HostInv, AnnouncedIsKnown
    <3>2. CASE b # a \/ sessions' = sessions
      BY <1>4, <3>1, <3>2
    <3>3. CASE b = a /\ sessions' # sessions
      BY <1>4, <3>1, <3>3
    <3>. QED
      BY <3>2, <3>3
  <2>. QED
    BY <1>1, <1>4, <2>1, <2>2 DEF AnnouncedIsKnown
<1>11. EstablishedIsAnnounced'
  <2>. SUFFICES ASSUME ~VerifyArrives, NEW b \in DOMAIN sessions', IsEstablished(sessions'[b].state)
                PROVE  b \in announced'
    BY <1>1, <1>4 DEF EstablishedIsAnnounced, Established
  <2>1. b \in DOMAIN sessions /\ IsEstablished(sessions[b].state)
    <3>1. CASE b # a \/ sessions' = sessions
      BY <1>4, <3>1
    <3>2. CASE b = a /\ sessions' # sessions
      <4>1. IsEstablished(s)
        BY <1>4, <3>2
      <4>2. s # "Idle"
        BY <4>1 DEF IsEstablished
      <4>. QED
        BY <1>4, <3>2, <4>1, <4>2
    <3>. QED
      BY <3>1, <3>2
  <2>. QED
    BY <1>3, <1>5, <2>1 DEF HostInv, EstablishedIsAnnounced, Established
<1>. QED
  BY <1>6, <1>8, <1>9, <1>10, <1>11

(* An order of the elements of a finite set names each of them.             *)
LEMMA OrderNamesAll ==
    ASSUME NEW S, IsFiniteSet(S), NEW order \in SetToSeqs(S)
    PROVE  /\ Cardinality(S) \in Nat /\ order \in [1 .. Cardinality(S) -> S]
           /\ Len(order) = Cardinality(S)
           /\ \A x \in S : \E i \in 1 .. Cardinality(S) : order[i] = x
<1>. DEFINE c == Cardinality(S)
<1>1. c \in Nat
  BY FS_CardinalityType
<1>2. order \in [1 .. c -> S] /\ \A i, j \in 1 .. c : i # j => order[i] # order[j]
  BY DEF SetToSeqs
<1>. HIDE DEF c
<1>3. order \in Injection(1 .. c, S)
  BY <1>2 DEF Injection, IsInjective
<1>4. Cardinality(1 .. c) = c
  BY <1>1, FS_Interval
<1>5. order \in Surjection(1 .. c, S)
  BY <1>3, <1>4, FS_Injection DEF c
<1>6. Len(order) = c
  BY <1>1, <1>2
<1>. QED
  BY <1>1, <1>2, <1>5, <1>6 DEF Surjection, c

(* should_drop tells the application of every session it takes out.         *)
LEMMA CollectHostStep ==
    ASSUME HostInv, PollCollectsDrops
    PROVE  /\ ChannelsOK' /\ BroadcastsAreServed' /\ ViewIsTold'
           /\ AnnouncedIsKnown' /\ EstablishedIsAnnounced'
           /\ \A e \in Event : Len(pending_events') > Len(pending_events)
                 /\ Last(pending_events') = e => e.kind # "Connect"
<1>1. /\ user_events = << >> /\ pc = "user" /\ pc' = "remove" /\ sessions' = sessions
      /\ to_drop' = {a \in DOMAIN sessions : ShouldDrop(sessions[a])}
      /\ announced' = announced \ {a \in to_drop' : EmitsDeparture(sessions[a])}
      /\ refused' = refused \ to_drop'
      /\ UNCHANGED <<user_events, event_channel, believed>>
  BY DEF PollCollectsDrops, AllProcessed, CollectDrops
<1>2. announced' = announced \ to_drop'
  BY <1>1 DEF ShouldDrop, EmitsDeparture
<1>3. to_drop' \subseteq DOMAIN sessions /\ to_drop' \subseteq Addr /\ IsFiniteSet(to_drop')
  <2>1. to_drop' \subseteq DOMAIN sessions /\ DOMAIN sessions \subseteq Addr
    BY <1>1 DEF HostInv, SessionInv, TypeOK
  <2>. QED
    BY <2>1, FS_Subset, SessionAssumption DEF SessionAssumption
<1>4. PICK order \in SetToSeqs(to_drop') :
        Emit(FlattenSeq([i \in 1 .. Len(order) |-> DropEvents(order[i])]))
  BY DEF PollCollectsDrops
<1>. DEFINE c == Cardinality(to_drop')
            Gone == {e \in Event : e.kind # "Connect" /\ e.addr \in to_drop'}
            seqs == [i \in 1 .. c |-> DropEvents(order[i])]
            D == FlattenSeq(seqs)
<1>5. /\ c \in Nat /\ order \in [1 .. c -> to_drop'] /\ Len(order) = c
      /\ \A a \in to_drop' : \E i \in 1 .. c : order[i] = a
  BY <1>3, OrderNamesAll
<1>6. pending_events' = pending_events \o D
  BY <1>4, <1>5 DEF Emit
<1>. HIDE DEF c
<1>7. \A a \in to_drop' : /\ DropEvents(a) \in Seq(Gone)
                           /\ 1 \in DOMAIN DropEvents(a) /\ DropEvents(a)[1].addr = a
  <2>. SUFFICES ASSUME NEW a \in to_drop'
                PROVE  /\ DropEvents(a) \in Seq(Gone)
                       /\ 1 \in DOMAIN DropEvents(a) /\ DropEvents(a)[1].addr = a
    OBVIOUS
  <2>. DEFINE d == [kind |-> "Disconnect", addr |-> a]
              o == [kind |-> "Timeout", addr |-> a]
  <2>1. d \in Gone /\ o \in Gone /\ d.addr = a /\ o.addr = a
    BY <1>3 DEF Event
  <2>2. DropEvents(a) \in {<<d>>, <<o>> \o <<d>>, <<o>> \o << >>}
    BY DEF DropEvents
  <2>. HIDE DEF d, o, Gone
  <2>3. /\ <<d>> \in Seq(Gone) /\ 1 \in DOMAIN <<d>> /\ <<d>>[1] = d
    BY <2>1
  <2>4. LET s == <<o>> \o <<d>> IN s \in Seq(Gone) /\ 1 \in DOMAIN s /\ s[1] = o
    BY <2>1
  <2>5. LET s == <<o>> \o << >> IN s \in Seq(Gone) /\ 1 \in DOMAIN s /\ s[1] = o
    BY <2>1
  <2>. QED
    BY <2>1, <2>2, <2>3, <2>4, <2>5
<1>. HIDE DEF Gone
<1>8. seqs \in [1 .. c -> Seq(Gone)]
  BY <1>5, <1>7
<1>9. D \in Seq(Gone) /\ \A j \in 1 .. c : \A p \in DOMAIN seqs[j] :
                             \E k \in DOMAIN D : D[k] = seqs[j][p]
  <2>. HIDE DEF seqs
  <2>1. c \in Nat
    BY <1>5
  <2>2. HasParts(Gone, c, seqs, D)
    BY <1>8, <2>1, FlattenElements
  <2>. HIDE DEF D
  <2>. QED
    BY <2>2 DEF HasParts
<1>. HIDE DEF D
<1>10. \A k \in DOMAIN D : D[k].kind # "Connect" /\ D[k].addr \in to_drop'
  <2>1. \A k \in DOMAIN D : D[k] \in Gone
    BY <1>9
  <2>. QED
    BY <2>1 DEF Gone
<1>11. ASSUME NEW a \in to_drop' PROVE \E k \in DOMAIN D : D[k].addr = a
  <2>1. PICK i \in 1 .. c : order[i] = a
    BY <1>5
  <2>2. seqs[i] = DropEvents(a)
    BY <2>1
  <2>. HIDE DEF seqs
  <2>3. PICK k \in DOMAIN D : D[k] = seqs[i][1]
    BY <1>7, <1>9, <2>2
  <2>. QED
    BY <1>7, <2>2, <2>3
<1>. HIDE DEF seqs
<1>12. D \in Seq(Event)
  <2>1. Gone \subseteq Event
    BY DEF Gone
  <2>. QED
    BY <1>9, <2>1, SeqMonotonic
<1>13. event_channel \in Seq(Event) /\ pending_events \in Seq(Event) /\ Unread \in Seq(Event)
  BY DEF HostInv, ChannelsOK, Unread
<1>14. ViewIsTold'
  <2>1. Unread' = Unread \o D
    <3>. HIDE DEF D
    <3>1. (event_channel \o pending_events) \o D = event_channel \o (pending_events \o D)
      BY <1>12, <1>13, ConcatAssociative
    <3>2. event_channel' = event_channel
      BY <1>1
    <3>. QED
      BY <1>6, <3>1, <3>2 DEF Unread
  <2>2. ASSUME NEW a \in Addr PROVE a \in announced' <=> Told(believed', Unread', a)
    <3>1. Told(believed, Unread \o D, a) <=> Told(believed, Unread, a) /\ \A k \in DOMAIN D : D[k].addr # a
      BY <1>10, <1>12, <1>13, ToldDepartures
    <3>2. (\A k \in DOMAIN D : D[k].addr # a) <=> a \notin to_drop'
      BY <1>10, <1>11
    <3>3. a \in announced <=> Told(believed, Unread, a)
      BY DEF HostInv, ViewIsTold
    <3>. QED
      BY <1>1, <1>2, <2>1, <3>1, <3>2, <3>3
  <2>. QED
    BY <2>2 DEF ViewIsTold
<1>15. ChannelsOK'
  <2>1. pending_events' \in Seq(Event)
    BY <1>6, <1>12, <1>13
  <2>. QED
    BY <1>1, <2>1 DEF HostInv, ChannelsOK
<1>16. BroadcastsAreServed'
  BY <1>1 DEF BroadcastsAreServed, BroadcastHasSession
<1>17. AnnouncedIsKnown'
  BY <1>1, <1>2 DEF HostInv, AnnouncedIsKnown
<1>18. EstablishedIsAnnounced'
  <2>1. to_drop = {} /\ Established' = Established
    BY <1>1 DEF HostInv, SessionInv, TypeOK, Established
  <2>. QED
    BY <1>1, <1>2, <2>1 DEF HostInv, EstablishedIsAnnounced
<1>19. ASSUME Len(pending_events') > Len(pending_events)
       PROVE  Last(pending_events').kind # "Connect"
  <2>1. /\ Len(pending_events) \in Nat /\ Len(D) \in Nat /\ DOMAIN D = 1 .. Len(D)
        /\ Len(pending_events') = Len(pending_events) + Len(D)
        /\ \A i \in 1 .. Len(D) : pending_events'[Len(pending_events) + i] = D[i]
    BY <1>6, <1>12, <1>13, ConcatElements
  <2>2. Len(D) \in DOMAIN D /\ Last(pending_events') = D[Len(D)]
    BY <1>19, <2>1 DEF Last
  <2>. QED
    BY <1>10, <2>2
<1>. QED
  BY <1>14, <1>15, <1>16, <1>17, <1>18, <1>19

(* The rest of a poll, what happens between polls, and the application.     *)
LEMMA OtherHostStep ==
    ASSUME HostInv, PollRemoves \/ PollEnds \/ HostDisconnect \/ TimePasses
    PROVE  /\ ChannelsOK' /\ BroadcastsAreServed' /\ ViewIsTold'
           /\ AnnouncedIsKnown' /\ EstablishedIsAnnounced'
<1>0. /\ event_channel \in Seq(Event) /\ pending_events \in Seq(Event)
      /\ \A a \in DOMAIN sessions : sessions[a] \in Session /\ sessions[a].state \in PeerStates
      /\ pc # "remove" => to_drop = {}
  BY DEF HostInv, ChannelsOK, SessionInv, TypeOK, Session
<1>1. CASE PollRemoves
  <2>1. PICK a \in to_drop : /\ pc = "remove" /\ pc' = "remove" /\ to_drop' = to_drop \ {a}
                             /\ sessions' = WithoutSession(a)
                             /\ announced' = announced
    BY <1>1 DEF PollRemoves, RemoveSession
  <2>2. UNCHANGED <<user_events, pending_events, event_channel, believed, refused>>
    BY <1>1 DEF PollRemoves, channels, application
  <2>3. /\ DOMAIN sessions' = DOMAIN sessions \ {a}
        /\ \A b \in DOMAIN sessions' : sessions'[b] = sessions[b]
    BY <2>1 DEF WithoutSession
  <2>4. a \notin announced
    BY <2>1 DEF HostInv, AnnouncedIsKnown
  <2>5. ChannelsOK' /\ ViewIsTold'
    BY <2>1, <2>2 DEF HostInv, ChannelsOK, ViewIsTold, Unread
  <2>6. BroadcastsAreServed'
    BY <2>1, <2>2 DEF HostInv, BroadcastsAreServed, BroadcastHasSession
  <2>7. AnnouncedIsKnown'
    BY <2>1, <2>2, <2>3, <2>4 DEF HostInv, AnnouncedIsKnown
  <2>8. EstablishedIsAnnounced'
    <3>1. Established' = Established \ {a}
      BY <2>3 DEF Established
    <3>. QED
      BY <2>1, <3>1 DEF HostInv, EstablishedIsAnnounced
  <2>. QED
    BY <2>5, <2>6, <2>7, <2>8
<1>2. CASE PollEnds
  <2>1. /\ pc = "remove" /\ pc' = "idle" /\ to_drop = {}
        /\ UNCHANGED <<sessions, to_drop, announced, user_events, believed, refused>>
        /\ event_channel' = event_channel \o pending_events /\ pending_events' = << >>
    BY <1>2 DEF PollEnds, EndPoll, Published, application
  <2>2. Unread' = Unread /\ event_channel' \in Seq(Event)
    BY <1>0, <2>1 DEF Unread
  <2>3. ChannelsOK'
    BY <2>1, <2>2 DEF HostInv, ChannelsOK
  <2>4. ViewIsTold'
    BY <2>1, <2>2 DEF HostInv, ViewIsTold
  <2>5. BroadcastsAreServed' /\ AnnouncedIsKnown'
    BY <2>1 DEF HostInv, BroadcastsAreServed, BroadcastHasSession, AnnouncedIsKnown
  <2>6. EstablishedIsAnnounced'
    BY <2>1 DEF HostInv, EstablishedIsAnnounced, Established
  <2>. QED
    BY <2>3, <2>4, <2>5, <2>6
<1>3. CASE HostDisconnect \/ TimePasses
  <2>1. /\ pc = "idle" /\ UNCHANGED <<pc, to_drop, announced, channels, application>>
        /\ DOMAIN sessions' = DOMAIN sessions
        /\ \A a \in DOMAIN sessions :
              \/ sessions'[a].state = sessions[a].state
              \/ sessions'[a].state = DisconnectedLocally(sessions[a].state)
    <3>1. CASE HostDisconnect
      <4>1. PICK a \in Addr : Disconnect(a)
        BY <3>1 DEF HostDisconnect
      <4>2. /\ a \in DOMAIN sessions
            /\ sessions' = [sessions EXCEPT ![a].state = DisconnectedLocally(@)]
        BY <4>1 DEF Disconnect
      <4>3. sessions[a] \in Session
        BY <1>0, <4>2
      <4>4. sessions'[a].state = DisconnectedLocally(sessions[a].state)
        BY <4>2, <4>3 DEF Session
      <4>5. \A b \in DOMAIN sessions : b # a => sessions'[b] = sessions[b]
        BY <4>2
      <4>. QED
        BY <3>1, <4>1, <4>2, <4>4, <4>5 DEF HostDisconnect, Disconnect
    <3>2. CASE TimePasses
      <4>1. sessions' = [a \in DOMAIN sessions |->
               [sessions[a] EXCEPT !.quiet = IF @ < IdleTimeout THEN @ + 1 ELSE @]]
        BY <3>2 DEF TimePasses, Tick
      <4>2. ASSUME NEW a \in DOMAIN sessions PROVE sessions'[a].state = sessions[a].state
        <5>1. sessions[a] \in Session
          BY <1>0
        <5>. QED
          BY <4>1, <5>1 DEF Session
      <4>. QED
        BY <3>2, <4>1, <4>2 DEF TimePasses, Tick
    <3>. QED
      BY <1>3, <3>1, <3>2
  <2>2. ChannelsOK' /\ BroadcastsAreServed' /\ ViewIsTold'
    BY <2>1, QuietHostStep
  <2>3. \A a \in DOMAIN sessions :
          /\ IsEstablished(sessions'[a].state) => IsEstablished(sessions[a].state)
          /\ IsPending(sessions'[a].state) => IsPending(sessions[a].state)
    BY <1>0, <2>1, StateFacts
  <2>4. AnnouncedIsKnown'
    BY <2>1, <2>3 DEF HostInv, AnnouncedIsKnown, application
  <2>5. EstablishedIsAnnounced'
    <3>1. Established' \subseteq Established
      BY <2>1, <2>3 DEF Established
    <3>. QED
      BY <2>1, <3>1 DEF HostInv, EstablishedIsAnnounced
  <2>. QED
    BY <2>2, <2>4, <2>5
<1>. QED
  BY <1>1, <1>2, <1>3

(* The application's steps, on the two channels it shares with the host:    *)
(* receiving an event, sending and broadcasting.                            *)
LEMMA ApplicationStep ==
    ASSUME HostInv, (\E a \in Addr : Send(a)) \/ Broadcast \/ Recv \/ UNCHANGED hostVars
    PROVE  /\ ChannelsOK' /\ BroadcastsAreServed' /\ ViewIsTold'
           /\ AnnouncedIsKnown' /\ EstablishedIsAnnounced'
<1>0. /\ event_channel \in Seq(Event) /\ pending_events \in Seq(Event)
      /\ user_events \in Seq(UserEvent) /\ Len(user_events) \in Nat /\ MaxQueued \in Nat
      /\ believed \subseteq Addr
  BY FacadeAssumption DEF HostInv, ChannelsOK, FacadeAssumption
<1>1. UNCHANGED <<pc, sessions, current, to_drop, announced, pending_events, refused>>
  BY DEF Send, Broadcast, Recv, hostVars, vars, channels, application
<1>2. AnnouncedIsKnown' /\ EstablishedIsAnnounced'
  BY <1>1 DEF HostInv, AnnouncedIsKnown, EstablishedIsAnnounced, Established
<1>3. CASE Recv
  <2>. DEFINE e == Head(event_channel)
  <2>1. /\ event_channel # << >> /\ event_channel' = Tail(event_channel) /\ user_events' = user_events
        /\ believed' = IF e.kind = "Connect" THEN believed \cup {e.addr} ELSE believed \ {e.addr}
    BY <1>3 DEF Recv
  <2>2. e \in Event /\ event_channel' \in Seq(Event)
    BY <1>0, <2>1
  <2>3. e.addr \in Addr
    BY <2>2 DEF Event
  <2>4. believed' \subseteq Addr
    BY <1>0, <2>1, <2>3
  <2>5. /\ Unread \in Seq(Event) /\ Unread # << >> /\ Head(Unread) = e /\ Unread' = Tail(Unread)
    <3>1. /\ Unread \in Seq(Event) /\ Unread # << >> /\ Head(Unread) = e
      BY <1>0, <2>1 DEF Unread
    <3>2. Tail(event_channel \o pending_events) = Tail(event_channel) \o pending_events
      BY <1>0, <2>1
    <3>. QED
      BY <1>1, <2>1, <3>1, <3>2 DEF Unread
  <2>. HIDE DEF e
  <2>6. \A a \in Addr : Told(believed', Unread', a) <=> Told(believed, Unread, a)
    BY <2>1, <2>5, ToldOneRead
  <2>7. ViewIsTold'
    BY <1>1, <2>6 DEF HostInv, ViewIsTold
  <2>8. ChannelsOK'
    BY <1>1, <2>1, <2>2, <2>4 DEF HostInv, ChannelsOK
  <2>9. BroadcastsAreServed'
    BY <1>1, <2>1 DEF HostInv, BroadcastsAreServed, BroadcastHasSession
  <2>. QED
    BY <1>2, <2>7, <2>8, <2>9
<1>4. CASE (\E a \in Addr : Send(a)) \/ Broadcast
  <2>1. UNCHANGED <<event_channel, believed>>
    BY <1>4 DEF Send, Broadcast, application
  <2>2. ViewIsTold'
    BY <1>1, <2>1 DEF HostInv, ViewIsTold, Unread
  <2>3. PICK more \in Seq(UserEvent) :
          /\ user_events' = user_events \o more /\ Len(user_events) + Len(more) <= MaxQueued
          /\ \A i \in DOMAIN more : more[i].broadcast =>
                more[i].addr \in DOMAIN sessions /\ pc = "idle"
    <3>1. CASE \E a \in Addr : Send(a)
      <4>1. PICK a \in Addr : Send(a)
        BY <3>1
      <4>. DEFINE u == [addr |-> a, broadcast |-> FALSE]
      <4>2. u \in UserEvent /\ u.broadcast = FALSE
        BY DEF UserEvent
      <4>3. Len(user_events) < MaxQueued /\ user_events' = Append(user_events, u)
        BY <4>1 DEF Send
      <4>. HIDE DEF u
      <4>. DEFINE more == <<u>>
      <4>4. more \in Seq(UserEvent) /\ Len(more) = 1 /\ DOMAIN more = 1 .. 1
        BY <4>2
      <4>5. more[1] = u
        OBVIOUS
      <4>6. user_events' = user_events \o more
        BY <1>0, <4>2, <4>3
      <4>7. Len(user_events) + 1 <= MaxQueued
        <5>1. Len(user_events) \in Nat /\ MaxQueued \in Nat
          BY <1>0, FacadeAssumption DEF FacadeAssumption
        <5>. QED
          BY <4>3, <5>1
      <4>. HIDE DEF more
      <4>8. \A i \in DOMAIN more : more[i].broadcast = FALSE
        BY <4>2, <4>4, <4>5
      <4>. QED
        BY <4>4, <4>6, <4>7, <4>8
    <3>2. CASE Broadcast
      <4>1. PICK order \in SetToSeqs(Established) :
              user_events' = user_events \o
                 [i \in 1 .. Len(order) |-> [addr |-> order[i], broadcast |-> TRUE]]
        BY <3>2 DEF Broadcast
      <4>2. pc = "idle" /\ Len(user_events) + Cardinality(Established) <= MaxQueued
        BY <3>2 DEF Broadcast
      <4>3. Established \subseteq DOMAIN sessions /\ Established \subseteq Addr /\ IsFiniteSet(Established)
        <5>1. Established \subseteq DOMAIN sessions /\ DOMAIN sessions \subseteq Addr
          BY DEF Established, HostInv, SessionInv, TypeOK
        <5>. QED
          BY <5>1, FS_Subset, SessionAssumption DEF SessionAssumption
      <4>. DEFINE c == Cardinality(Established)
                  more == [i \in 1 .. c |-> [addr |-> order[i], broadcast |-> TRUE]]
      <4>4. c \in Nat /\ order \in [1 .. c -> Established] /\ Len(order) = c
        BY <4>3, OrderNamesAll
      <4>5. user_events' = user_events \o more
        BY <4>1, <4>4
      <4>. HIDE DEF c
      <4>6. \A i \in 1 .. c : more[i].addr \in DOMAIN sessions /\ more[i] \in UserEvent
        BY <4>3, <4>4 DEF UserEvent
      <4>7. more \in [1 .. c -> UserEvent] /\ DOMAIN more = 1 .. c
        BY <4>6
      <4>. HIDE DEF more
      <4>8. more \in Seq(UserEvent) /\ Len(more) = c
        BY <4>4, <4>7, SeqDef
      <4>. QED
        BY <4>2, <4>5, <4>6, <4>7, <4>8 DEF c
    <3>. QED
      BY <1>4, <3>1, <3>2
  <2>4. /\ user_events' \in Seq(UserEvent) /\ Len(user_events') = Len(user_events) + Len(more)
        /\ \A i \in DOMAIN user_events' :
              \/ i \in DOMAIN user_events /\ user_events'[i] = user_events[i]
              \/ i - Len(user_events) \in DOMAIN more /\ user_events'[i] = more[i - Len(user_events)]
    BY <1>0, <2>3, ConcatElements
  <2>5. ChannelsOK'
    BY <1>1, <2>1, <2>3, <2>4 DEF HostInv, ChannelsOK
  <2>6. BroadcastsAreServed'
    <3>1. BroadcastHasSession'
      BY <1>1, <2>3, <2>4 DEF HostInv, BroadcastsAreServed, BroadcastHasSession
    <3>2. ASSUME pc' = "remove", NEW i \in DOMAIN user_events' PROVE ~user_events'[i].broadcast
      BY <1>1, <2>3, <2>4, <3>2 DEF HostInv, BroadcastsAreServed
    <3>. QED
      BY <3>1, <3>2 DEF BroadcastsAreServed
  <2>. QED
    BY <1>2, <2>2, <2>5, <2>6
<1>5. CASE UNCHANGED hostVars
  <2>1. UNCHANGED <<channels, application, announced>> /\ pc' = pc /\ sessions' = sessions
    BY <1>5 DEF hostVars, vars
  <2>. QED
    BY <1>2, <2>1, QuietHostStep
<1>. QED
  BY <1>3, <1>4, <1>5

(* The invariant holds in every behaviour of a host and its application.    *)
LEMMA HostInvariant == HostSpec => []HostInv
<1>1. HostInit => HostInv
  BY HostInitInv
<1>2. HostInv /\ [HostNext]_hostVars => HostInv'
  <2>. SUFFICES ASSUME HostInv, [HostNext]_hostVars PROVE HostInv'
    OBVIOUS
  <2>1. SessionInv'
    BY HostRefinesManager, SessionStep DEF HostInv
  <2>2. /\ ChannelsOK' /\ BroadcastsAreServed' /\ ViewIsTold'
        /\ AnnouncedIsKnown' /\ EstablishedIsAnnounced'
    BY CommandHostStep, FinishHostStep, UserEventHostStep, CollectHostStep, OtherHostStep,
       ApplicationStep DEF HostNext
  <2>. QED
    BY <2>1, <2>2 DEF HostInv
<1>. QED
  BY <1>1, <1>2, PTL DEF HostSpec

-----------------------------------------------------------------------------
(* The channels of the Host are well formed at every point of a poll, and a *)
(* packet that broadcast queued finds the session it was meant for,         *)
(* whatever other threads send between.                                     *)
THEOREM FacadeCorrect == HostSpec => []FacadeInv
<1>1. HostInv => FacadeInv
  BY DEF HostInv, FacadeInv, HostTypeOK, SessionInv, ChannelsOK, BroadcastsAreServed
<1>. QED
  BY <1>1, HostInvariant, PTL

(* An application that has read every event knows the connections, as long  *)
(* as none is established by a VERIFY_CONNECT: process_packet compares the  *)
(* states around record_recv and announces no session that a command has    *)
(* already established.                                                     *)
THEOREM DrainedViewCorrect ==
    ASSUME VerifyArrives = FALSE
    PROVE  HostSpec => []DrainedViewIsRight
<1>1. HostInv => DrainedViewIsRight
  <2>. SUFFICES ASSUME HostInv, pc = "idle", event_channel = << >>
                PROVE  Established \subseteq believed /\ believed \subseteq DOMAIN sessions \cup refused
    BY DEF DrainedViewIsRight
  <2>1. Unread = << >>
    BY DEF HostInv, ChannelsOK, Unread
  <2>2. \A a \in Addr : a \in announced <=> a \in believed
    BY <2>1 DEF HostInv, ViewIsTold, Told
  <2>3. announced \subseteq Addr /\ believed \subseteq Addr /\ to_drop = {}
    BY DEF HostInv, SessionInv, TypeOK, ChannelsOK
  <2>4. announced = believed
    BY <2>2, <2>3
  <2>5. Established \subseteq announced
    BY <2>3, VerifyArrives = FALSE DEF HostInv, EstablishedIsAnnounced
  <2>. QED
    BY <2>4, <2>5 DEF HostInv, AnnouncedIsKnown
<1>. QED
  BY <1>1, HostInvariant, PTL

(* No Connect follows another of the same address without a Timeout or      *)
(* Disconnect between them, unless the first was of a session that was not  *)
(* kept.                                                                    *)
THEOREM NoRepeatedConnectCorrect == HostSpec => NoRepeatedConnect
<1>. DEFINE Fresh == \A a \in Addr :
               /\ Len(pending_events') > Len(pending_events)
               /\ Last(pending_events') = [kind |-> "Connect", addr |-> a]
               => a \notin announced \/ a \in refused
<1>1. HostInv /\ [HostNext]_hostVars => [Fresh]_hostVars
  <2>. SUFFICES ASSUME HostInv, HostNext, NEW a \in Addr,
                       Len(pending_events') > Len(pending_events),
                       Last(pending_events') = [kind |-> "Connect", addr |-> a],
                       a \in announced, a \notin refused
                PROVE  FALSE
    OBVIOUS
  <2>0. pending_events \in Seq(Event) /\ Len(pending_events) \in Nat
    BY DEF HostInv, ChannelsOK
  <2>1. pending_events' # pending_events /\ pending_events' # << >>
    BY <2>0
  <2>2. a \in DOMAIN sessions /\ ~IsPending(sessions[a].state)
    BY DEF HostInv, AnnouncedIsKnown
  <2>3. CASE PollFinishes
    <3>. DEFINE before == current.session.state
    <3>1. PICK ok \in BOOLEAN : Emit(ConnectEvents(current.addr, before, AfterRecord(ok).state))
      BY <2>3 DEF PollFinishes
    <3>2. pc = "commands" /\ current \in Datagram /\ before \in PeerStates /\ current.session \in Session
      BY <2>3 DEF PollFinishes, HostInv, SessionInv, TypeOK, Datagram, Session
    <3>3. BecameEstablished(before, AfterRecord(ok).state)
      BY <2>0, <2>1, <3>1 DEF Emit, ConnectEvents
    <3>. DEFINE e == [kind |-> "Connect", addr |-> current.addr]
    <3>4. pending_events' = pending_events \o <<e>> /\ e \in Event
      BY <3>1, <3>2, <3>3 DEF Emit, ConnectEvents, Event, Datagram
    <3>. HIDE DEF e
    <3>5. Last(pending_events') = e
      BY <2>0, <3>4 DEF Last
    <3>6. current.addr = a
      BY <3>5 DEF e
    <3>7. AfterRecord(ok).state \in {before, RecordRecv(before)}
      BY <3>2 DEF AfterRecord, Session
    <3>8. IsPending(before)
      BY <3>2, <3>3, <3>7, StateFacts DEF BecameEstablished
    <3>9. Evolves(sessions[a].state, before)
      BY <2>2, <3>2, <3>6 DEF HostInv, SessionInv, CurrentDescends
    <3>. QED
      BY <2>2, <3>8, <3>9 DEF Evolves
  <2>4. CASE PollUserEvent
    <3>1. ASSUME NEW b, NEW s \in PeerStates PROVE ~Emit(ConnectEvents(b, s, RecordSend(s)))
      BY <2>0, <2>1, StateFacts DEF Emit, ConnectEvents
    <3>. DEFINE b == Head(user_events).addr
    <3>2. CASE UserEventKnown(b) /\ Emit(ConnectEvents(b, sessions[b].state, sessions'[b].state))
      <4>1. b \in DOMAIN sessions /\ sessions' = WithSession(b, [sessions[b] EXCEPT !.state = RecordSend(@)])
        BY <3>2 DEF UserEventKnown
      <4>2. sessions[b] \in Session /\ sessions[b].state \in PeerStates
        BY <4>1 DEF HostInv, SessionInv, TypeOK, Session
      <4>3. sessions'[b].state = RecordSend(sessions[b].state)
        BY <4>1, <4>2 DEF WithSession, Session
      <4>. QED
        BY <3>1, <3>2, <4>2, <4>3
    <3>3. CASE UserEventNew(b) /\ Emit(ConnectEvents(b, "Idle", sessions'[b].state))
      <4>1. sessions' = WithSession(b, [NewSession("user") EXCEPT !.state = RecordSend(@)])
        BY <3>3 DEF UserEventNew
      <4>2. sessions'[b].state = RecordSend("Idle") /\ "Idle" \in PeerStates
        BY <4>1 DEF WithSession, NewSession, PeerStates
      <4>. QED
        BY <3>1, <3>3, <4>2
    <3>. QED
      BY <2>1, <2>4, <3>2, <3>3 DEF PollUserEvent
  <2>5. CASE PollCollectsDrops
    <3>1. [kind |-> "Connect", addr |-> a] \in Event
      BY DEF Event
    <3>. QED
      BY <2>5, <3>1, CollectHostStep
  <2>. QED
    BY <2>1, <2>3, <2>4, <2>5
    DEF HostNext, PollBegins, PollReceives, PollCommand, PollEndsReceive, PollRemoves, PollEnds,
        Send, Broadcast, Recv, HostDisconnect, TimePasses, channels
<1>. QED
  BY <1>1, HostInvariant, PTL DEF HostSpec, NoRepeatedConnect

(* The host implements its session manager: seen through the manager's      *)
(* variables, what the threads of the application do around a poll is       *)
(* nothing but a poll.  What is proved of the manager holds in the host.    *)
THEOREM HostImplementsManager == HostSpec => Spec
<1>1. HostInit => Init
  BY DEF HostInit
<1>2. HostInv /\ [HostNext]_hostVars => [Next]_vars
  BY HostRefinesManager DEF HostInv
<1>. QED
  BY <1>1, <1>2, HostInvariant, PTL DEF HostSpec, Spec

=============================================================================
