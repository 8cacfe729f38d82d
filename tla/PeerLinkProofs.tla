--------------------------- MODULE PeerLinkProofs ---------------------------
(***************************************************************************)
(* Two peers for every number of messages, losses, copies and restarts:    *)
(* their records stay well formed, ordered data arrives at most once, and  *)
(* as long as no session was dropped a client that accepted VERIFY_CONNECT *)
(* agrees with its server.                                                 *)
(***************************************************************************)
EXTENDS PeerLink, FiniteSetTheorems, SequenceTheorems, TLAPS

-----------------------------------------------------------------------------
(* The inductive invariant. *)

Requests == {Connect(id) : id \in SessionIds}

Answers == {VerifyConnect(i, o) : i, o \in SessionIds}

Data(log) == {SendReliable(log[n], n) : n \in 1 .. Len(log)}

(* The commands a peer can have queued, given the messages it was given.    *)
Commands(log) == Requests \cup Answers \cup Data(log) \cup {Acknowledge, DisconnectCommand}

Ordered(log) == {n \in 1 .. Len(log) : log[n] = "ordered"}

Buffers == [{} -> Nat] \cup [{0} -> Nat]

(* A peer with the application's messages log and the other end's messages  *)
(* otherlog: every ordered packet is numbered 0, so the channel passes on   *)
(* one packet and waits for number 1 ever after.                            *)
PeerRecords(log, otherlog) ==
    [state : PeerStates, outgoing_session_id : SessionIds,
     incoming_session_id : SessionIds \cup {0}, queue : Seq(Commands(log)),
     expected : {0, 1}, buffered : Buffers, ordered : Seq(Ordered(otherlog)),
     unordered : Seq(Nat)]

ChannelOK(pr) ==
    /\ Len(pr.ordered) <= 1
    /\ pr.expected = 0 => pr.ordered = << >> /\ DOMAIN pr.buffered = {}

PeersOK ==
    \A p \in Peers : peer[p] \in PeerRecords(sent[p], sent[Other(p)]) /\ ChannelOK(peer[p])

WireOK ==
    \A d \in wire :
        /\ DOMAIN d = {"to", "commands"} /\ d.to \in Peers
        /\ d.commands \in Seq(Commands(sent[Other(d.to)])) /\ Len(d.commands) > 0

(* Past the point where CONNECT or VERIFY_CONNECT can change the ids.       *)
Settled(pr) == pr.state \notin {"Idle", "Connecting"}

(* What a command of pr says about the sessions of both ends is true.       *)
Truthful(c, pr, other) ==
    /\ c \in Requests => c.outgoing_session_id = pr.outgoing_session_id
    /\ c \in Answers =>
          /\ Settled(pr)
          /\ c.outgoing_session_id = pr.outgoing_session_id
          /\ c.incoming_session_id = other.outgoing_session_id
          /\ pr.incoming_session_id = other.outgoing_session_id

QueueTruthful(pr, other) == \A i \in 1 .. Len(pr.queue) : Truthful(pr.queue[i], pr, other)

Agrees(pr, other) ==
    pr.state = "ConnectionSucceeded" =>
        /\ Settled(other)
        /\ other.incoming_session_id = pr.outgoing_session_id
        /\ other.outgoing_session_id = pr.outgoing_session_id
        /\ pr.incoming_session_id = pr.outgoing_session_id

SessionsAgree ==
    /\ \A p \in Peers : QueueTruthful(peer[p], peer[Other(p)]) /\ Agrees(peer[p], peer[Other(p)])
    /\ \A d \in wire : \A i \in 1 .. Len(d.commands) :
          Truthful(d.commands[i], peer[Other(d.to)], peer[d.to])

Counted ==
    /\ restarts \in Nat /\ sent \in [Peers -> Seq(Modes)]
    /\ peer = [p \in Peers |-> peer[p]]

LinkIndInv ==
    /\ Counted /\ PeersOK /\ WireOK
    /\ restarts = 0 => SessionsAgree

-----------------------------------------------------------------------------
(* The two ends. *)

(* Each end has one other end, whose other end it is.                       *)
LEMMA OtherEnd ==
    /\ \A p \in Peers : Other(p) \in Peers /\ Other(p) # p /\ Other(Other(p)) = p
    /\ \A p, q \in Peers : q = p \/ q = Other(p)
<1>1. PICK a \in Peers : TRUE
  BY LinkAssumption, FS_EmptySet
<1>. DEFINE rest == Peers \ {a}
<1>2. IsFiniteSet(rest) /\ Cardinality(rest) = 1
  <2>1. IsFiniteSet(Peers) /\ Cardinality(Peers) = 2
    BY LinkAssumption
  <2>2. IsFiniteSet(rest) /\ Cardinality(rest) = Cardinality(Peers) - 1
    BY <2>1, FS_RemoveElement
  <2>. QED
    BY <2>1, <2>2
<1>3. PICK b : rest = {b}
  BY <1>2, FS_Singleton
<1>4. a # b /\ Peers = {a, b}
  BY <1>1, <1>3
<1>5. Other(a) = b /\ Other(b) = a
  BY <1>4 DEF Other
<1>. QED
  BY <1>4, <1>5

-----------------------------------------------------------------------------
(* Commands. *)

(* A command is of one of the five kinds, with the fields of its kind.      *)
LEMMA CommandKinds ==
    ASSUME NEW log, NEW c \in Commands(log)
    PROVE  \/ c \in Requests /\ c.type = "Connect" /\ c.outgoing_session_id \in SessionIds
           \/ /\ c \in Answers /\ c.type = "VerifyConnect"
              /\ c.outgoing_session_id \in SessionIds /\ c.incoming_session_id \in SessionIds
           \/ /\ c.type = "SendReliable" /\ c.sequence = 0 /\ c.data \in 1 .. Len(log)
              /\ c.mode = log[c.data]
           \/ c.type = "Acknowledge"
           \/ c.type = "Disconnect"
<1>1. CASE c \in Requests
  BY <1>1 DEF Requests, Connect
<1>2. CASE c \in Answers
  BY <1>2 DEF Answers, VerifyConnect
<1>3. CASE c \in Data(log)
  BY <1>3 DEF Data, SendReliable, LocalSequenceNum
<1>4. CASE c \in {Acknowledge, DisconnectCommand}
  BY <1>4 DEF Acknowledge, DisconnectCommand
<1>. QED
  BY <1>1, <1>2, <1>3, <1>4 DEF Commands

(* Requests and answers are known by their type.                            *)
LEMMA KnownByType ==
    /\ \A c \in Requests : c.type = "Connect"
    /\ \A c \in Answers : c.type = "VerifyConnect"
    /\ Acknowledge \notin Requests \cup Answers
    /\ DisconnectCommand \notin Requests \cup Answers
    /\ \A mode, n : SendReliable(mode, n) \notin Requests \cup Answers
<1>1. \A c \in Requests : c.type = "Connect"
  BY DEF Requests, Connect
<1>2. \A c \in Answers : c.type = "VerifyConnect"
  BY DEF Answers, VerifyConnect
<1>3. /\ Acknowledge.type = "Acknowledge" /\ DisconnectCommand.type = "Disconnect"
      /\ \A mode, n : SendReliable(mode, n).type = "SendReliable"
  BY DEF Acknowledge, DisconnectCommand, SendReliable
<1>. QED
  BY <1>1, <1>2, <1>3

(* A message given to the peer adds to the commands it may queue.           *)
LEMMA CommandsGrow ==
    ASSUME NEW log \in Seq(Modes), NEW mode \in Modes
    PROVE  /\ Commands(log) \subseteq Commands(Append(log, mode))
           /\ Ordered(log) \subseteq Ordered(Append(log, mode))
           /\ SendReliable(mode, Len(log) + 1) \in Commands(Append(log, mode))
<1>. DEFINE longer == Append(log, mode)
<1>1. /\ Len(log) \in Nat /\ Len(longer) = Len(log) + 1
      /\ \A n \in 1 .. Len(log) : longer[n] = log[n]
      /\ longer[Len(log) + 1] = mode
  OBVIOUS
<1>. HIDE DEF longer
<1>2. \A n \in 1 .. Len(log) : n \in 1 .. Len(longer)
  BY <1>1
<1>3. Data(log) \subseteq Data(longer)
  BY <1>1, <1>2 DEF Data
<1>4. Len(log) + 1 \in 1 .. Len(longer)
  BY <1>1
<1>5. SendReliable(mode, Len(log) + 1) \in Data(longer)
  BY <1>1, <1>4 DEF Data
<1>6. Ordered(log) \subseteq Ordered(longer)
  BY <1>1, <1>2 DEF Ordered
<1>. QED
  BY <1>3, <1>5, <1>6 DEF Commands, longer

(* With more messages given to either end a peer stays well formed.         *)
LEMMA RecordsGrow ==
    ASSUME NEW log, NEW other, NEW longer, NEW otherlonger,
           Commands(log) \subseteq Commands(longer),
           Ordered(other) \subseteq Ordered(otherlonger)
    PROVE  PeerRecords(log, other) \subseteq PeerRecords(longer, otherlonger)
<1>1. /\ Seq(Commands(log)) \subseteq Seq(Commands(longer))
      /\ Seq(Ordered(other)) \subseteq Seq(Ordered(otherlonger))
  OBVIOUS
<1>. QED
  BY <1>1 DEF PeerRecords

-----------------------------------------------------------------------------
(* process_command keeps a peer well formed. *)

WithChannel(pr, o, b, e) == [pr EXCEPT !.ordered = o, !.buffered = b, !.expected = e]

WithSession(pr, st, id) == [pr EXCEPT !.state = st, !.incoming_session_id = id]

(* A peer with another ordered channel.                                     *)
LEMMA ChannelUpdated ==
    ASSUME NEW log, NEW other, NEW pr \in PeerRecords(log, other),
           NEW o \in Seq(Ordered(other)), NEW b \in Buffers, NEW e \in {0, 1}, NEW new,
           new = WithChannel(pr, o, b, e)
    PROVE  /\ new \in PeerRecords(log, other)
           /\ new.ordered = o /\ new.buffered = b /\ new.expected = e
           /\ new.state = pr.state /\ new.queue = pr.queue
           /\ new.outgoing_session_id = pr.outgoing_session_id
           /\ new.incoming_session_id = pr.incoming_session_id
BY DEF PeerRecords, WithChannel

(* The ordered channel: number 0 is delivered if it is the first, and kept  *)
(* for ever otherwise.                                                      *)
LEMMA OrderedOnce ==
    ASSUME NEW log, NEW other, NEW pr \in PeerRecords(log, other), ChannelOK(pr),
           NEW c, c.sequence = 0, c.data \in Ordered(other)
    PROVE  /\ DeliverOrdered(pr, c) \in PeerRecords(log, other)
           /\ ChannelOK(DeliverOrdered(pr, c))
           /\ DeliverOrdered(pr, c).state = pr.state
           /\ DeliverOrdered(pr, c).queue = pr.queue
           /\ DeliverOrdered(pr, c).outgoing_session_id = pr.outgoing_session_id
           /\ DeliverOrdered(pr, c).incoming_session_id = pr.incoming_session_id
           /\ pr.expected = 1 => DeliverOrdered(pr, c).expected = 1
<1>. DEFINE buffer == BufferInsert(pr.buffered, c)
            k == CHOOSE n \in 0 .. Modulus : DrainsExactly(buffer, pr.expected, n)
            ready == ReadyPackets(buffer, pr.expected, k)
            left == Drained(buffer, pr.expected, k)
            next == WrappingAdd(pr.expected, k)
<1>1. Modulus \in Nat /\ Modulus >= 2
  BY HalfRangeAssumption DEF Modulus
<1>2. pr.expected \in {0, 1} /\ DOMAIN pr.buffered \subseteq {0} /\ c.data \in Nat
  BY DEF PeerRecords, Buffers, Ordered
<1>3. /\ DOMAIN buffer = {0} /\ buffer[0] = c.data
      /\ buffer = [s \in {0} |-> c.data]
  BY <1>2 DEF BufferInsert
<1>. HIDE DEF buffer
<1>4. CASE pr.expected = 0
  <2>1. DrainsExactly(buffer, 0, 1)
    BY <1>1, <1>3 DEF DrainsExactly, WrappingAdd
  <2>2. \A n \in 0 .. Modulus : DrainsExactly(buffer, 0, n) => n = 1
    <3>1. SUFFICES ASSUME NEW n \in 0 .. Modulus, DrainsExactly(buffer, 0, n), n # 1
                   PROVE  FALSE
      OBVIOUS
    <3>2. CASE n = 0
      BY <1>1, <1>3, <3>1, <3>2 DEF DrainsExactly, WrappingAdd
    <3>3. CASE n >= 2
      <4>1. 1 \in 0 .. n - 1
        BY <1>1, <3>3
      <4>2. WrappingAdd(0, 1) = 1
        BY <1>1 DEF WrappingAdd
      <4>. QED
        BY <1>3, <3>1, <4>1, <4>2 DEF DrainsExactly
    <3>. QED
      BY <1>1, <3>1, <3>2, <3>3
  <2>3. k = 1
    BY <1>1, <1>4, <2>1, <2>2
  <2>. HIDE DEF k
  <2>4. WrappingAdd(0, 0) = 0 /\ WrappingAdd(0, 1) = 1
    BY <1>1 DEF WrappingAdd
  <2>5. ready = <<c.data>>
    BY <1>3, <1>4, <2>3, <2>4 DEF ReadyPackets
  <2>6. left = [s \in {} |-> 0] /\ left \in Buffers /\ DOMAIN left = {}
    BY <1>3, <1>4, <2>3, <2>4 DEF Drained, Buffers
  <2>7. next = 1
    BY <1>4, <2>3, <2>4
  <2>. HIDE DEF ready, left, next
  <2>8. pr.ordered = << >> /\ pr.ordered \o ready = <<c.data>>
    <3>1. pr.ordered = << >>
      BY <1>4 DEF ChannelOK
    <3>2. \A x : << >> \o <<x>> = <<x>>
      OBVIOUS
    <3>. QED
      BY <3>1, <3>2, <2>5
  <2>9. DeliverOrdered(pr, c) = [pr EXCEPT !.ordered = <<c.data>>, !.buffered = left,
                                           !.expected = 1]
    BY <2>7, <2>8 DEF DeliverOrdered, ready, left, next, k, buffer
  <2>10. <<c.data>> \in Seq(Ordered(other)) /\ Len(<<c.data>>) = 1
    OBVIOUS
  <2>. DEFINE new == DeliverOrdered(pr, c)
  <2>. HIDE DEF new
  <2>11. /\ new \in PeerRecords(log, other)
         /\ new.ordered = <<c.data>> /\ new.buffered = left /\ new.expected = 1
         /\ new.state = pr.state /\ new.queue = pr.queue
         /\ new.outgoing_session_id = pr.outgoing_session_id
         /\ new.incoming_session_id = pr.incoming_session_id
    <3>. DEFINE one == <<c.data>>
    <3>1. new = WithChannel(pr, one, left, 1)
      BY <2>9 DEF new, WithChannel
    <3>2. 1 \in {0, 1} /\ one \in Seq(Ordered(other))
      BY <2>10
    <3>. HIDE DEF one
    <3>3. /\ new \in PeerRecords(log, other)
          /\ new.ordered = one /\ new.buffered = left /\ new.expected = 1
          /\ new.state = pr.state /\ new.queue = pr.queue
          /\ new.outgoing_session_id = pr.outgoing_session_id
          /\ new.incoming_session_id = pr.incoming_session_id
      BY <2>6, <3>1, <3>2, ChannelUpdated
    <3>. QED
      BY <3>3 DEF one
  <2>12. ChannelOK(new)
    BY <2>10, <2>11 DEF ChannelOK
  <2>. QED
    BY <2>11, <2>12 DEF new
<1>5. CASE pr.expected = 1
  <2>1. WrappingAdd(1, 0) = 1
    BY <1>1 DEF WrappingAdd
  <2>2. DrainsExactly(buffer, 1, 0)
    BY <1>1, <1>3, <2>1 DEF DrainsExactly
  <2>3. \A n \in 0 .. Modulus : DrainsExactly(buffer, 1, n) => n = 0
    BY <1>1, <1>3, <2>1 DEF DrainsExactly
  <2>4. k = 0
    BY <1>1, <1>5, <2>2, <2>3
  <2>. HIDE DEF k
  <2>5. ready = << >>
    BY <2>4 DEF ReadyPackets
  <2>6. left = buffer /\ left \in Buffers
    BY <1>2, <1>3, <2>4 DEF Drained, Buffers
  <2>7. next = 1
    BY <1>5, <2>1, <2>4
  <2>. HIDE DEF ready, left, next
  <2>8. pr.ordered \in Seq(Ordered(other)) /\ pr.ordered \o ready = pr.ordered
    BY <2>5 DEF PeerRecords
  <2>9. DeliverOrdered(pr, c) = [pr EXCEPT !.ordered = pr.ordered, !.buffered = left,
                                           !.expected = 1]
    BY <2>7, <2>8 DEF DeliverOrdered, ready, left, next, k, buffer
  <2>. DEFINE new == DeliverOrdered(pr, c)
  <2>. HIDE DEF new
  <2>10. /\ new \in PeerRecords(log, other)
         /\ new.ordered = pr.ordered /\ new.buffered = left /\ new.expected = 1
         /\ new.state = pr.state /\ new.queue = pr.queue
         /\ new.outgoing_session_id = pr.outgoing_session_id
         /\ new.incoming_session_id = pr.incoming_session_id
    <3>1. new = WithChannel(pr, pr.ordered, left, 1)
      BY <2>9 DEF new, WithChannel
    <3>2. 1 \in {0, 1}
      OBVIOUS
    <3>. QED
      BY <2>6, <2>8, <3>1, <3>2, ChannelUpdated
  <2>11. ChannelOK(new)
    BY <2>10 DEF ChannelOK
  <2>. QED
    BY <2>10, <2>11 DEF new
<1>. QED
  BY <1>2, <1>4, <1>5

(* Queueing a command.                                                      *)
LEMMA Enqueued ==
    ASSUME NEW log, NEW other, NEW pr \in PeerRecords(log, other), ChannelOK(pr),
           NEW c \in Commands(log), NEW new, new = Enqueue(pr, c)
    PROVE  /\ new \in PeerRecords(log, other) /\ ChannelOK(new)
           /\ new.queue = Append(pr.queue, c) /\ new.state = pr.state
           /\ new.expected = pr.expected
           /\ new.outgoing_session_id = pr.outgoing_session_id
           /\ new.incoming_session_id = pr.incoming_session_id
<1>1. pr.queue \in Seq(Commands(log)) /\ Append(pr.queue, c) \in Seq(Commands(log))
  BY DEF PeerRecords
<1>2. new = [pr EXCEPT !.queue = Append(pr.queue, c)]
  BY DEF Enqueue
<1>3. new \in PeerRecords(log, other)
  BY <1>1, <1>2 DEF PeerRecords
<1>4. /\ new.queue = Append(pr.queue, c) /\ new.state = pr.state
      /\ new.expected = pr.expected /\ new.buffered = pr.buffered /\ new.ordered = pr.ordered
      /\ new.outgoing_session_id = pr.outgoing_session_id
      /\ new.incoming_session_id = pr.incoming_session_id
  BY <1>2 DEF PeerRecords
<1>. QED
  BY <1>3, <1>4 DEF ChannelOK

(* Changing the state and the session id of the other end.                  *)
LEMMA StateUpdated ==
    ASSUME NEW log, NEW other, NEW pr \in PeerRecords(log, other), ChannelOK(pr),
           NEW st \in PeerStates, NEW id \in SessionIds \cup {0}, NEW new,
           new = WithSession(pr, st, id)
    PROVE  /\ new \in PeerRecords(log, other) /\ ChannelOK(new)
           /\ new.queue = pr.queue /\ new.state = st
           /\ new.expected = pr.expected
           /\ new.outgoing_session_id = pr.outgoing_session_id
           /\ new.incoming_session_id = id
<1>1. new \in PeerRecords(log, other)
  BY DEF PeerRecords, WithSession
<1>2. /\ new.queue = pr.queue /\ new.state = st
      /\ new.expected = pr.expected /\ new.buffered = pr.buffered /\ new.ordered = pr.ordered
      /\ new.outgoing_session_id = pr.outgoing_session_id
      /\ new.incoming_session_id = id
  BY DEF PeerRecords, WithSession
<1>. QED
  BY <1>1, <1>2 DEF ChannelOK

(* What a command may do to a peer, as far as sessions are concerned: it    *)
(* keeps its own id, and once settled also the other end's.                 *)
Develops(pr, new) ==
    /\ new.outgoing_session_id = pr.outgoing_session_id
    /\ Settled(pr) => Settled(new) /\ new.incoming_session_id = pr.incoming_session_id
    /\ pr.expected = 1 => new.expected = 1

(* The CONNECT arm.                                                         *)
LEMMA ConnectHandled ==
    ASSUME NEW log, NEW other, NEW pr \in PeerRecords(log, other), ChannelOK(pr),
           NEW c, c.outgoing_session_id \in SessionIds, NEW new, new = HandleConnect(pr, c)
    PROVE  /\ new \in PeerRecords(log, other) /\ ChannelOK(new) /\ Develops(pr, new)
           /\ \/ new = pr
              \/ /\ pr.state = "Idle" /\ new.state = "AcknowledgingConnect"
                 /\ new.incoming_session_id = c.outgoing_session_id
                 /\ new.queue = Append(pr.queue, VerifyConnect(c.outgoing_session_id,
                                                               pr.outgoing_session_id))
<1>1. CASE pr.state # "Idle"
  BY <1>1 DEF HandleConnect, Develops
<1>2. CASE pr.state = "Idle"
  <2>. DEFINE mid == WithSession(pr, "AcknowledgingConnect", c.outgoing_session_id)
              answer == VerifyConnect(c.outgoing_session_id, pr.outgoing_session_id)
  <2>1. new = Enqueue(mid, answer)
    BY <1>2 DEF HandleConnect, OnConnect, PeerRecords, WithSession
  <2>2. "AcknowledgingConnect" \in PeerStates /\ c.outgoing_session_id \in SessionIds \cup {0}
    BY DEF PeerStates
  <2>3. /\ mid \in PeerRecords(log, other) /\ ChannelOK(mid)
        /\ mid.queue = pr.queue /\ mid.state = "AcknowledgingConnect"
        /\ mid.expected = pr.expected
        /\ mid.outgoing_session_id = pr.outgoing_session_id
        /\ mid.incoming_session_id = c.outgoing_session_id
    BY <2>2, StateUpdated
  <2>4. answer \in Commands(log)
    <3>1. pr.outgoing_session_id \in SessionIds
      BY DEF PeerRecords
    <3>. QED
      BY <3>1 DEF Commands, Answers
  <2>. HIDE DEF mid, answer
  <2>5. /\ new \in PeerRecords(log, other) /\ ChannelOK(new)
        /\ new.queue = Append(mid.queue, answer) /\ new.state = mid.state
        /\ new.expected = mid.expected
        /\ new.outgoing_session_id = mid.outgoing_session_id
        /\ new.incoming_session_id = mid.incoming_session_id
    BY <2>1, <2>3, <2>4, Enqueued
  <2>. QED
    BY <1>2, <2>3, <2>5 DEF Develops, Settled, answer
<1>. QED
  BY <1>1, <1>2

(* The VERIFY_CONNECT arm.                                                  *)
LEMMA VerifyHandled ==
    ASSUME NEW log, NEW other, NEW pr \in PeerRecords(log, other), ChannelOK(pr),
           NEW c, c.incoming_session_id \in SessionIds, c.type = "VerifyConnect",
           NEW new, new = HandleVerifyConnect(pr, c)
    PROVE  /\ new \in PeerRecords(log, other) /\ ChannelOK(new) /\ Develops(pr, new)
           /\ new.queue = pr.queue
           /\ \/ new = pr
              \/ /\ pr.state = "Connecting"
                 /\ new.incoming_session_id = c.incoming_session_id
                 /\ \/ new.state = "Connecting"
                    \/ /\ new.state = "ConnectionSucceeded"
                       /\ c.outgoing_session_id = pr.outgoing_session_id
<1>1. CASE pr.state # "Connecting"
  BY <1>1 DEF HandleVerifyConnect, Develops
<1>2. CASE pr.state = "Connecting"
  <2>. DEFINE st == IF c.outgoing_session_id # pr.outgoing_session_id
                    THEN "Connecting" ELSE "ConnectionSucceeded"
  <2>1. new = WithSession(pr, st, c.incoming_session_id)
    BY <1>2 DEF HandleVerifyConnect, SessionIdMismatch, OnVerifyConnect, PeerRecords,
                  WithSession
  <2>2. st \in PeerStates /\ c.incoming_session_id \in SessionIds \cup {0}
    BY DEF PeerStates
  <2>3. /\ st \in {"Connecting", "ConnectionSucceeded"}
        /\ st # "Connecting" => c.outgoing_session_id = pr.outgoing_session_id
    OBVIOUS
  <2>. HIDE DEF st
  <2>4. /\ new \in PeerRecords(log, other) /\ ChannelOK(new)
        /\ new.queue = pr.queue /\ new.state = st
        /\ new.expected = pr.expected
        /\ new.outgoing_session_id = pr.outgoing_session_id
        /\ new.incoming_session_id = c.incoming_session_id
    BY <2>1, <2>2, StateUpdated
  <2>. QED
    BY <1>2, <2>3, <2>4 DEF Develops, Settled
<1>. QED
  BY <1>1, <1>2

(* The SEND_RELIABLE arm: acknowledged and delivered, ordered or not.       *)
LEMMA DataHandled ==
    ASSUME NEW log, NEW other, NEW pr \in PeerRecords(log, other), ChannelOK(pr),
           NEW c, c.sequence = 0, c.data \in 1 .. Len(other), c.mode = other[c.data],
           NEW new, new = HandleSendReliable(pr, c)
    PROVE  /\ new \in PeerRecords(log, other) /\ ChannelOK(new) /\ Develops(pr, new)
           /\ new.queue = Append(pr.queue, Acknowledge) /\ new.state = pr.state
           /\ new.incoming_session_id = pr.incoming_session_id
<1>. DEFINE acked == Enqueue(pr, Acknowledge)
<1>1. Acknowledge \in Commands(log)
  BY DEF Commands
<1>2. /\ acked \in PeerRecords(log, other) /\ ChannelOK(acked)
      /\ acked.queue = Append(pr.queue, Acknowledge) /\ acked.state = pr.state
      /\ acked.expected = pr.expected
      /\ acked.outgoing_session_id = pr.outgoing_session_id
      /\ acked.incoming_session_id = pr.incoming_session_id
  BY <1>1, Enqueued
<1>3. new = IF c.mode = "ordered" THEN DeliverOrdered(acked, c) ELSE DeliverUnordered(acked, c)
  BY DEF HandleSendReliable
<1>. HIDE DEF acked
<1>4. CASE c.mode = "ordered"
  <2>1. c.data \in Ordered(other)
    BY <1>4 DEF Ordered
  <2>2. /\ new \in PeerRecords(log, other) /\ ChannelOK(new)
        /\ new.state = acked.state /\ new.queue = acked.queue
        /\ new.outgoing_session_id = acked.outgoing_session_id
        /\ new.incoming_session_id = acked.incoming_session_id
        /\ acked.expected = 1 => new.expected = 1
    BY <1>2, <1>3, <1>4, <2>1, OrderedOnce
  <2>. QED
    BY <1>2, <2>2 DEF Develops, Settled
<1>5. CASE c.mode # "ordered"
  <2>1. acked.unordered \in Seq(Nat) /\ Append(acked.unordered, c.data) \in Seq(Nat)
    BY <1>2 DEF PeerRecords
  <2>2. new = [acked EXCEPT !.unordered = Append(acked.unordered, c.data)]
    BY <1>3, <1>5 DEF DeliverUnordered
  <2>3. new \in PeerRecords(log, other)
    BY <1>2, <2>1, <2>2 DEF PeerRecords
  <2>4. /\ new.queue = acked.queue /\ new.state = acked.state
        /\ new.expected = acked.expected /\ new.buffered = acked.buffered
        /\ new.ordered = acked.ordered
        /\ new.outgoing_session_id = acked.outgoing_session_id
        /\ new.incoming_session_id = acked.incoming_session_id
    BY <1>2, <2>2 DEF PeerRecords
  <2>5. ChannelOK(new)
    BY <1>2, <2>4 DEF ChannelOK
  <2>. QED
    BY <1>2, <2>3, <2>4, <2>5 DEF Develops, Settled
<1>. QED
  BY <1>4, <1>5

HandleDisconnect(pr) == [pr EXCEPT !.state = OnDisconnect(@)]

(* The DISCONNECT arm.                                                      *)
LEMMA DisconnectHandled ==
    ASSUME NEW log, NEW other, NEW pr \in PeerRecords(log, other), ChannelOK(pr),
           NEW new, new = HandleDisconnect(pr)
    PROVE  /\ new \in PeerRecords(log, other) /\ ChannelOK(new) /\ Develops(pr, new)
           /\ new.queue = pr.queue /\ new.state = "Zombie"
           /\ new.incoming_session_id = pr.incoming_session_id
<1>1. new = WithSession(pr, "Zombie", pr.incoming_session_id)
  BY DEF OnDisconnect, HandleDisconnect, WithSession, PeerRecords
<1>2. "Zombie" \in PeerStates /\ pr.incoming_session_id \in SessionIds \cup {0}
  BY DEF PeerStates, PeerRecords
<1>3. /\ new \in PeerRecords(log, other) /\ ChannelOK(new)
      /\ new.queue = pr.queue /\ new.state = "Zombie"
      /\ new.expected = pr.expected
      /\ new.outgoing_session_id = pr.outgoing_session_id
      /\ new.incoming_session_id = pr.incoming_session_id
  BY <1>1, <1>2, StateUpdated
<1>. QED
  BY <1>3 DEF Develops, Settled

(* Every arm keeps the peer well formed.                                    *)
LEMMA CommandHandled ==
    ASSUME NEW log, NEW other, NEW pr \in PeerRecords(log, other), ChannelOK(pr),
           NEW c \in Commands(other), NEW new, new = HandleCommand(pr, c)
    PROVE  new \in PeerRecords(log, other) /\ ChannelOK(new) /\ Develops(pr, new)
<1>1. CASE c \in Requests /\ c.type = "Connect" /\ c.outgoing_session_id \in SessionIds
  <2>1. new = HandleConnect(pr, c)
    BY <1>1 DEF HandleCommand
  <2>. QED
    BY <1>1, <2>1, ConnectHandled
<1>2. CASE c.type = "VerifyConnect" /\ c.incoming_session_id \in SessionIds
  <2>1. new = HandleVerifyConnect(pr, c)
    BY <1>2 DEF HandleCommand
  <2>. QED
    BY <1>2, <2>1, VerifyHandled
<1>3. CASE /\ c.type = "SendReliable" /\ c.sequence = 0 /\ c.data \in 1 .. Len(other)
           /\ c.mode = other[c.data]
  <2>1. new = HandleSendReliable(pr, c)
    BY <1>3 DEF HandleCommand
  <2>. QED
    BY <1>3, <2>1, DataHandled
<1>4. CASE c.type = "Acknowledge"
  <2>1. new = pr
    BY <1>4 DEF HandleCommand
  <2>. QED
    BY <2>1 DEF Develops
<1>5. CASE c.type = "Disconnect"
  <2>1. new = HandleDisconnect(pr)
    BY <1>5 DEF HandleCommand, HandleDisconnect
  <2>. QED
    BY <2>1, DisconnectHandled
<1>. QED
  BY <1>1, <1>2, <1>3, <1>4, <1>5, CommandKinds

-----------------------------------------------------------------------------
(* process_command keeps the two ends in agreement. *)

(* What was true of a peer is true of what it develops into.                *)
LEMMA TruthIsKept ==
    ASSUME NEW pr, NEW new, NEW rem, NEW c, Develops(pr, new), Truthful(c, pr, rem)
    PROVE  Truthful(c, new, rem)
BY DEF Develops, Truthful

(* What the other end said stays true, as it is about ids that do not       *)
(* change.                                                                  *)
LEMMA TruthIsKeptByOther ==
    ASSUME NEW pr, NEW new, NEW rem, NEW c,
           new.outgoing_session_id = pr.outgoing_session_id, Truthful(c, rem, pr)
    PROVE  Truthful(c, rem, new)
BY DEF Truthful

(* A command added to a queue of true ones.                                 *)
LEMMA TruthOfLonger ==
    ASSUME NEW pr, NEW new, NEW rem, NEW T, pr.queue \in Seq(T), NEW c \in T, Develops(pr, new),
           QueueTruthful(pr, rem), Truthful(c, new, rem), new.queue = Append(pr.queue, c)
    PROVE  QueueTruthful(new, rem)
<1>. DEFINE q == pr.queue
            longer == Append(q, c)
<1>1. /\ Len(q) \in Nat /\ Len(longer) = Len(q) + 1
      /\ \A i \in 1 .. Len(q) : longer[i] = q[i]
      /\ longer[Len(q) + 1] = c
  OBVIOUS
<1>. HIDE DEF longer
<1>2. SUFFICES ASSUME NEW i \in 1 .. Len(longer) PROVE Truthful(longer[i], new, rem)
  BY DEF QueueTruthful, longer
<1>3. CASE i \in 1 .. Len(q)
  BY <1>1, <1>3, TruthIsKept DEF QueueTruthful
<1>4. CASE i = Len(q) + 1
  BY <1>1, <1>4
<1>. QED
  BY <1>1, <1>3, <1>4

(* The same for an unchanged queue.                                         *)
LEMMA TruthOfSame ==
    ASSUME NEW pr, NEW new, NEW rem, Develops(pr, new),
           QueueTruthful(pr, rem), new.queue = pr.queue
    PROVE  QueueTruthful(new, rem)
BY TruthIsKept DEF QueueTruthful

(* Every arm: a true CONNECT gets a true answer, and only a true answer     *)
(* makes a ConnectionSucceeded.                                             *)
LEMMA CommandAgrees ==
    ASSUME NEW log, NEW other, NEW pr \in PeerRecords(log, other), ChannelOK(pr),
           NEW c \in Commands(other), NEW new, new = HandleCommand(pr, c),
           NEW rem, Truthful(c, rem, pr), QueueTruthful(pr, rem), Agrees(pr, rem)
    PROVE  QueueTruthful(new, rem) /\ Agrees(new, rem)
<1>0. Develops(pr, new) /\ pr.queue \in Seq(Commands(log)) /\ pr.outgoing_session_id \in SessionIds
  BY CommandHandled DEF PeerRecords
<1>1. CASE c \in Requests /\ c.type = "Connect" /\ c.outgoing_session_id \in SessionIds
  <2>1. new = HandleConnect(pr, c)
    BY <1>1 DEF HandleCommand
  <2>2. CASE new = pr
    BY <2>2
  <2>. DEFINE answer == VerifyConnect(c.outgoing_session_id, pr.outgoing_session_id)
  <2>3. CASE /\ pr.state = "Idle" /\ new.state = "AcknowledgingConnect"
             /\ new.incoming_session_id = c.outgoing_session_id
             /\ new.queue = Append(pr.queue, answer)
    <3>1. c.outgoing_session_id = rem.outgoing_session_id
      BY <1>1 DEF Truthful
    <3>2. /\ answer \in Answers /\ answer \notin Requests
          /\ answer.incoming_session_id = c.outgoing_session_id
          /\ answer.outgoing_session_id = pr.outgoing_session_id
      <4>1. answer \in Answers
        BY <1>0, <1>1 DEF Answers
      <4>2. answer \notin Requests
        BY <4>1, KnownByType
      <4>. QED
        BY <4>1, <4>2 DEF VerifyConnect
    <3>3. answer \in Commands(log)
      BY <3>2 DEF Commands
    <3>. HIDE DEF answer
    <3>4. Truthful(answer, new, rem)
      BY <1>0, <2>3, <3>1, <3>2 DEF Truthful, Settled, Develops
    <3>5. QueueTruthful(new, rem)
      BY <1>0, <2>3, <3>3, <3>4, TruthOfLonger
    <3>. QED
      BY <2>3, <3>5 DEF Agrees
  <2>. HIDE DEF answer
  <2>. QED
    BY <1>1, <2>1, <2>2, <2>3, ConnectHandled DEF answer
<1>2. CASE /\ c \in Answers /\ c.type = "VerifyConnect"
           /\ c.outgoing_session_id \in SessionIds /\ c.incoming_session_id \in SessionIds
  <2>1. new = HandleVerifyConnect(pr, c)
    BY <1>2 DEF HandleCommand
  <2>2. /\ new.queue = pr.queue
        /\ \/ new = pr
           \/ /\ pr.state = "Connecting"
              /\ new.incoming_session_id = c.incoming_session_id
              /\ \/ new.state = "Connecting"
                 \/ /\ new.state = "ConnectionSucceeded"
                    /\ c.outgoing_session_id = pr.outgoing_session_id
    BY <1>2, <2>1, VerifyHandled
  <2>3. QueueTruthful(new, rem)
    BY <1>0, <2>2, TruthOfSame
  <2>4. /\ Settled(rem) /\ c.outgoing_session_id = rem.outgoing_session_id
        /\ c.incoming_session_id = pr.outgoing_session_id
        /\ rem.incoming_session_id = pr.outgoing_session_id
    BY <1>2 DEF Truthful
  <2>5. new.outgoing_session_id = pr.outgoing_session_id
    BY <1>0 DEF Develops
  <2>6. Agrees(new, rem)
    BY <2>2, <2>4, <2>5 DEF Agrees
  <2>. QED
    BY <2>3, <2>6
<1>3. CASE /\ c.type = "SendReliable" /\ c.sequence = 0 /\ c.data \in 1 .. Len(other)
           /\ c.mode = other[c.data]
  <2>1. new = HandleSendReliable(pr, c)
    BY <1>3 DEF HandleCommand
  <2>2. /\ new.queue = Append(pr.queue, Acknowledge) /\ new.state = pr.state
        /\ new.incoming_session_id = pr.incoming_session_id
    BY <1>3, <2>1, DataHandled
  <2>3. Acknowledge \in Commands(log) /\ Truthful(Acknowledge, new, rem)
    BY KnownByType DEF Commands, Truthful
  <2>4. QueueTruthful(new, rem)
    BY <1>0, <2>2, <2>3, TruthOfLonger
  <2>5. Agrees(new, rem)
    BY <1>0, <2>2 DEF Agrees, Develops
  <2>. QED
    BY <2>4, <2>5
<1>4. CASE c.type = "Acknowledge"
  BY <1>4 DEF HandleCommand
<1>5. CASE c.type = "Disconnect"
  <2>1. new = HandleDisconnect(pr)
    BY <1>5 DEF HandleCommand, HandleDisconnect
  <2>2. new.queue = pr.queue /\ new.state = "Zombie"
    BY <2>1, DisconnectHandled
  <2>. QED
    BY <1>0, <2>2, TruthOfSame DEF Agrees
<1>. QED
  BY <1>1, <1>2, <1>3, <1>4, <1>5, CommandKinds

-----------------------------------------------------------------------------
(* A datagram. *)

(* One turn of the loop of process_command_packet.                          *)
RunCommand(r, c) ==
    IF r.failed THEN r
    ELSE [peer |-> HandleCommand(r.peer, c), failed |-> SessionIdMismatch(r.peer, c)]

Runs == INSTANCE SequenceFold WITH Op <- RunCommand

(* The loop is the fold of that turn.                                       *)
LEMMA RunIsFold ==
    ASSUME NEW pr, NEW cs
    PROVE  RunCommands(pr, cs) = Runs!Folded([peer |-> pr, failed |-> FALSE], cs)
BY DEF RunCommands, Runs!Folded, RunCommand, FoldLeft, MapThenFoldSet, Max, Runs!Largest

(* What holds of the commands of a datagram before it is processed.         *)
TrueDatagram(cs, pr, rem) ==
    /\ QueueTruthful(pr, rem) /\ Agrees(pr, rem)
    /\ \A i \in 1 .. Len(cs) : Truthful(cs[i], rem, pr)

(* The peer at any point of the loop.                                       *)
LEMMA CommandsRun ==
    ASSUME NEW log, NEW other, NEW pr \in PeerRecords(log, other), ChannelOK(pr),
           NEW cs \in Seq(Commands(other)), NEW rem, NEW r, r = RunCommands(pr, cs)
    PROVE  /\ r.peer \in PeerRecords(log, other) /\ r.failed \in BOOLEAN
           /\ ChannelOK(r.peer) /\ Develops(pr, r.peer)
           /\ TrueDatagram(cs, pr, rem) =>
                 QueueTruthful(r.peer, rem) /\ Agrees(r.peer, rem)
<1>. DEFINE Good(x) == /\ ChannelOK(x) /\ Develops(pr, x)
                       /\ TrueDatagram(cs, pr, rem) => QueueTruthful(x, rem) /\ Agrees(x, rem)
            T == {x \in [peer : PeerRecords(log, other), failed : BOOLEAN] : Good(x.peer)}
            start == [peer |-> pr, failed |-> FALSE]
<1>1. start \in T
  <2>1. Good(pr)
    BY DEF Develops, TrueDatagram
  <2>. HIDE DEF Good
  <2>. QED
    BY <2>1
<1>2. ASSUME NEW x \in T, NEW i \in 1 .. Len(cs) PROVE RunCommand(x, cs[i]) \in T
  <2>. DEFINE c == cs[i]
              new == HandleCommand(x.peer, c)
  <2>1. c \in Commands(other)
    OBVIOUS
  <2>2. x.peer \in PeerRecords(log, other) /\ Good(x.peer)
    <3>. HIDE DEF Good
    <3>. QED
      OBVIOUS
  <2>. HIDE DEF c
  <2>3. new \in PeerRecords(log, other) /\ ChannelOK(new) /\ Develops(x.peer, new)
    BY <2>1, <2>2, CommandHandled
  <2>4. Develops(pr, new)
    BY <2>2, <2>3 DEF Develops
  <2>5. ASSUME TrueDatagram(cs, pr, rem) PROVE QueueTruthful(new, rem) /\ Agrees(new, rem)
    <3>1. Truthful(c, rem, pr)
      BY <2>5 DEF TrueDatagram, c
    <3>2. x.peer.outgoing_session_id = pr.outgoing_session_id
      BY <2>2 DEF Develops
    <3>3. Truthful(c, rem, x.peer)
      BY <3>1, <3>2, TruthIsKeptByOther
    <3>. QED
      BY <2>1, <2>2, <2>5, <3>3, CommandAgrees
  <2>6. Good(new)
    BY <2>3, <2>4, <2>5
  <2>7. SessionIdMismatch(x.peer, c) \in BOOLEAN
    BY DEF SessionIdMismatch
  <2>. HIDE DEF Good, new
  <2>8. RunCommand(x, c) = IF x.failed THEN x
                           ELSE [peer |-> new, failed |-> SessionIdMismatch(x.peer, c)]
    BY DEF RunCommand, new
  <2>. QED
    BY <2>3, <2>6, <2>7, <2>8 DEF c
<1>3. Len(cs) \in Nat /\ DOMAIN cs = 1 .. Len(cs)
  OBVIOUS
<1>. HIDE DEF T, start
<1>4. Runs!Folded(start, cs) \in T
  BY <1>1, <1>2, <1>3, Runs!FoldType
<1>5. r \in T
  BY <1>4, RunIsFold DEF start
<1>. QED
  BY <1>5 DEF T

(* record_recv changes neither ids nor queue, and settles a peer at most.   *)
LEMMA RecvRecorded ==
    ASSUME NEW log, NEW other, NEW pr \in PeerRecords(log, other), ChannelOK(pr),
           NEW new, new = WithSession(pr, RecordRecv(pr.state), pr.incoming_session_id)
    PROVE  /\ new \in PeerRecords(log, other) /\ ChannelOK(new) /\ Develops(pr, new)
           /\ \A rem : QueueTruthful(pr, rem) /\ Agrees(pr, rem) =>
                          QueueTruthful(new, rem) /\ Agrees(new, rem)
<1>1. pr.state \in PeerStates /\ pr.incoming_session_id \in SessionIds \cup {0}
  BY DEF PeerRecords
<1>2. /\ RecordRecv(pr.state) \in PeerStates
      /\ pr.state \notin {"Idle", "Connecting"} =>
             RecordRecv(pr.state) \notin {"Idle", "Connecting"}
      /\ RecordRecv(pr.state) = "ConnectionSucceeded" => pr.state = "ConnectionSucceeded"
  BY <1>1 DEF RecordRecv, PeerStates
<1>3. /\ new \in PeerRecords(log, other) /\ ChannelOK(new)
      /\ new.queue = pr.queue /\ new.state = RecordRecv(pr.state)
      /\ new.expected = pr.expected
      /\ new.outgoing_session_id = pr.outgoing_session_id
      /\ new.incoming_session_id = pr.incoming_session_id
  BY <1>1, <1>2, StateUpdated
<1>4. Develops(pr, new)
  BY <1>2, <1>3 DEF Develops, Settled
<1>5. ASSUME NEW rem, QueueTruthful(pr, rem), Agrees(pr, rem)
      PROVE  QueueTruthful(new, rem) /\ Agrees(new, rem)
  <2>1. QueueTruthful(new, rem)
    BY <1>3, <1>4, <1>5, TruthOfSame
  <2>. QED
    BY <1>2, <1>3, <1>5, <2>1 DEF Agrees
<1>. QED
  BY <1>3, <1>4, <1>5

(* A datagram that failed: the peer keeps what the commands before the      *)
(* error did and loses the payloads.                                        *)
LEMMA PayloadsLost ==
    ASSUME NEW log, NEW other, NEW pr \in PeerRecords(log, other), ChannelOK(pr),
           NEW mid \in PeerRecords(log, other), ChannelOK(mid), Develops(pr, mid),
           NEW new, new = [mid EXCEPT !.ordered = pr.ordered, !.unordered = pr.unordered]
    PROVE  /\ new \in PeerRecords(log, other) /\ ChannelOK(new) /\ Develops(pr, new)
           /\ \A rem : QueueTruthful(mid, rem) /\ Agrees(mid, rem) =>
                          QueueTruthful(new, rem) /\ Agrees(new, rem)
<1>1. /\ new \in PeerRecords(log, other)
      /\ new.queue = mid.queue /\ new.state = mid.state
      /\ new.expected = mid.expected /\ new.buffered = mid.buffered /\ new.ordered = pr.ordered
      /\ new.outgoing_session_id = mid.outgoing_session_id
      /\ new.incoming_session_id = mid.incoming_session_id
  BY DEF PeerRecords
<1>2. pr.expected \in {0, 1} /\ mid.expected \in {0, 1}
  BY DEF PeerRecords
<1>3. ChannelOK(new)
  BY <1>1, <1>2 DEF ChannelOK, Develops
<1>4. Develops(pr, new) /\ Develops(mid, new)
  BY <1>1 DEF Develops, Settled
<1>5. ASSUME NEW rem, QueueTruthful(mid, rem), Agrees(mid, rem)
      PROVE  QueueTruthful(new, rem) /\ Agrees(new, rem)
  <2>1. QueueTruthful(new, rem)
    BY <1>1, <1>4, <1>5, TruthOfSame
  <2>. QED
    BY <1>1, <1>5, <2>1 DEF Agrees
<1>. QED
  BY <1>1, <1>3, <1>4, <1>5

(* process_packet.                                                          *)
LEMMA PacketProcessed ==
    ASSUME NEW log, NEW other, NEW pr \in PeerRecords(log, other), ChannelOK(pr),
           NEW cs \in Seq(Commands(other)), NEW rem, NEW new, new = ProcessPacket(pr, cs)
    PROVE  /\ new \in PeerRecords(log, other) /\ ChannelOK(new) /\ Develops(pr, new)
           /\ TrueDatagram(cs, pr, rem) => QueueTruthful(new, rem) /\ Agrees(new, rem)
<1>. DEFINE r == RunCommands(pr, cs)
<1>1. /\ r.peer \in PeerRecords(log, other) /\ r.failed \in BOOLEAN
      /\ ChannelOK(r.peer) /\ Develops(pr, r.peer)
      /\ TrueDatagram(cs, pr, rem) => QueueTruthful(r.peer, rem) /\ Agrees(r.peer, rem)
  BY CommandsRun
<1>2. new = IF r.failed
            THEN [r.peer EXCEPT !.ordered = pr.ordered, !.unordered = pr.unordered]
            ELSE WithSession(r.peer, RecordRecv(r.peer.state), r.peer.incoming_session_id)
  <2>1. r.peer \in PeerRecords(log, other)
    BY <1>1
  <2>. DEFINE m == r.peer
  <2>. HIDE DEF m
  <2>2. [m EXCEPT !.state = RecordRecv(@)]
            = WithSession(m, RecordRecv(m.state), m.incoming_session_id)
    BY <2>1 DEF m, WithSession, PeerRecords
  <2>. QED
    BY <2>2 DEF ProcessPacket, m
<1>. HIDE DEF r
<1>3. CASE r.failed
  BY <1>1, <1>2, <1>3, PayloadsLost
<1>4. CASE ~r.failed
  <2>1. Develops(r.peer, new)
    BY <1>1, <1>2, <1>4, RecvRecorded
  <2>2. Develops(pr, new)
    BY <1>1, <2>1 DEF Develops
  <2>. QED
    BY <1>1, <1>2, <1>4, <2>2, RecvRecorded
<1>. QED
  BY <1>3, <1>4

-----------------------------------------------------------------------------
(* Steps that change one peer. *)

(* The messages known at each end never shrink.                             *)
LogsGrow ==
    /\ sent' \in [Peers -> Seq(Modes)]
    /\ \A q \in Peers : /\ Commands(sent[q]) \subseteq Commands(sent'[q])
                        /\ Ordered(sent[q]) \subseteq Ordered(sent'[q])

(* The peer at p is new, and datagrams only appear from it.                 *)
OnePeerChanges(p, new) ==
    /\ peer' = [peer EXCEPT ![p] = new]
    /\ \A d \in wire' : d \in wire \/ d.to = Other(p)

(* Both peers stay well formed if the new one is.                           *)
LEMMA PeersStayOK ==
    ASSUME Counted, PeersOK, LogsGrow, NEW p \in Peers, NEW new, OnePeerChanges(p, new),
           new \in PeerRecords(sent'[p], sent'[Other(p)]), ChannelOK(new)
    PROVE  PeersOK'
<1>1. SUFFICES ASSUME NEW q \in Peers
               PROVE  /\ peer'[q] \in PeerRecords(sent'[q], sent'[Other(q)])
                      /\ ChannelOK(peer'[q])
  BY DEF PeersOK, PeerRecords, Commands, Data, Ordered, ChannelOK
<1>2. CASE q = p
  <2>1. peer'[q] = new
    BY <1>2 DEF OnePeerChanges, Counted
  <2>. QED
    BY <1>2, <2>1
<1>3. CASE q # p
  <2>1. peer'[q] = peer[q]
    BY <1>3 DEF OnePeerChanges, Counted
  <2>2. peer[q] \in PeerRecords(sent[q], sent[Other(q)]) /\ ChannelOK(peer[q])
    BY DEF PeersOK
  <2>3. /\ Commands(sent[q]) \subseteq Commands(sent'[q])
        /\ Ordered(sent[Other(q)]) \subseteq Ordered(sent'[Other(q)])
    BY OtherEnd DEF LogsGrow
  <2>4. PeerRecords(sent[q], sent[Other(q)]) \subseteq PeerRecords(sent'[q], sent'[Other(q)])
    BY <2>3, RecordsGrow
  <2>. QED
    BY <2>1, <2>2, <2>4
<1>. QED
  BY <1>2, <1>3

DatagramOK(d, commands) ==
    /\ DOMAIN d = {"to", "commands"} /\ d.to \in Peers
    /\ d.commands \in Seq(commands) /\ Len(d.commands) > 0

(* Datagrams stay well formed if the new ones are.                          *)
LEMMA WireStaysOK ==
    ASSUME WireOK, LogsGrow,
           \A d \in wire' : d \in wire \/ DatagramOK(d, Commands(sent'[Other(d.to)]))
    PROVE  WireOK'
<1>1. SUFFICES ASSUME NEW d \in wire' PROVE DatagramOK(d, Commands(sent'[Other(d.to)]))
  BY DEF WireOK, DatagramOK, Commands, Data
<1>2. CASE d \in wire
  <2>1. /\ DOMAIN d = {"to", "commands"} /\ d.to \in Peers
        /\ d.commands \in Seq(Commands(sent[Other(d.to)])) /\ Len(d.commands) > 0
    BY <1>2 DEF WireOK
  <2>2. Commands(sent[Other(d.to)]) \subseteq Commands(sent'[Other(d.to)])
    BY <2>1, OtherEnd DEF LogsGrow
  <2>3. d.commands \in Seq(Commands(sent'[Other(d.to)]))
    BY <2>1, <2>2
  <2>. QED
    BY <2>1, <2>3 DEF DatagramOK
<1>. QED
  BY <1>1, <1>2

(* The ends stay in agreement if the new peer and its datagrams are.        *)
LEMMA SessionsStayAgreed ==
    ASSUME Counted, WireOK, SessionsAgree, NEW p \in Peers, NEW new, OnePeerChanges(p, new),
           Develops(peer[p], new),
           QueueTruthful(new, peer[Other(p)]), Agrees(new, peer[Other(p)]),
           \A d \in wire' : d \in wire \/ \A i \in 1 .. Len(d.commands) :
               Truthful(d.commands[i], new, peer[Other(p)])
    PROVE  SessionsAgree'
<1>. DEFINE o == Other(p)
            rem == peer[o]
<1>1. /\ o \in Peers /\ o # p /\ Other(o) = p
      /\ \A q \in Peers : q = p \/ q = o
  BY OtherEnd
<1>. HIDE DEF o
<1>2. peer'[p] = new /\ peer'[o] = rem
  BY <1>1 DEF OnePeerChanges, Counted
<1>3. /\ QueueTruthful(peer[p], rem) /\ Agrees(peer[p], rem)
      /\ QueueTruthful(rem, peer[p]) /\ Agrees(rem, peer[p])
  BY <1>1 DEF SessionsAgree, o
<1>4. new.outgoing_session_id = peer[p].outgoing_session_id
  BY DEF Develops
<1>5. QueueTruthful(rem, new)
  BY <1>3, <1>4, TruthIsKeptByOther DEF QueueTruthful
<1>6. Agrees(rem, new)
  BY <1>3 DEF Agrees, Develops
<1>7. \A q \in Peers : QueueTruthful(peer'[q], peer'[Other(q)]) /\ Agrees(peer'[q], peer'[Other(q)])
  <2>1. QueueTruthful(new, rem) /\ Agrees(new, rem)
    BY DEF o
  <2>2. Other(p) = o
    BY DEF o
  <2>. HIDE DEF rem
  <2>. QED
    BY <1>1, <1>2, <1>5, <1>6, <2>1, <2>2
<1>8. ASSUME NEW d \in wire', NEW i \in 1 .. Len(d.commands)
      PROVE  Truthful(d.commands[i], peer'[Other(d.to)], peer'[d.to])
  <2>1. CASE d \in wire /\ d.to = p
    <3>1. Truthful(d.commands[i], rem, peer[p])
      BY <2>1 DEF SessionsAgree, o
    <3>2. Truthful(d.commands[i], rem, new)
      BY <1>4, <3>1, TruthIsKeptByOther
    <3>. QED
      BY <1>2, <2>1, <3>2 DEF o
  <2>2. CASE d \in wire /\ d.to = o
    <3>1. Truthful(d.commands[i], peer[p], rem)
      BY <1>1, <2>2 DEF SessionsAgree
    <3>2. Truthful(d.commands[i], new, rem)
      BY <3>1, TruthIsKept
    <3>. QED
      BY <1>1, <1>2, <2>2, <3>2
  <2>3. CASE d \notin wire
    <3>1. d.to = o /\ Truthful(d.commands[i], new, rem)
      BY <2>3 DEF OnePeerChanges, o
    <3>. QED
      BY <1>1, <1>2, <3>1
  <2>4. d \in wire => d.to \in Peers
    BY DEF WireOK
  <2>. QED
    BY <1>1, <2>1, <2>2, <2>3, <2>4
<1>. HIDE DEF rem
<1>. QED
  BY <1>7, <1>8 DEF SessionsAgree, QueueTruthful, Agrees, Settled, Truthful, Requests, Answers,
                    Connect, VerifyConnect

-----------------------------------------------------------------------------
(* The flush loop. *)

(* A peer that may stand at p after the other changes of a step.            *)
Successor(p, pr) ==
    /\ pr \in PeerRecords(sent'[p], sent'[Other(p)]) /\ ChannelOK(pr)
    /\ Develops(peer[p], pr)
    /\ restarts = 0 => QueueTruthful(pr, peer[Other(p)]) /\ Agrees(pr, peer[Other(p)])

(* A step that ends with such a peer and the datagrams it sent.             *)
LEMMA PeerStep ==
    ASSUME LinkIndInv, LogsGrow, restarts' = restarts,
           NEW p \in Peers, NEW new, Successor(p, new), OnePeerChanges(p, new),
           \A d \in wire' : d \in wire \/
               /\ DatagramOK(d, Commands(sent'[p]))
               /\ restarts = 0 => \A i \in 1 .. Len(d.commands) :
                                     Truthful(d.commands[i], new, peer[Other(p)])
    PROVE  LinkIndInv'
<1>1. Counted /\ PeersOK /\ WireOK /\ (restarts = 0 => SessionsAgree)
  BY DEF LinkIndInv
<1>2. Counted'
  BY <1>1 DEF Counted, LogsGrow, OnePeerChanges
<1>3. PeersOK'
  BY <1>1, PeersStayOK DEF Successor
<1>4. WireOK'
  <2>1. \A d \in wire' : d \in wire \/ DatagramOK(d, Commands(sent'[Other(d.to)]))
    BY OtherEnd DEF OnePeerChanges
  <2>. QED
    BY <1>1, <2>1, WireStaysOK
<1>5. (restarts = 0 => SessionsAgree)'
  BY <1>1, SessionsStayAgreed DEF Successor
<1>. QED
  BY <1>2, <1>3, <1>4, <1>5 DEF LinkIndInv

(* A prefix of the queue leaves in a datagram, the rest stays.              *)
LEMMA Transmitted ==
    ASSUME LinkIndInv, LogsGrow, restarts' = restarts,
           NEW p \in Peers, NEW pr, Successor(p, pr),
           NEW n \in 0 .. Len(pr.queue), Transmit(p, pr, n)
    PROVE  LinkIndInv'
<1>. DEFINE q == pr.queue
            C == Commands(sent'[p])
            first == SubSeq(q, 1, n)
            rest == SubSeq(q, n + 1, Len(q))
            new == [pr EXCEPT !.queue = rest]
            d == [to |-> Other(p), commands |-> first]
            rem == peer[Other(p)]
<1>1. q \in Seq(C)
  BY DEF Successor, PeerRecords
<1>2. n \in Nat /\ Len(q) \in Nat /\ n <= Len(q)
  BY <1>1
<1>3. /\ first \in Seq(C) /\ Len(first) = n
      /\ \A i \in 1 .. n : first[i] = q[i] /\ i \in 1 .. Len(q)
  BY <1>1, <1>2
<1>4. /\ rest \in Seq(C) /\ Len(rest) = Len(q) - n
      /\ \A i \in 1 .. Len(q) - n : rest[i] = q[n + i] /\ n + i \in 1 .. Len(q)
  BY <1>1, <1>2
<1>. HIDE DEF first, rest
<1>5. pr \in PeerRecords(sent'[p], sent'[Other(p)]) /\ ChannelOK(pr) /\ Develops(peer[p], pr)
  BY DEF Successor
<1>6. /\ new \in PeerRecords(sent'[p], sent'[Other(p)])
      /\ new.queue = rest /\ new.state = pr.state
      /\ new.expected = pr.expected /\ new.buffered = pr.buffered /\ new.ordered = pr.ordered
      /\ new.outgoing_session_id = pr.outgoing_session_id
      /\ new.incoming_session_id = pr.incoming_session_id
  <2>. HIDE DEF C
  <2>1. rest \in Seq(Commands(sent'[p]))
    BY <1>4 DEF C
  <2>. QED
    BY <1>5, <2>1 DEF PeerRecords
<1>7. peer' = [peer EXCEPT ![p] = new] /\ wire' = IF n = 0 THEN wire ELSE wire \cup {d}
  BY DEF Transmit, rest, first
<1>. HIDE DEF new, q, C
<1>8. ChannelOK(new) /\ Develops(peer[p], new) /\ Develops(pr, new)
  BY <1>5, <1>6 DEF ChannelOK, Develops, Settled
<1>9. ASSUME restarts = 0
      PROVE  /\ QueueTruthful(new, rem) /\ Agrees(new, rem)
             /\ \A i \in 1 .. n : Truthful(first[i], new, rem)
  <2>1. QueueTruthful(pr, rem) /\ Agrees(pr, rem)
    BY <1>9 DEF Successor
  <2>2. \A i \in 1 .. Len(q) : Truthful(q[i], new, rem)
    BY <1>8, <2>1, TruthIsKept DEF QueueTruthful, q
  <2>3. QueueTruthful(new, rem)
    BY <1>4, <1>6, <2>2 DEF QueueTruthful
  <2>4. Agrees(new, rem)
    BY <1>6, <2>1 DEF Agrees
  <2>5. \A i \in 1 .. n : Truthful(first[i], new, rem)
    BY <1>3, <2>2
  <2>. QED
    BY <2>3, <2>4, <2>5
<1>10. Successor(p, new)
  BY <1>6, <1>8, <1>9 DEF Successor
<1>11. CASE n = 0
  <2>1. wire' = wire
    BY <1>7, <1>11
  <2>2. OnePeerChanges(p, new)
    BY <1>7, <2>1 DEF OnePeerChanges
  <2>. QED
    BY <1>10, <2>1, <2>2, PeerStep
<1>12. CASE n # 0
  <2>1. d.to = Other(p) /\ d.commands = first /\ DOMAIN d = {"to", "commands"}
    OBVIOUS
  <2>. HIDE DEF d
  <2>2. wire' = wire \cup {d}
    BY <1>7, <1>12
  <2>3. OnePeerChanges(p, new)
    BY <1>7, <2>1, <2>2 DEF OnePeerChanges
  <2>4. DatagramOK(d, Commands(sent'[p]))
    BY <1>2, <1>3, <1>12, <2>1, OtherEnd DEF DatagramOK, C
  <2>5. restarts = 0 => \A i \in 1 .. Len(d.commands) :
                           Truthful(d.commands[i], new, peer[Other(p)])
    BY <1>3, <1>9, <2>1
  <2>. QED
    BY <1>10, <2>2, <2>3, <2>4, <2>5, PeerStep
<1>. QED
  BY <1>11, <1>12

-----------------------------------------------------------------------------
(* The actions. *)

(* A step without a new message.                                            *)
LEMMA LogsUnchanged ==
    ASSUME LinkIndInv, sent' = sent
    PROVE  LogsGrow
BY DEF LinkIndInv, Counted, LogsGrow

(* A peer as it stands.                                                     *)
LEMMA SuccessorOfItself ==
    ASSUME LinkIndInv, LogsGrow, NEW p \in Peers
    PROVE  Successor(p, peer[p])
<1>1. peer[p] \in PeerRecords(sent'[p], sent'[Other(p)]) /\ ChannelOK(peer[p])
  <2>1. peer[p] \in PeerRecords(sent[p], sent[Other(p)]) /\ ChannelOK(peer[p])
    BY DEF LinkIndInv, PeersOK
  <2>2. /\ Commands(sent[p]) \subseteq Commands(sent'[p])
        /\ Ordered(sent[Other(p)]) \subseteq Ordered(sent'[Other(p)])
    BY OtherEnd DEF LogsGrow
  <2>. QED
    BY <2>1, <2>2, RecordsGrow
<1>2. restarts = 0 => QueueTruthful(peer[p], peer[Other(p)]) /\ Agrees(peer[p], peer[Other(p)])
  BY DEF LinkIndInv, SessionsAgree
<1>. QED
  BY <1>1, <1>2 DEF Successor, Develops

(* A command queued on top of it.                                           *)
LEMMA SuccessorEnqueues ==
    ASSUME NEW p \in Peers, NEW pr, Successor(p, pr), NEW c \in Commands(sent'[p]),
           Truthful(c, pr, peer[Other(p)]), NEW new, new = Enqueue(pr, c)
    PROVE  Successor(p, new)
<1>1. pr \in PeerRecords(sent'[p], sent'[Other(p)]) /\ ChannelOK(pr) /\ Develops(peer[p], pr)
  BY DEF Successor
<1>2. /\ new \in PeerRecords(sent'[p], sent'[Other(p)]) /\ ChannelOK(new)
      /\ new.queue = Append(pr.queue, c) /\ new.state = pr.state
      /\ new.expected = pr.expected
      /\ new.outgoing_session_id = pr.outgoing_session_id
      /\ new.incoming_session_id = pr.incoming_session_id
  BY <1>1, Enqueued
<1>3. Develops(pr, new) /\ Develops(peer[p], new)
  BY <1>1, <1>2 DEF Develops, Settled
<1>4. ASSUME restarts = 0
      PROVE  QueueTruthful(new, peer[Other(p)]) /\ Agrees(new, peer[Other(p)])
  <2>1. QueueTruthful(pr, peer[Other(p)]) /\ Agrees(pr, peer[Other(p)])
    BY <1>4 DEF Successor
  <2>2. Truthful(c, new, peer[Other(p)])
    BY <1>3, TruthIsKept
  <2>3. pr.queue \in Seq(Commands(sent'[p]))
    BY <1>1 DEF PeerRecords
  <2>4. QueueTruthful(new, peer[Other(p)])
    BY <1>2, <1>3, <2>1, <2>2, <2>3, TruthOfLonger
  <2>. QED
    BY <1>2, <2>1, <2>4 DEF Agrees
<1>. QED
  BY <1>2, <1>3, <1>4 DEF Successor

(* A change of state that is no ConnectionSucceeded and no way back.        *)
LEMMA SuccessorMoves ==
    ASSUME NEW p \in Peers, NEW pr, Successor(p, pr), NEW st \in PeerStates,
           st = pr.state \/ st # "ConnectionSucceeded", Settled(pr) => st \notin {"Idle", "Connecting"},
           NEW new, new = WithSession(pr, st, pr.incoming_session_id)
    PROVE  Successor(p, new)
<1>1. pr \in PeerRecords(sent'[p], sent'[Other(p)]) /\ ChannelOK(pr) /\ Develops(peer[p], pr)
  BY DEF Successor
<1>2. pr.incoming_session_id \in SessionIds \cup {0}
  BY <1>1 DEF PeerRecords
<1>3. /\ new \in PeerRecords(sent'[p], sent'[Other(p)]) /\ ChannelOK(new)
      /\ new.queue = pr.queue /\ new.state = st
      /\ new.expected = pr.expected
      /\ new.outgoing_session_id = pr.outgoing_session_id
      /\ new.incoming_session_id = pr.incoming_session_id
  BY <1>1, <1>2, StateUpdated
<1>4. Develops(pr, new) /\ Develops(peer[p], new)
  BY <1>1, <1>3 DEF Develops, Settled
<1>5. ASSUME restarts = 0
      PROVE  QueueTruthful(new, peer[Other(p)]) /\ Agrees(new, peer[Other(p)])
  <2>1. QueueTruthful(pr, peer[Other(p)]) /\ Agrees(pr, peer[Other(p)])
    BY <1>5 DEF Successor
  <2>2. QueueTruthful(new, peer[Other(p)])
    BY <1>3, <1>4, <2>1, TruthOfSame
  <2>. QED
    BY <1>3, <2>1, <2>2 DEF Agrees
<1>. QED
  BY <1>3, <1>4, <1>5 DEF Successor

(* Peer::new.                                                               *)
LEMMA NewIsOK ==
    ASSUME NEW id \in SessionIds, NEW log, NEW other
    PROVE  /\ NewPeer(id) \in PeerRecords(log, other) /\ ChannelOK(NewPeer(id))
           /\ NewPeer(id).queue = << >> /\ NewPeer(id).state = "Idle"
<1>1. [s \in {} |-> 0] \in Buffers /\ DOMAIN [s \in {} |-> 0] = {}
  BY DEF Buffers
<1>2. << >> \in Seq(Commands(log)) /\ << >> \in Seq(Ordered(other)) /\ << >> \in Seq(Nat)
  OBVIOUS
<1>3. NewPeer(id) \in PeerRecords(log, other)
  BY <1>1, <1>2 DEF NewPeer, PeerRecords, PeerStates
<1>4. ChannelOK(NewPeer(id))
  BY <1>1 DEF NewPeer, ChannelOK
<1>. QED
  BY <1>3, <1>4 DEF NewPeer

(* Two new peers.                                                           *)
LEMMA InitEstablishesInv == Init => LinkIndInv
<1>1. SUFFICES ASSUME Init PROVE LinkIndInv
  OBVIOUS
<1>2. PICK id \in [Peers -> SessionIds] : peer = [p \in Peers |-> NewPeer(id[p])]
  BY <1>1 DEF Init
<1>3. ASSUME NEW p \in Peers
      PROVE  /\ peer[p] \in PeerRecords(sent[p], sent[Other(p)]) /\ ChannelOK(peer[p])
             /\ peer[p].queue = << >> /\ peer[p].state = "Idle"
  <2>1. peer[p] = NewPeer(id[p]) /\ id[p] \in SessionIds
    BY <1>2
  <2>. QED
    BY <2>1, NewIsOK
<1>4. PeersOK
  BY <1>3 DEF PeersOK
<1>5. Counted
  BY <1>1, <1>2 DEF Init, Counted
<1>6. WireOK
  BY <1>1 DEF Init, WireOK
<1>7. SessionsAgree
  <2>1. \A p \in Peers : QueueTruthful(peer[p], peer[Other(p)]) /\ Agrees(peer[p], peer[Other(p)])
    BY <1>3 DEF QueueTruthful, Agrees
  <2>. QED
    BY <1>1, <2>1 DEF Init, SessionsAgree
<1>. QED
  BY <1>4, <1>5, <1>6, <1>7 DEF LinkIndInv

(* record_send, with the CONNECT of initiate_connect.                       *)
LEMMA SendRecorded ==
    ASSUME LinkIndInv, LogsGrow, NEW p \in Peers, NEW new, new = AfterRecordSend(peer[p])
    PROVE  Successor(p, new)
<1>. DEFINE pr == peer[p]
            st == RecordSend(pr.state)
            begun == WithSession(pr, st, pr.incoming_session_id)
            c == Connect(pr.outgoing_session_id)
<1>1. Successor(p, pr)
  BY SuccessorOfItself
<1>2. pr \in PeerRecords(sent'[p], sent'[Other(p)])
  BY <1>1 DEF Successor
<1>3. pr.state \in PeerStates /\ pr.outgoing_session_id \in SessionIds
  BY <1>2 DEF PeerRecords
<1>4. /\ st \in PeerStates /\ (st = pr.state \/ st # "ConnectionSucceeded")
      /\ Settled(pr) => st \notin {"Idle", "Connecting"}
  BY <1>3 DEF RecordSend, PeerStates, Settled
<1>5. new = IF Handshake /\ pr.state = "Idle" THEN Enqueue(begun, c) ELSE begun
  <2>1. [pr EXCEPT !.state = RecordSend(@)] = begun
    BY <1>2 DEF WithSession, PeerRecords
  <2>. QED
    BY <2>1 DEF AfterRecordSend
<1>6. begun.outgoing_session_id = pr.outgoing_session_id
  BY <1>2 DEF WithSession, PeerRecords
<1>7. c \in Commands(sent'[p]) /\ c \in Requests /\ c \notin Answers
      /\ c.outgoing_session_id = pr.outgoing_session_id
  <2>1. c \in Requests
    BY <1>3 DEF Requests
  <2>2. c \notin Answers
    BY <2>1, KnownByType
  <2>. QED
    BY <2>1, <2>2 DEF Commands, Connect
<1>8. Successor(p, begun)
  <2>. HIDE DEF pr, st
  <2>. QED
    BY <1>1, <1>4, SuccessorMoves
<1>. HIDE DEF begun, c, pr, st
<1>9. Truthful(c, begun, peer[Other(p)])
  BY <1>6, <1>7 DEF Truthful
<1>. QED
  BY <1>5, <1>7, <1>8, <1>9, SuccessorEnqueues

(* Host::send and process_event.                                            *)
LEMMA SendKeepsInv ==
    ASSUME LinkIndInv, NEW p \in Peers, NEW mode \in Modes, Send(p, mode)
    PROVE  LinkIndInv'
<1>1. sent \in [Peers -> Seq(Modes)]
  BY DEF LinkIndInv, Counted
<1>2. sent' = [sent EXCEPT ![p] = Append(sent[p], mode)] /\ restarts' = restarts
  BY DEF Send
<1>3. sent'[p] = Append(sent[p], mode) /\ \A q \in Peers : q # p => sent'[q] = sent[q]
  BY <1>1, <1>2
<1>4. /\ Commands(sent[p]) \subseteq Commands(sent'[p])
      /\ Ordered(sent[p]) \subseteq Ordered(sent'[p])
      /\ SendReliable(mode, Len(sent[p]) + 1) \in Commands(sent'[p])
  <2>1. sent[p] \in Seq(Modes)
    BY <1>1
  <2>. QED
    BY <1>3, <2>1, CommandsGrow
<1>5. LogsGrow
  <2>1. sent' \in [Peers -> Seq(Modes)]
    BY <1>1, <1>2
  <2>. QED
    BY <1>3, <1>4, <2>1 DEF LogsGrow
<1>. DEFINE begun == AfterRecordSend(peer[p])
            c == SendReliable(mode, Len(sent[p]) + 1)
            pr == Enqueue(begun, c)
<1>6. Successor(p, begun)
  BY <1>5, SendRecorded
<1>7. Truthful(c, begun, peer[Other(p)])
  BY KnownByType DEF Truthful
<1>8. PICK n \in 0 .. Len(pr.queue) : Transmit(p, pr, n)
  BY DEF Send
<1>. HIDE DEF begun, c
<1>9. Successor(p, pr)
  BY <1>4, <1>6, <1>7, SuccessorEnqueues DEF c
<1>. HIDE DEF pr
<1>. QED
  BY <1>2, <1>5, <1>8, <1>9, Transmitted

(* update.                                                                  *)
LEMMA UpdateKeepsInv ==
    ASSUME LinkIndInv, NEW p \in Peers, Update(p)
    PROVE  LinkIndInv'
<1>1. sent' = sent /\ restarts' = restarts
  BY DEF Update
<1>2. LogsGrow
  BY <1>1, LogsUnchanged
<1>3. Successor(p, peer[p])
  BY <1>2, SuccessorOfItself
<1>4. PICK n \in 1 .. Len(peer[p].queue) : Transmit(p, peer[p], n)
  BY DEF Update
<1>5. n \in 0 .. Len(peer[p].queue)
  BY <1>4
<1>. DEFINE pr == peer[p]
<1>6. Successor(p, pr) /\ n \in 0 .. Len(pr.queue) /\ Transmit(p, pr, n)
  BY <1>3, <1>4, <1>5
<1>. HIDE DEF pr
<1>. QED
  BY <1>1, <1>2, <1>6, Transmitted

(* Host::disconnect.                                                        *)
LEMMA DisconnectKeepsInv ==
    ASSUME LinkIndInv, NEW p \in Peers, Disconnect(p)
    PROVE  LinkIndInv'
<1>. DEFINE pr == peer[p]
            st == DisconnectedLocally(pr.state)
            mid == WithSession(pr, st, pr.incoming_session_id)
            new == Enqueue(mid, DisconnectCommand)
<1>1. sent' = sent /\ restarts' = restarts /\ wire' = wire
  BY DEF Disconnect
<1>2. LogsGrow
  BY <1>1, LogsUnchanged
<1>3. Successor(p, pr)
  BY <1>2, SuccessorOfItself
<1>4. pr \in PeerRecords(sent'[p], sent'[Other(p)])
  BY <1>3 DEF Successor
<1>5. /\ st \in PeerStates /\ (st = pr.state \/ st # "ConnectionSucceeded")
      /\ Settled(pr) => st \notin {"Idle", "Connecting"}
  <2>1. pr.state \in PeerStates
    BY <1>4 DEF PeerRecords
  <2>. QED
    BY <2>1 DEF DisconnectedLocally, IsDisconnecting, PeerStates, Settled
<1>6. Successor(p, mid)
  <2>. HIDE DEF pr, st
  <2>. QED
    BY <1>3, <1>5, SuccessorMoves
<1>7. DisconnectCommand \in Commands(sent'[p])
      /\ Truthful(DisconnectCommand, mid, peer[Other(p)])
  BY KnownByType DEF Commands, Truthful
<1>8. peer' = [peer EXCEPT ![p] = new]
  <2>1. [pr EXCEPT !.state = DisconnectedLocally(@)] = mid
    BY <1>4 DEF WithSession, PeerRecords
  <2>2. peer' = [peer EXCEPT ![p] = StartDisconnect(pr)]
    BY DEF Disconnect
  <2>. QED
    BY <2>1, <2>2 DEF StartDisconnect
<1>. HIDE DEF mid
<1>9. Successor(p, new)
  BY <1>6, <1>7, SuccessorEnqueues
<1>. HIDE DEF new
<1>10. OnePeerChanges(p, new)
  BY <1>1, <1>8 DEF OnePeerChanges
<1>. QED
  BY <1>1, <1>2, <1>9, <1>10, PeerStep

(* A datagram arrives, once or again.                                       *)
LEMMA ReceiveKeepsInv ==
    ASSUME LinkIndInv, NEW d \in wire, Receive(d)
    PROVE  LinkIndInv'
<1>. DEFINE p == d.to
            cs == d.commands
            pr == peer[p]
            rem == peer[Other(p)]
            new == ProcessPacket(pr, cs)
<1>1. sent' = sent /\ restarts' = restarts /\ wire' \subseteq wire
  BY DEF Receive
<1>2. LogsGrow
  BY <1>1, LogsUnchanged
<1>3. p \in Peers /\ cs \in Seq(Commands(sent[Other(p)]))
  BY DEF LinkIndInv, WireOK
<1>4. peer' = [peer EXCEPT ![p] = new]
  BY DEF Receive
<1>5. pr \in PeerRecords(sent[p], sent[Other(p)]) /\ ChannelOK(pr)
  BY <1>3 DEF LinkIndInv, PeersOK
<1>6. restarts = 0 => TrueDatagram(cs, pr, rem)
  BY <1>3 DEF LinkIndInv, SessionsAgree, TrueDatagram
<1>. HIDE DEF p, cs, pr, rem
<1>7. /\ new \in PeerRecords(sent[p], sent[Other(p)]) /\ ChannelOK(new) /\ Develops(pr, new)
      /\ TrueDatagram(cs, pr, rem) => QueueTruthful(new, rem) /\ Agrees(new, rem)
  BY <1>3, <1>5, PacketProcessed
<1>. HIDE DEF new
<1>8. Successor(p, new)
  BY <1>1, <1>6, <1>7 DEF Successor, pr, rem
<1>9. OnePeerChanges(p, new)
  BY <1>1, <1>4 DEF OnePeerChanges
<1>. QED
  BY <1>1, <1>2, <1>3, <1>8, <1>9, PeerStep

(* Fewer datagrams on the wire, or the same.                                *)
LEMMA FewerDatagrams ==
    ASSUME LinkIndInv, UNCHANGED <<peer, sent, restarts>>, wire' \subseteq wire
    PROVE  LinkIndInv'
<1>1. LogsGrow
  BY LogsUnchanged
<1>2. PICK p \in Peers : TRUE
  BY LinkAssumption, FS_EmptySet
<1>. DEFINE pr == peer[p]
<1>3. Successor(p, pr)
  BY <1>1, SuccessorOfItself
<1>4. OnePeerChanges(p, pr)
  BY DEF OnePeerChanges, LinkIndInv, Counted
<1>. HIDE DEF pr
<1>. QED
  BY <1>1, <1>3, <1>4, PeerStep

(* A session is dropped and created again: the agreement ends, the peer is  *)
(* a new one.                                                               *)
LEMMA RestartKeepsInv ==
    ASSUME LinkIndInv, NEW p \in Peers, NEW id \in SessionIds, Restart(p, id)
    PROVE  LinkIndInv'
<1>. DEFINE new == NewPeer(id)
<1>1. sent' = sent /\ wire' = wire /\ restarts' = restarts + 1
  BY DEF Restart
<1>2. LogsGrow
  BY <1>1, LogsUnchanged
<1>3. new \in PeerRecords(sent'[p], sent'[Other(p)]) /\ ChannelOK(new)
  BY NewIsOK
<1>4. OnePeerChanges(p, new)
  BY <1>1 DEF OnePeerChanges, Restart
<1>. HIDE DEF new
<1>5. Counted /\ PeersOK /\ WireOK
  BY DEF LinkIndInv
<1>6. PeersOK'
  BY <1>2, <1>3, <1>4, <1>5, PeersStayOK
<1>7. WireOK'
  BY <1>1, <1>2, <1>5, WireStaysOK
<1>8. Counted' /\ restarts' # 0
  <2>1. restarts' \in Nat /\ restarts' # 0
    BY <1>1, <1>5 DEF Counted
  <2>2. peer' = [q \in Peers |-> peer'[q]]
    BY <1>4, <1>5 DEF Counted, OnePeerChanges
  <2>. QED
    BY <1>2, <2>1, <2>2 DEF Counted, LogsGrow
<1>. QED
  BY <1>6, <1>7, <1>8 DEF LinkIndInv

(* Every step keeps the inductive invariant.                                *)
LEMMA NextKeepsInv == LinkIndInv /\ [Next]_vars => LinkIndInv'
<1>1. SUFFICES ASSUME LinkIndInv, [Next]_vars PROVE LinkIndInv'
  OBVIOUS
<1>2. ASSUME NEW p \in Peers, NEW mode \in Modes, Send(p, mode) PROVE LinkIndInv'
  BY <1>1, <1>2, SendKeepsInv
<1>3. ASSUME NEW p \in Peers, Update(p) PROVE LinkIndInv'
  BY <1>1, <1>3, UpdateKeepsInv
<1>4. ASSUME NEW p \in Peers, Disconnect(p) PROVE LinkIndInv'
  BY <1>1, <1>4, DisconnectKeepsInv
<1>5. ASSUME NEW p \in Peers, NEW id \in SessionIds, Restart(p, id) PROVE LinkIndInv'
  BY <1>1, <1>5, RestartKeepsInv
<1>6. ASSUME NEW d \in wire, Receive(d) PROVE LinkIndInv'
  BY <1>1, <1>6, ReceiveKeepsInv
<1>7. ASSUME NEW d \in wire, Lose(d) PROVE LinkIndInv'
  BY <1>1, <1>7, FewerDatagrams DEF Lose
<1>8. CASE UNCHANGED vars
  BY <1>1, <1>8, FewerDatagrams DEF vars
<1>. QED
  BY <1>1, <1>2, <1>3, <1>4, <1>5, <1>6, <1>7, <1>8 DEF Next

(* The inductive invariant holds of every state two peers can reach.        *)
LEMMA LinkInductive == Spec => []LinkIndInv
BY InitEstablishesInv, NextKeepsInv, PTL DEF Spec

-----------------------------------------------------------------------------
(* The theorems. *)

(* Whatever is lost, repeated, reordered or restarted, peers and datagrams  *)
(* stay well formed.                                                        *)
THEOREM LinkTypes == Spec => []TypeOK
<1>1. LinkIndInv => TypeOK
  <2>1. SUFFICES ASSUME LinkIndInv PROVE TypeOK
    OBVIOUS
  <2>2. Counted /\ PeersOK /\ WireOK
    BY <2>1 DEF LinkIndInv
  <2>3. 0 \in SequenceNumber /\ 1 \in SequenceNumber
    BY HalfRangeAssumption DEF SequenceNumber, Modulus
  <2>4. ASSUME NEW p \in Peers
        PROVE  /\ peer[p].state \in PeerStates
               /\ peer[p].outgoing_session_id \in SessionIds
               /\ peer[p].incoming_session_id \in SessionIds \cup {0}
               /\ peer[p].expected \in SequenceNumber
    <3>1. peer[p] \in PeerRecords(sent[p], sent[Other(p)])
      BY <2>2 DEF PeersOK
    <3>. QED
      BY <2>3, <3>1 DEF PeerRecords
  <2>. QED
    BY <2>2, <2>4 DEF TypeOK, Counted, WireOK
<1>. QED
  BY <1>1, LinkInductive, PTL

(* Ordered data reaches the application only if the other end sent it as    *)
(* such, and at most once in a session, for any number of messages, losses, *)
(* copies and restarts.                                                     *)
THEOREM OrderedOnceCorrect == Spec => []OrderedAtMostOnce
<1>1. LinkIndInv => OrderedAtMostOnce
  <2>1. SUFFICES ASSUME LinkIndInv, NEW p \in Peers
                 PROVE  /\ ToSet(peer[p].ordered) \subseteq Messages(Other(p), "ordered")
                        /\ IsInjective(peer[p].ordered)
    BY DEF OrderedAtMostOnce
  <2>. DEFINE o == peer[p].ordered
  <2>2. o \in Seq(Ordered(sent[Other(p)])) /\ Len(o) <= 1
    BY <2>1 DEF LinkIndInv, PeersOK, PeerRecords, ChannelOK
  <2>. HIDE DEF o
  <2>3. Messages(Other(p), "ordered") = Ordered(sent[Other(p)])
    BY DEF Messages, Ordered
  <2>4. ToSet(o) \subseteq Messages(Other(p), "ordered")
    BY <2>2, <2>3 DEF ToSet
  <2>5. DOMAIN o = 1 .. Len(o) /\ Len(o) \in Nat
    BY <2>2
  <2>6. \A i, j \in DOMAIN o : i = j
    BY <2>2, <2>5
  <2>7. IsInjective(o)
    BY <2>6 DEF IsInjective
  <2>. QED
    BY <2>4, <2>7 DEF o
<1>. QED
  BY <1>1, LinkInductive, PTL

(* As long as no session was dropped, a client that process_command made    *)
(* ConnectionSucceeded holds the same session id as its server, which took  *)
(* this client's CONNECT.                                                   *)
THEOREM AgreementUntilRestart == Spec => [](restarts = 0 => AgreeOnSession)
<1>1. LinkIndInv => (restarts = 0 => AgreeOnSession)
  BY DEF LinkIndInv, SessionsAgree, Agrees, AgreeOnSession
<1>. QED
  BY <1>1, LinkInductive, PTL

(* Where no session is dropped, everything a handshake promises: peers well *)
(* formed, agreement, and at most one delivery of ordered data.             *)
THEOREM LinkCorrect ==
    ASSUME MaxRestarts = 0
    PROVE  Spec => []LinkInv
<1>1. Init => restarts = 0
  BY DEF Init
<1>2. restarts = 0 /\ [Next]_vars => (restarts = 0)'
  BY DEF Next, vars, Send, Update, Disconnect, Restart, Receive, Lose
<1>3. Spec => [](restarts = 0)
  BY <1>1, <1>2, PTL DEF Spec
<1>4. TypeOK /\ OrderedAtMostOnce /\ AgreeOnSession => LinkInv
  BY DEF LinkInv
<1>. QED
  BY <1>3, <1>4, LinkTypes, OrderedOnceCorrect, AgreementUntilRestart, PTL
=============================================================================
