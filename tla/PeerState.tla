------------------------------ MODULE PeerState ------------------------------
(***************************************************************************)
(* The life cycle of one peer connection: the PeerState enum and the       *)
(* methods of Peer and arms of process_command that move between its       *)
(* states.  Handshake is Config::use_connection_handshake.                 *)
(***************************************************************************)
CONSTANT Handshake

ASSUME HandshakeAssumption == Handshake \in BOOLEAN

PeerStates == {"Idle", "Connecting", "AcknowledgingConnect",
               "ConnectionSucceeded", "Connected", "Disconnecting", "Zombie"}

IsEstablished(state) == state \in {"Connected", "ConnectionSucceeded"}

IsDisconnecting(state) == state \in {"Disconnecting", "Zombie"}

(* Not established, but a packet can still establish it. *)
IsPending(state) == state \in PeerStates /\ ~IsEstablished(state) /\ ~IsDisconnecting(state)

-----------------------------------------------------------------------------
(* Peer::record_send, the state half: an Idle peer starts to connect        *)
(* (initiate_connect when the handshake is on), and the client's first send *)
(* after VERIFY_CONNECT completes its side.                                 *)
RecordSend(state) ==
    CASE state = "Idle" -> "Connecting"
      [] state = "ConnectionSucceeded" -> "Connected"
      [] OTHER -> state

(* Peer::record_recv: without the handshake any packet connects; with it,   *)
(* AcknowledgingConnect is left by whatever packet is recorded next.        *)
RecordRecv(state) ==
    CASE state \in {"Idle", "Connecting"} /\ ~Handshake -> "Connected"
      [] state = "AcknowledgingConnect" -> "Connected"
      [] OTHER -> state

EstablishedNow(before, after) == IsEstablished(after)

(* What record_recv and record_send return: became established just now.    *)
BecameEstablished(before, after) == ~IsEstablished(before) /\ IsEstablished(after)

(* Peer::disconnect, called through Host::disconnect.                       *)
DisconnectedLocally(state) == IF IsDisconnecting(state) THEN state ELSE "Disconnecting"

(* process_command, the arms that change the state: CONNECT is taken by an  *)
(* Idle peer only, VERIFY_CONNECT with the right session id by a Connecting *)
(* one only, DISCONNECT by any.                                             *)
OnConnect(state) == IF state = "Idle" THEN "AcknowledgingConnect" ELSE state

OnVerifyConnect(state) == IF state = "Connecting" THEN "ConnectionSucceeded" ELSE state

OnDisconnect(state) == "Zombie"

=============================================================================
