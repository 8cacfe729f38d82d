--------------------------- MODULE MCPeerControl ---------------------------
(* One peer with the handshake and window flow control on.  Every kind of   *)
(* command is encoded with small, distinct fields and with the largest      *)
(* ones; the remote sends control commands.                                 *)
EXTENDS PeerControl

(* Distinct small values, by field.                                         *)
SmallValue(f, type) ==
    CASE type = "flag" -> TRUE
      [] type = "option" -> NoTime
      [] type = "data" -> <<7, 7, 7, 7, 7, 7>>
      [] type \in {"u8", "u16", "u32"} ->
            CHOOSE n \in 1 .. 15 :
                n = CASE f \in {"channel_id", "channels", "peer_id", "size", "incoming"} -> 1
                      [] f \in {"sequence", "mtu", "unsequenced_group", "token", "outgoing"} -> 2
                      [] f \in {"fragment_id", "received_mask", "incoming_session_id",
                                "interval", "protocol_version"} -> 3
                      [] f \in {"fragment_count", "outgoing_session_id", "acceleration"} -> 4
                      [] OTHER -> 5

LargeValue(f, type) ==
    CASE type = "u8" -> Base - 1
      [] type = "u16" -> U16 - 1
      [] type \in {"u32", "option"} -> U32 - 1
      [] type = "flag" -> FALSE
      [] type = "data" -> << >>

Small(k) == Command(k, [f \in DOMAIN CommandFields[k] |-> SmallValue(f, CommandFields[k][f])])
Large(k) == Command(k, [f \in DOMAIN CommandFields[k] |-> LargeValue(f, CommandFields[k][f])])

Ping(t) == Command("Ping", [timestamp |-> t])

Verify(id, session, window) ==
    Command("VerifyConnect", [peer_id |-> id, channels |-> 1, mtu |-> Mtu,
        incoming_session_id |-> id + 1, outgoing_session_id |-> session, window_size |-> window])

Connect(session) ==
    Command("Connect", [channels |-> 3, mtu |-> Mtu, protocol_version |-> 1,
        outgoing_session_id |-> session, connect_id |-> session * U16])

Limit(n) == Command("BandwidthLimit", [incoming |-> n, outgoing |-> 0])

Throttle(i, a, d) ==
    Command("ThrottleConfigure", [interval |-> i, acceleration |-> a, deceleration |-> d])

Probe == Command("PMTUProbe", [size |-> 9, token |-> 300, payload |-> <<0, 0, 0>>])

Compressible == Command("SendUnreliable", [channel_id |-> 7, data |-> [i \in 1 .. 30 |-> 7]])

MCQueued ==
    {<< >>, <<Compressible>>, [i \in 1 .. 8 |-> Ping(i)]}
        \cup {<<Small(k), Large(k)>> : k \in Kinds} \cup {<<Large(k), Small(k)>> : k \in Kinds}

MCDatagrams ==
    {<<Ping(1), Verify(5, OwnSessionId + 1, 505), Ping(2)>>,
     <<Verify(7, OwnSessionId, 520)>>,
     <<Verify(8, OwnSessionId, 1), Probe>>,
     <<Connect(11)>>, <<Connect(12)>>,
     <<Limit(5)>>,
     <<Throttle(0, U32 - 1, 3)>>, <<Throttle(1000, 1, 2)>>,
     <<Small("Pong"), Small("Disconnect"), Ping(3)>>}

=============================================================================
