----------------------------- MODULE HostFacade -----------------------------
(***************************************************************************)
(* The Host of bitfold-host around its SessionManager: the two unbounded   *)
(* channels between the application's threads and the polling thread, the  *)
(* events that a poll collects and publishes when it ends, broadcast, and  *)
(* what the application believes after reading the events in order.        *)
(*                                                                         *)
(* Every step of the polling thread is a step of SessionManager joined     *)
(* with its effect on the channels.  Clones of the packet sender and of    *)
(* the event receiver work from any thread, so Send and Recv interleave    *)
(* with a poll; broadcast, disconnect and manual_poll borrow the Host and  *)
(* do not.  Packet events share the channel; they say nothing about the    *)
(* life cycle and are left out.                                            *)
(***************************************************************************)
EXTENDS SessionManager, SequencesExt

CONSTANTS
    MaxQueued,   \* bound: packets waiting in the user channel
    MaxEvents    \* bound: events left unread when a poll begins, or when it receives

ASSUME FacadeAssumption == MaxQueued \in Nat /\ MaxEvents \in Nat

VARIABLES
    user_events,    \* the user channel: [addr, broadcast]
    pending_events, \* collected by handle_actions during a poll
    event_channel,  \* published by flush
    believed,       \* application: addresses whose last event was Connect
    refused         \* history: the last Connect came from a session not kept

channels == <<user_events, pending_events, event_channel>>
application == <<believed, refused>>
hostVars == <<vars, channels, application>>

Event == [kind : {"Connect", "Timeout", "Disconnect"}, addr : Addr]
UserEvent == [addr : Addr, broadcast : BOOLEAN]

Established == {a \in DOMAIN sessions : IsEstablished(sessions[a].state)}

-----------------------------------------------------------------------------
(* handle_actions pushes the events of one call in order. *)

Emit(events) == pending_events' = pending_events \o events

ConnectEvents(a, before, after) ==
    IF BecameEstablished(before, after) THEN <<[kind |-> "Connect", addr |-> a]>> ELSE << >>

Named(events) == {events[i].addr : i \in DOMAIN events}

DropEventsOfTimeout(a) ==
    IF sessions[a].state = "Zombie" THEN << >> ELSE <<[kind |-> "Timeout", addr |-> a]>>

(* What should_drop emits for one session. *)
DropEvents(a) ==
    IF sessions[a].state = "Zombie" THEN <<[kind |-> "Disconnect", addr |-> a]>>
    ELSE <<[kind |-> "Timeout", addr |-> a]>> \o
         IF IsEstablished(sessions[a].state)
         THEN <<[kind |-> "Disconnect", addr |-> a]>> ELSE << >>

-----------------------------------------------------------------------------
(* The polling thread. *)

PollBegins ==
    /\ Len(event_channel) <= MaxEvents
    /\ BeginPoll
    /\ UNCHANGED <<channels, application>>

PollReceives ==
    /\ Len(pending_events) <= MaxEvents
    /\ \E a \in Addr : ReceiveDatagram(a)
    /\ UNCHANGED <<channels, application>>

PollCommand ==
    /\ ReceiveConnect \/ ReceiveVerifyConnect \/ ReceiveDisconnect \/ ReceiveOther
    /\ UNCHANGED <<channels, application>>

(* The events of process_packet are handled before the limits decide        *)
(* whether a new session is kept.                                           *)
PollFinishes ==
    /\ pc = "commands"
    /\ \E ok \in BOOLEAN :
          LET a == current.addr
              events == ConnectEvents(a, current.session.state, AfterRecord(ok).state)
          IN  /\ ok \/ MayFail
              /\ Emit(events)
              /\ \/ (FinishKnown(ok) \/ FinishAccepted(ok)) /\ refused' = refused \ Named(events)
                 \/ FinishRefused(ok) /\ refused' = refused \cup Named(events)
    /\ UNCHANGED <<user_events, event_channel, believed>>

PollEndsReceive == EndReceive /\ UNCHANGED <<channels, application>>

(* The loop over user events: on a session of the table, on a new one, or   *)
(* skipped because the IP has all the sessions it may have.                 *)
PollUserEvent ==
    /\ pc = "user" /\ user_events # << >>
    /\ LET a == Head(user_events).addr
       IN  \/ /\ UserEventKnown(a)
              /\ Emit(ConnectEvents(a, sessions[a].state, sessions'[a].state))
           \/ /\ UserEventNew(a)
              /\ Emit(ConnectEvents(a, "Idle", sessions'[a].state))
           \/ /\ a \notin DOMAIN sessions /\ ~CanAcceptDuplicate(a)
              /\ UNCHANGED <<vars, pending_events>>
    /\ user_events' = Tail(user_events)
    /\ UNCHANGED <<event_channel, application>>

SomeProcessed == TRUE

(* while let Ok(event) = try_recv(): the loop ends on an empty channel.     *)
AllProcessed == user_events = << >>

(* Then update and should_drop on every session, in the table's order.      *)
PollCollectsDrops ==
    /\ AllProcessed
    /\ CollectDrops
    /\ \E order \in SetToSeqs(to_drop') :
          Emit(FlattenSeq([i \in 1 .. Len(order) |-> DropEvents(order[i])]))
    /\ refused' = refused \ to_drop'
    /\ UNCHANGED <<user_events, event_channel, believed>>

PollRemoves ==
    /\ \E a \in to_drop : RemoveSession(a)
    /\ UNCHANGED <<channels, application>>

PublishedReversed == event_channel \o Reverse(pending_events)

(* flush publishes what the poll collected.                                 *)
Published == event_channel \o pending_events

PollEnds ==
    /\ EndPoll
    /\ event_channel' = Published
    /\ pending_events' = << >>
    /\ UNCHANGED <<user_events, application>>

-----------------------------------------------------------------------------
(* The application. *)

(* Host::send and the clones of the packet sender. *)
Send(a) ==
    /\ Len(user_events) < MaxQueued
    /\ user_events' = Append(user_events, [addr |-> a, broadcast |-> FALSE])
    /\ UNCHANGED <<vars, pending_events, event_channel, application>>

(* Host::broadcast: one packet for every established session, in the order  *)
(* of the table.                                                            *)
Broadcast ==
    /\ pc = "idle"
    /\ Established # {}
    /\ Len(user_events) + Cardinality(Established) <= MaxQueued
    /\ \E order \in SetToSeqs(Established) :
          user_events' = user_events \o
             [i \in 1 .. Len(order) |-> [addr |-> order[i], broadcast |-> TRUE]]
    /\ UNCHANGED <<vars, pending_events, event_channel, application>>

(* Host::recv and the clones of the event receiver. *)
Recv ==
    /\ event_channel # << >>
    /\ LET e == Head(event_channel)
       IN  believed' = IF e.kind = "Connect" THEN believed \cup {e.addr}
                       ELSE believed \ {e.addr}
    /\ event_channel' = Tail(event_channel)
    /\ UNCHANGED <<vars, user_events, pending_events, refused>>

HostDisconnect ==
    /\ \E a \in Addr : Disconnect(a)
    /\ UNCHANGED <<channels, application>>

TimePasses == Tick /\ UNCHANGED <<channels, application>>

HostInit ==
    /\ Init
    /\ user_events = << >> /\ pending_events = << >> /\ event_channel = << >>
    /\ believed = {} /\ refused = {}

HostNext ==
    \/ PollBegins \/ PollReceives \/ PollCommand \/ PollFinishes \/ PollEndsReceive
    \/ PollUserEvent \/ PollCollectsDrops \/ PollRemoves \/ PollEnds
    \/ (\E a \in Addr : Send(a)) \/ Broadcast \/ Recv
    \/ HostDisconnect \/ TimePasses

HostSpec == HostInit /\ [][HostNext]_hostVars

(* The polling thread runs its loop to the end, finding the socket and the  *)
(* user channel empty sooner or later, and the application keeps reading.   *)
HostFairness ==
    /\ WF_hostVars(PollBegins) /\ WF_hostVars(PollFinishes)
    /\ SF_hostVars(PollEndsReceive) /\ WF_hostVars(PollUserEvent)
    /\ SF_hostVars(PollCollectsDrops)
    /\ WF_hostVars(PollRemoves) /\ WF_hostVars(PollEnds)
    /\ WF_hostVars(Recv)

FairHostSpec == HostSpec /\ HostFairness

-----------------------------------------------------------------------------
HostTypeOK ==
    /\ TypeOK
    /\ user_events \in Seq(UserEvent) /\ Len(user_events) <= MaxQueued
    /\ pending_events \in Seq(Event) /\ event_channel \in Seq(Event)
    /\ pc = "idle" => pending_events = << >>
    /\ believed \subseteq Addr /\ refused \subseteq Addr

(* An application that has read every event between two polls knows the     *)
(* connections: every established session is one it believes in, and what   *)
(* it believes in has a session, unless the Connect it read was that of a   *)
(* session manual_poll refused to keep.                                     *)
DrainedViewIsRight ==
    pc = "idle" /\ event_channel = << >> =>
        Established \subseteq believed /\ believed \subseteq DOMAIN sessions \cup refused

(* Host::broadcast addresses the sessions of the moment it is called, and   *)
(* none of them is gone when its packet is taken from the channel, so a     *)
(* broadcast never opens a session, whatever other threads send meanwhile.  *)
BroadcastHasSession ==
    \A i \in DOMAIN user_events :
        user_events[i].broadcast => user_events[i].addr \in DOMAIN sessions

(* A session announces Connect once: before another Connect of the same     *)
(* address a Timeout or Disconnect is published, unless the first came from *)
(* a session that was not kept.                                             *)
NoRepeatedConnect ==
    [][\A a \in Addr :
          /\ Len(pending_events') > Len(pending_events)
          /\ Last(pending_events') = [kind |-> "Connect", addr |-> a]
          => a \notin announced \/ a \in refused]_hostVars

(* The end of a session reaches the application: it does not go on          *)
(* believing in an address whose session was removed.                       *)
DepartureIsReported ==
    \A a \in Addr :
        a \in believed /\ a \notin DOMAIN sessions \cup refused
            ~> a \notin believed \/ a \in DOMAIN sessions \cup refused

(* The channels of the Host: well formed at every point of a poll, and a    *)
(* broadcast waits only for sessions that exist.                            *)
FacadeInv == HostTypeOK /\ BroadcastHasSession

=============================================================================
