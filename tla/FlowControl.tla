---------------------------- MODULE FlowControl ----------------------------
(***************************************************************************)
(* Window flow control (bitfold-peer/src/flow_control.rs) as operators on  *)
(* a record [window_size, reliable_data_in_transit].  MaxU32 is u32::MAX.  *)
(* The loss rate comes as two comparisons with a threshold.                *)
(***************************************************************************)
EXTENDS Integers

CONSTANTS
    MaxU32,
    UseWindowFlowControl, InitialWindow, MinWindow, MaxWindow,
    FragmentSize, MaxPacketsInFlight

ASSUME FlowControlAssumption ==
    /\ MaxU32 \in Nat /\ UseWindowFlowControl \in BOOLEAN
    /\ MinWindow \in Nat \ {0} /\ MaxWindow \in Nat /\ InitialWindow \in MinWindow .. MaxWindow
    /\ FragmentSize \in Nat \ {0} /\ MaxPacketsInFlight \in Nat
    /\ MaxWindow * FragmentSize <= MaxU32

AtMost(a, b) == IF a < b THEN a ELSE b
AtLeast(a, b) == IF a > b THEN a ELSE b

NewFlow == [window_size |-> InitialWindow, reliable_data_in_transit |-> 0]

SetWindowSize(flow, size) ==
    [flow EXCEPT !.window_size = AtMost(AtLeast(size, MinWindow), MaxWindow)]

(* Both counters saturate.                                                  *)
RecordReliableSent(flow, size) ==
    [flow EXCEPT !.reliable_data_in_transit =
        IF size > MaxU32 - @ THEN MaxU32 ELSE @ + size]

RecordAckedWrapping(flow, size) ==
    [flow EXCEPT !.reliable_data_in_transit = (@ - size) % (MaxU32 + 1)]

RecordReliableAcked(flow, size) ==
    [flow EXCEPT !.reliable_data_in_transit = IF size > @ THEN 0 ELSE @ - size]

(* Without a window the limit is on packets in flight.                      *)
CanSendReliable(flow, packets_in_flight) ==
    IF UseWindowFlowControl
    THEN flow.reliable_data_in_transit < (flow.window_size * FragmentSize) % (MaxU32 + 1)
    ELSE packets_in_flight < MaxPacketsInFlight

(* adjust_window_size: up by a 32nd below 1% loss and 200 ms, down by a     *)
(* 16th above 5% loss or 500 ms.                                            *)
AdjustWindowSize(flow, below1, above5, rtt_ms) ==
    CASE ~UseWindowFlowControl -> flow
      [] UseWindowFlowControl /\ below1 /\ rtt_ms < 200 ->
            [flow EXCEPT !.window_size = AtMost(@ + AtLeast(@ \div 32, 1), MaxWindow)]
      [] UseWindowFlowControl /\ ~(below1 /\ rtt_ms < 200) /\ (above5 \/ rtt_ms > 500) ->
            [flow EXCEPT !.window_size = AtLeast(@ - AtLeast(@ \div 16, 1), MinWindow)]
      [] OTHER -> flow

=============================================================================
