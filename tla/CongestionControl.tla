------------------------- MODULE CongestionControl -------------------------
(***************************************************************************)
(* Round-trip estimate, loss counters and throttle of one connection       *)
(* (bitfold-protocol/src/congestion.rs), as operators on a record.  Times  *)
(* are milliseconds; elapsed is the time since last_throttle_update.       *)
(* The throttle, an f32 between 0 and 1, is counted in steps of            *)
(* 1/(20 * Scale), so that both algorithms move it by whole steps.         *)
(***************************************************************************)
EXTENDS Integers

CONSTANTS
    WordMax,                              \* u32::MAX
    Scale, Acceleration, Deceleration, Interval   \* Config::throttle_*

ASSUME CongestionAssumption ==
    /\ WordMax \in Nat /\ Scale \in 1 .. WordMax
    /\ {Acceleration, Deceleration, Interval} \subseteq 0 .. WordMax

FullThrottle == 20 * Scale                \* a drop probability of 1.0

Fraction(num, den) == num \div den        \* f32 to whole milliseconds
Distance(a, b) == IF a > b THEN a - b ELSE b - a
Lesser(a, b) == IF a < b THEN a ELSE b
Greater(a, b) == IF a > b THEN a ELSE b

(* new, then enable_advanced_throttling when the configuration asks for it. *)
NewCongestion(advanced) ==
    [rtt |-> 50, rtt_variance |-> 25, packets_lost |-> 0, packets_sent |-> 0,
     throttle |-> 0, elapsed |-> 0, advanced |-> advanced, packet_throttle |-> Scale,
     interval |-> IF advanced THEN Interval ELSE 1000,
     acceleration |-> IF advanced THEN Acceleration ELSE 2,
     deceleration |-> IF advanced THEN Deceleration ELSE 2]

(* update_rtt: the moving averages with weights 0.1 and 0.25, truncated.    *)
(* 1.0 - 0.1 and the products are rounded to f32, so an average that is a   *)
(* whole number may come out just below it and lose one millisecond; the    *)
(* weights 0.75 and 0.25 are exact.                                         *)
UpdateRttUnsigned(cc, sample) ==
    {[cc EXCEPT !.rtt = @ + Fraction(Distance(@, sample), 10)]}

UpdateRtt(cc, sample) ==
    LET tenths == 9 * cc.rtt + sample
        variance == Fraction(3 * cc.rtt_variance + Distance(cc.rtt, sample), 4)
        rounded == IF tenths % 10 = 0 /\ tenths > 0 THEN {0, 1} ELSE {0}
    IN  {[cc EXCEPT !.rtt = Fraction(tenths, 10) - low, !.rtt_variance = variance] : low \in rounded}

Rto(cc) == cc.rtt + 4 * cc.rtt_variance

RecordSent(cc, n) == [cc EXCEPT !.packets_sent = @ + n]

RecordLoss(cc, n) == [cc EXCEPT !.packets_lost = @ + n]

(* loss_rate, 0 when nothing was sent, against the threshold 1/den.         *)
LossAbove(cc, den) == cc.packets_sent # 0 /\ cc.packets_lost * den > cc.packets_sent

LossBelow(cc, den) == cc.packets_sent = 0 \/ cc.packets_lost * den < cc.packets_sent

(* update_simple_throttle: up by 0.1 above 5% loss, down by 0.05 below 1%.  *)
UpdateSimple(cc) ==
    CASE LossAbove(cc, 20) ->
            [cc EXCEPT !.throttle = Lesser(@ + 2 * Scale, FullThrottle)]
      [] LossBelow(cc, 100) /\ cc.throttle > 0 ->
            [cc EXCEPT !.throttle = Greater(@ - Scale, 0)]
      [] OTHER -> cc

(* update_advanced_throttle: down by deceleration above 1% loss, up by      *)
(* acceleration below 0.5%.  The sum is a u32 and wraps in a release build. *)
SlowDown(cc) ==
    [cc EXCEPT !.packet_throttle = IF @ > cc.deceleration THEN @ - cc.deceleration ELSE 0]

SpeedUp(cc) ==
    [cc EXCEPT !.packet_throttle = Lesser((@ + cc.acceleration) % (WordMax + 1), Scale)]

PacketThrottle(cc) ==
    CASE LossAbove(cc, 100) -> SlowDown(cc)
      [] LossBelow(cc, 200) /\ cc.packet_throttle < Scale -> SpeedUp(cc)
      [] OTHER -> cc

UpdateAdvanced(cc) ==
    LET moved == PacketThrottle(cc)
    IN  [moved EXCEPT !.throttle = FullThrottle - 20 * moved.packet_throttle]

(* update_throttle, once the interval is over.                              *)
CanUpdate(cc) == cc.elapsed >= cc.interval

UpdateKeepingCounters(cc) ==
    [(IF cc.advanced THEN UpdateAdvanced(cc) ELSE UpdateSimple(cc)) EXCEPT !.elapsed = 0]

UpdateThrottle(cc) ==
    [(IF cc.advanced THEN UpdateAdvanced(cc) ELSE UpdateSimple(cc))
        EXCEPT !.packets_lost = 0, !.packets_sent = 0, !.elapsed = 0]

(* should_drop_unreliable draws against the throttle.                       *)
MayDropUnreliable(cc) == cc.throttle # 0

ConfigureThrottle(cc, interval_ms, acceleration, deceleration) ==
    [cc EXCEPT !.interval = interval_ms, !.acceleration = acceleration,
               !.deceleration = deceleration]

=============================================================================
