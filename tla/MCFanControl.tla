---------------------------- MODULE MCFanControl ----------------------------
(* Small instances of FanControl: up to two motherboard headers, one USB fan. *)
EXTENDS FanControl, TLC

CONSTANTS p1, p2, l1, auto, k1, t1

MCFirmware == [f \in PwmFans |-> auto]

Rising == <<[temp |-> 0, percent |-> 20], [temp |-> 4, percent |-> 140]>>

Fan(f, backend, override) ==
  [ fan_id |-> f, backend |-> backend, override |-> override,
    curve_name |-> k1, sensor_id |-> t1 ]

Fans(list, points) ==
  [ fans |-> list, curves |-> k1 :> points, floor |-> 30 ]

(* Speeds: one header and the USB fan. *)
OnCurve == Fans(<<Fan(p1, "hwmon-pwm", None), Fan(l1, "liquidctl", None)>>, Rising)
ByHand  == Fans(<<Fan(l1, "liquidctl", None), Fan(p1, "hwmon-pwm", 150)>>, Rising)

(* A header filed under the wrong back end, as POST accepts it. *)
WrongBackend == Fans(<<Fan(p1, "liquidctl", None)>>, Rising)

(* Edited by hand: a wrong back end, and a curve without points. *)
Edited == Fans(<<Fan(p1, "liquidctl", 150), Fan(l1, "liquidctl", None)>>, <<>>)

SpeedSaved == {OnCurve, ByHand, WrongBackend}
SpeedFiles == {Edited}

(* Liveness: the same fans, fewer configurations. *)
LiveSaved == {OnCurve, ByHand}

(* Control modes: two headers, one speed. *)
BothHeaders == Fans(<<Fan(p1, "hwmon-pwm", 40), Fan(p2, "hwmon-pwm", 40)>>, Rising)
OneHeader   == Fans(<<Fan(p2, "hwmon-pwm", 40)>>, Rising)
NoFans      == Fans(<<>>, Rising)

ControlSaved == {BothHeaders, OneHeader}
ControlFiles == {NoFans}
=============================================================================
