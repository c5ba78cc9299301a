----------------------------- MODULE FanPolicy -----------------------------
(***************************************************************************)
(* What speed a fan should have: the pure part of app/controller.py and    *)
(* the percent-to-register conversion of app/hwmon_pwm.py.                 *)
(*                                                                         *)
(* Temperatures are integers in one fixed unit (the kernel reports          *)
(* millidegrees); the quotient that Python computes in floating point is   *)
(* the exact rational here, and round() is round-half-to-even.             *)
(***************************************************************************)
EXTENDS Integers, Sequences

CONSTANT None          \* Python's None: no override, no reading

ASSUME NoneIsNoNumber == None \notin Int

Point == [temp : Int, percent : Int]

ASSUME NoneIsNoCurve == None \notin Seq(Point)

(* A fan configuration record, an application configuration; curves[n] is None *)
(* when no curve has the name n, and the last of that name when several have.  *)
FanEntry(FanIds, CurveNames, SensorIds) ==
  [ fan_id     : FanIds,
    backend    : {"liquidctl", "hwmon-pwm"},
    override   : Int \cup {None},
    curve_name : CurveNames,
    sensor_id  : SensorIds ]

Config(FanIds, CurveNames, SensorIds) ==
  [ fans   : Seq(FanEntry(FanIds, CurveNames, SensorIds)),
    curves : [CurveNames -> {None} \cup Seq(Point)],
    floor  : Int ]

----------------------------------------------------------------------------

(* Python's round(n / d) for a positive d: ties go to the even neighbour. *)
RoundHalfEven(n, d) ==
  LET q == n \div d
      r == n % d
  IN  IF 2 * r < d \/ (2 * r = d /\ q % 2 = 0) THEN q ELSE q + 1

\* Mutation: the right end of a segment is not looked at.
OpenSegments(points, temp) ==
  { i \in 1 .. Len(points) - 1 : points[i].temp <= temp }

(* The indices at which the segment scan of interpolate() would stop. *)
Segments(points, temp) ==
  { i \in 1 .. Len(points) - 1 :
      points[i].temp <= temp /\ temp <= points[i + 1].temp }

(* The scan runs from the left and takes the first one. *)
FirstSegment(points, temp) ==
  CHOOSE i \in Segments(points, temp) :
    \A j \in Segments(points, temp) : i <= j

\* Mutation: the distance is measured from the wrong end.
ReversedChord(lo, hi, temp) ==
  LET width == hi.temp - lo.temp
  IN  RoundHalfEven(lo.percent * width + (hi.temp - temp) * (hi.percent - lo.percent),
                    width)

(* The value of the chord from point lo to point hi at temp. *)
Chord(lo, hi, temp) ==
  LET width == hi.temp - lo.temp
  IN  RoundHalfEven(lo.percent * width + (temp - lo.temp) * (hi.percent - lo.percent),
                    width)

(* interpolate(points, temp) on a curve that has points. *)
Interpolate(points, temp) ==
  LET last == points[Len(points)]
      i    == FirstSegment(points, temp)
  IN  IF temp <= points[1].temp THEN points[1].percent
      ELSE IF temp >= last.temp \/ Segments(points, temp) = {} THEN last.percent
      ELSE Chord(points[i], points[i + 1], temp)

----------------------------------------------------------------------------

(* run_once falls back to the safety floor when the curve or the reading is missing. *)
FollowsCurve(cfg, fc, temps) ==
  /\ fc.override = None
  /\ cfg.curves[fc.curve_name] # None
  /\ temps[fc.sensor_id] # None

(* interpolate() raises ValueError, which is not the RuntimeError run_once catches per fan. *)
PolicyRaises(cfg, fc, temps) ==
  FollowsCurve(cfg, fc, temps) /\ cfg.curves[fc.curve_name] = <<>>

PercentFor(cfg, fc, temps) ==
  IF FollowsCurve(cfg, fc, temps)
  THEN Interpolate(cfg.curves[fc.curve_name], temps[fc.sensor_id])
  ELSE IF fc.override # None THEN fc.override ELSE cfg.floor

(* loop() applies this before the first cycle. *)
InitialPercent(cfg, fc) ==
  IF fc.override # None THEN fc.override ELSE cfg.floor

Clamp(percent) ==
  IF percent < 0 THEN 0 ELSE IF percent > 100 THEN 100 ELSE percent

(* The register value that hwmon_pwm.set_fan_speed writes. *)
PwmValue(percent) == RoundHalfEven(Clamp(percent) * 255, 100)
=============================================================================
