---------------------------- MODULE CurveEditor ----------------------------
(***************************************************************************)
(* From a curve a user draws to the speed a fan gets: the points table of  *)
(* static/curves.html, the curve rules of validate_config, a file edited   *)
(* by hand, which load_config does not check against those rules, and the  *)
(* policy of a cycle on whatever curve results.                            *)
(***************************************************************************)
EXTENDS VirtualSensors, SequencesExt

CONSTANTS
  TempInputs, PercentInputs,  \* what the user types
  MaxPoints,                  \* bound: points in the table
  MaxTemp,                    \* bound: temperature of an added point
  FileCurves,                 \* curves that a hand-edited file may hold
  Floor                       \* safety_floor_percent

ASSUME InputsAssumption == TempInputs \subseteq Int /\ PercentInputs \subseteq Int
ASSUME BoundsAssumption == MaxPoints \in Nat /\ MaxTemp \in Int /\ Floor \in Int
ASSUME FileCurvesAssumption == FileCurves \subseteq Seq(Point)

VARIABLES
  working,   \* the points in the page
  saved,     \* the points in the configuration of the service
  dirty,     \* the page's "unsaved" badge
  checked    \* saved has been accepted by validate_config

vars == <<working, saved, dirty, checked>>

(* The tables hold points and nothing else, whatever edits were made. *)
TypeOK ==
  /\ working \in Seq(Point)
  /\ saved \in Seq(Point)
  /\ dirty \in BOOLEAN
  /\ checked \in BOOLEAN

(* createCurve(), saved once. *)
NewCurve == << [temp |-> 30, percent |-> 30],
               [temp |-> 50, percent |-> 60],
               [temp |-> 70, percent |-> 100] >>

Init ==
  /\ working = NewCurve /\ saved = NewCurve
  /\ dirty = FALSE /\ checked = TRUE

AddPoint ==
  /\ Len(working) < MaxPoints
  /\ LET p == IF working = <<>> THEN [temp |-> 30, percent |-> 50]
              ELSE [ temp    |-> Last(working).temp + 10,
                     percent |-> Min({Last(working).percent + 10, 100}) ]
     IN  p.temp <= MaxTemp /\ working' = Append(working, p)
  /\ dirty' = TRUE
  /\ UNCHANGED <<saved, checked>>

UpdateTemp ==
  /\ \E i \in DOMAIN working, t \in TempInputs :
       working' = [working EXCEPT ![i].temp = t]
  /\ dirty' = TRUE
  /\ UNCHANGED <<saved, checked>>

UpdatePercent ==
  /\ \E i \in DOMAIN working, p \in PercentInputs :
       working' = [working EXCEPT ![i].percent = p]
  /\ dirty' = TRUE
  /\ UNCHANGED <<saved, checked>>

RemovePoint ==
  /\ \E i \in DOMAIN working : working' = RemoveAt(working, i)
  /\ dirty' = TRUE
  /\ UNCHANGED <<saved, checked>>

Discard ==
  /\ dirty
  /\ working' = saved /\ dirty' = FALSE
  /\ UNCHANGED <<saved, checked>>

\* Mutation: only the first and the last point are compared.
EndsInOrder(points) == Len(points) >= 2 /\ points[1].temp <= Last(points).temp

(* validate_config on one curve: points are not sorted, only compared. *)
ValidCurve(points) ==
  /\ Len(points) >= 2
  /\ IsSorted(points, LAMBDA p, q : p.temp <= q.temp)

(* Accepted: stored as it is.  Refused: the page keeps its edits. *)
Save ==
  /\ dirty
  /\ ValidCurve(working)
  /\ saved' = working /\ dirty' = FALSE /\ checked' = TRUE
  /\ UNCHANGED working

(* The service is restarted on an edited file, and the page reloaded. *)
EditFile ==
  /\ saved' \in FileCurves
  /\ working' = saved' /\ dirty' = FALSE /\ checked' = FALSE

Next == AddPoint \/ UpdateTemp \/ UpdatePercent \/ RemovePoint
          \/ Discard \/ Save \/ EditFile

Spec == Init /\ [][Next]_vars
----------------------------------------------------------------------------
(* Properties.                                                             *)

CONSTANT Readable    \* temperatures a sensor can report here

ASSUME ReadableAssumption == Readable \subseteq Int

(* A stored curve is judged while the page is clean, as it is right after  *)
(* every change of saved: the unsaved edits make no difference to it.      *)
Judged == ~dirty

NonDecreasing(points) == IsSorted(points, LAMBDA p, q : p.percent <= q.percent)

(* A curve marked as accepted obeys the rules: what the proofs rest on. *)
IInv == TypeOK /\ (checked => ValidCurve(saved))

(* Whatever the order of its points, a curve never commands less than its  *)
(* lowest or more than its highest point: interpolate() does not           *)
(* extrapolate and does not divide by zero, even on an unchecked curve.    *)
WithinCurve ==
  Judged /\ saved # <<>> =>
    \A t \in Readable : \E i, j \in DOMAIN saved :
      /\ saved[i].percent <= Interpolate(saved, t)
      /\ Interpolate(saved, t) <= saved[j].percent

(* On a curve the service has accepted and whose speeds do not fall, more  *)
(* heat never means less cooling.  Steps (two points at one temperature),  *)
(* rounding and both ends of the curve are included.                       *)
WarmerIsNeverSlower ==
  Judged /\ checked /\ NonDecreasing(saved) =>
    \A t, u \in Readable :
      t <= u => Interpolate(saved, t) <= Interpolate(saved, u)

(* An accepted curve is followed locally: the speed lies between the       *)
(* speeds of two neighbouring points that enclose the temperature.         *)
BetweenNeighbours ==
  Judged /\ checked =>
    \A t \in Readable :
      saved[1].temp < t /\ t < Last(saved).temp =>
        \E i \in 1 .. Len(saved) - 1 :
          /\ saved[i].temp <= t /\ t <= saved[i + 1].temp
          /\ LET p == Interpolate(saved, t)
                 pair == {saved[i].percent, saved[i + 1].percent}
             IN  \E lo, hi \in pair : lo <= p /\ p <= hi

(* The line drawn by renderChart, which sorts the points, is the one that  *)
(* an accepted curve follows: at the temperature of a point the fan gets   *)
(* the speed of a point with that temperature.                             *)
PointsAreMet ==
  Judged /\ checked =>
    \A i \in DOMAIN saved :
      \E j \in DOMAIN saved :
        /\ saved[j].temp = saved[i].temp
        /\ saved[j].percent = Interpolate(saved, saved[i].temp)

(* The speed of a fan on sensor id, as PercentFor decides it. *)
Speed(id, virtual, real) ==
  PercentFor([ curves |-> [n \in {"c"} |-> saved], floor |-> Floor ],
             [ override |-> None, curve_name |-> "c", sensor_id |-> id ],
             SensorMap(virtual, real))

(* On such a curve a fan on a virtual sensor is at least as fast as on any *)
(* available source when it takes the maximum, at most as fast when it     *)
(* takes the minimum, between two of them when it takes the mean, and at   *)
(* the safety floor exactly when no source has a reading.                  *)
VirtualFollowsSources ==
  Judged /\ checked /\ NonDecreasing(saved) =>
    \A vs \in { v \in VirtualSensor : ValidVirtual(v) },
       real \in [SensorIds -> Readable \cup {None}] :
      LET virtual == [ id \in VirtualIds |-> vs ]
          alone   == { Speed(s, virtual, real) : s \in Available(vs, real) }
      IN  \A id \in VirtualIds :
            LET speed == Speed(id, virtual, real) IN
              IF alone = {} THEN speed = Floor
              ELSE CASE vs.aggregation = "max" -> speed = Max(alone)
                     [] vs.aggregation = "min" -> speed = Min(alone)
                     [] vs.aggregation = "avg" ->
                          Min(alone) <= speed /\ speed <= Max(alone)
=============================================================================
