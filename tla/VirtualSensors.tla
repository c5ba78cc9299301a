--------------------------- MODULE VirtualSensors ---------------------------
(***************************************************************************)
(* resolve_virtual_sensors of app/controller.py, and the sensor map that a *)
(* cycle and the dashboard build from it.  A list of sources has no        *)
(* duplicates (both ways into the configuration pass _migrate_list), so it *)
(* is a set here; "other" stands for every aggregation Brisa does not know.*)
(***************************************************************************)
EXTENDS FanPolicy, FiniteSets, FiniteSetsExt

CONSTANTS SensorIds, VirtualIds

ASSUME VirtualIdsAreNoSensors == SensorIds \cap VirtualIds = {}
ASSUME SensorsAreFinite == IsFiniteSet(SensorIds)

VirtualSensor ==
  [ sources : SUBSET SensorIds, aggregation : {"avg", "min", "max", "other"} ]
ASSUME NoneIsNoSensor == None \notin VirtualSensor \cup SensorIds \cup VirtualIds

(* validate_config: two distinct sources and a known aggregation. *)
ValidVirtual(vs) == Cardinality(vs.sources) >= 2 /\ vs.aggregation # "other"

(* The sources that have a reading; the missing ones are left out. *)
Available(vs, real) == { s \in vs.sources : real[s] # None }

(* Exact when the unit of temperature is fine enough for the mean. *)
Mean(vs, real) ==
  MapThenSumSet(LAMBDA s : real[s], Available(vs, real))
    \div Cardinality(Available(vs, real))

(* The value for a virtual sensor with at least one available source. *)
Aggregate(vs, real) ==
  LET readings == { real[s] : s \in Available(vs, real) }
  IN  CASE vs.aggregation = "avg" -> Mean(vs, real)
        [] vs.aggregation = "min" -> Min(readings)
        [] vs.aggregation = "max" -> Max(readings)
        [] OTHER -> None

\* Mutation: one missing source makes the virtual sensor missing.
AllOrNothing(vs, real) ==
  IF Available(vs, real) # vs.sources THEN None ELSE Aggregate(vs, real)

Resolve(vs, real) ==
  IF Available(vs, real) = {} THEN None ELSE Aggregate(vs, real)

(* {**real_sensor_map, **virtual_temps}; virtual[id] is None when id is not defined. *)
SensorMap(virtual, real) ==
  [ id \in SensorIds \cup VirtualIds |->
      IF id \in SensorIds THEN real[id]
      ELSE IF virtual[id] = None THEN None ELSE Resolve(virtual[id], real) ]
=============================================================================
