------------------------------ MODULE Dashboard ------------------------------
(***************************************************************************)
(* What GET /api/state makes of a sensor scan and of the configuration     *)
(* (app/api/routes.py): the cards of the dashboard, in groups and without. *)
(* A configuration is reduced to its groups, the fan and the sensor of its *)
(* fan entries, and its virtual sensors; names, colours and the override   *)
(* are left out.                                                           *)
(***************************************************************************)
EXTENDS VirtualSensors, SequencesExt

CONSTANT FanIds

(* Nothing keeps an entry from having the identifier of a fan for a sensor: *)
(* FanIds and SensorIds may overlap.                                       *)
Entry == [fan_id : FanIds, sensor_id : SensorIds \cup VirtualIds, backend : {"liquidctl", "hwmon-pwm"}]

DashboardConfig ==
  [ groups  : Seq([type : {"sensor", "fan"}, items : Seq(FanIds \cup SensorIds \cup VirtualIds)]),
    entries : Seq(Entry),
    virtual : [VirtualIds -> VirtualSensor \cup {None}] ]

(* A reading or a speed; an identifier nobody knows has none. *)
Value(map, id) == IF id \in DOMAIN map THEN map[id] ELSE None

(* The speeds: what liquidctl reports, and over it the headers that answer. *)
RpmMap(config, reported, headers) ==
  LET answering == { e \in ToSet(config.entries) :
                       e.backend = "hwmon-pwm" /\ headers[e.fan_id] # None }
  IN  [ f \in FanIds |->
          IF \E e \in answering : e.fan_id = f THEN headers[f] ELSE Value(reported, f) ]

(* The k-th of the indices, and what a list has at them, in its order. *)
Place(indices, k) == CHOOSE i \in indices : Cardinality({ j \in indices : j <= i }) = k
Chosen(list, indices) == [ k \in 1 .. Cardinality(indices) |-> list[Place(indices, k)] ]

(* The cards of a list, for sensors with temperatures, for fans with speeds. *)
Cards(ids, values) == [ i \in DOMAIN ids |-> [id |-> ids[i], value |-> Value(values, ids[i])] ]

Grouped(config, type) ==
  UNION { ToSet(g.items) : g \in { h \in ToSet(config.groups) : h.type = type } }

Groups(config, type, values) ==
  LET chosen == Chosen(config.groups, { i \in DOMAIN config.groups : config.groups[i].type = type })
  IN  [ i \in DOMAIN chosen |-> Cards(chosen[i].items, values) ]

(* Each identifier that is not in a group, once, where it comes first. *)
Ungrouped(ids, hidden) ==
  LET fresh == { i \in DOMAIN ids : ids[i] \notin hidden /\ \A j \in 1 .. i - 1 : ids[j] # ids[i] }
  IN  Chosen(ids, fresh)

SensorsOfEntries(config) == [ i \in DOMAIN config.entries |-> config.entries[i].sensor_id ]
FansOfEntries(config)    == [ i \in DOMAIN config.entries |-> config.entries[i].fan_id ]

LooseSensors(config) == Ungrouped(SensorsOfEntries(config), Grouped(config, "sensor"))

\* Mutation: a fan is skipped when the sensor of its entry has been seen.
OneFanPerSensor(config) ==
  LET fresh == { i \in DOMAIN config.entries :
                   \A j \in 1 .. i - 1 : config.entries[j].sensor_id # config.entries[i].sensor_id }
  IN  Ungrouped(Chosen(FansOfEntries(config), fresh), Grouped(config, "fan"))

(* The set "seen" of get_state goes on from the sensors to the fans. *)
LooseFans(config) ==
  Ungrouped(FansOfEntries(config), Grouped(config, "fan") \cup ToSet(LooseSensors(config)))

(* get_state *)
State(config, real, reported, headers) ==
  LET temps == SensorMap(config.virtual, real)
      rpms  == RpmMap(config, reported, headers)
  IN  [ sensor_groups     |-> Groups(config, "sensor", temps),
        fan_groups        |-> Groups(config, "fan", rpms),
        ungrouped_sensors |-> Cards(LooseSensors(config), temps),
        ungrouped_fans    |-> Cards(LooseFans(config), rpms) ]
=============================================================================
