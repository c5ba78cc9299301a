----------------------------- MODULE DeviceScan -----------------------------
(***************************************************************************)
(* Finding sensors and fans on a host that changes meanwhile: the scan of  *)
(* app/sensors.py, the detection and resolution of app/hwmon_pwm.py, and   *)
(* the handlers of app/api/routes.py that answer with them.                *)
(*                                                                         *)
(* The service runs one handler at a time, but a scan reads sysfs file by  *)
(* file and waits for smartctl, while drivers come and go.  Each disk and  *)
(* each hwmon directory is one step here, and the directories the scan     *)
(* goes by may fail to be listed.  Every device has a temperature of its   *)
(* own, so a reading tells where it was taken.  Block devices keep their   *)
(* letters during a scan; partitions and disks without a letter of the sd  *)
(* family do not matter to either scan and are left out.                   *)
(***************************************************************************)
EXTENDS Dashboard, SensorIds

CONSTANTS
  Blocks,       \* whole disks, numbered in the order of their letters
  Slow,         \* those that may give no temperature for a while
  Supported,    \* those the drivetemp module handles
  SysWwid, SysSerial,       \* the identity that sysfs gives, per disk
  SmartWwn, SmartSerial,    \* the identity that smartctl gives, per disk
  Chips,        \* the other hwmon devices
  Numbers,      \* the N of hwmonN
  Boot,         \* the hwmon directories when the service starts
  Loadable,     \* devices whose driver may be loaded or unloaded
  Warmth,       \* the temperature of each disk and chip
  Parent,       \* per chip, the platform device in its path, or None
  Channels,     \* per chip, its pwmN files
  ReadOnly,     \* headers without a pwmN_enable, or not writable
  Managed,      \* chips that liquidctl drives (LIQUIDCTL_HWMON_DRIVERS)
  Speed,        \* the speed of each header
  Reported,     \* what liquidctl status says
  DashboardConfigs

Devices == Blocks \cup Chips
Headers == UNION { {c} \X Channels[c] : c \in Chips }
PwmId(c, k) == [device |-> Parent[c], channel |-> k]

ASSUME BlocksAssumption ==
  /\ Blocks \subseteq Nat /\ Slow \subseteq Blocks /\ Supported \subseteq Blocks
  /\ Numbers \subseteq Nat /\ Loadable \subseteq Supported \cup Chips
  /\ Boot \in [Numbers -> Supported \cup Chips \cup {None}]
ASSUME DevicesAssumption == Blocks \cap Chips = {} /\ None \notin Devices
ASSUME OneDirectoryEach ==
  \A m, n \in Numbers : Boot[m] = Boot[n] /\ Boot[m] # None => m = n
ASSUME ConfigsAssumption == DashboardConfigs \subseteq DashboardConfig
ASSUME OwnTemperature == \A x, y \in Devices : Warmth[x] = Warmth[y] => x = y

(* What sysfs does not know of a drivetemp disk, smartctl does not know either. *)
ASSUME BackendsAgree ==
  \A b \in Supported : SysWwid[b] = None => /\ SmartWwn[b] = None
                                            /\ SysSerial[b] = None => SmartSerial[b] = None

VARIABLES
  (* the host *)
  bound,      \* bound[n]: the device behind hwmonN
  silent,     \* disks that give no temperature at the moment
  tool,       \* smartctl: "works", "missing", "broken" (cannot be executed)
  (* the process *)
  smartctl,   \* _smartctl_available
  phase,      \* "idle", the three parts of a scan, "done"
  todo,       \* disks or hwmon directories this part has not come to
  drivetemp,  \* drivetemp_map: identifiers by the path of a hwmon directory
  found,      \* sensors, in the order of the scan
  picked,     \* a fan taken from GET /api/devices: its ID, and its header then
  (* history of this scan *)
  spoilt      \* disks that gave no temperature, or whose driver came or
              \* went, or that a failed listing has left out

host == <<bound, silent, tool>>
vars == <<host, smartctl, phase, todo, drivetemp, found, picked, spoilt>>

IsBound(b) == \E n \in Numbers : bound[n] = b
NumberOf(b) == CHOOSE n \in Numbers : bound[n] = b
Known(first, second) == IF first # None THEN first ELSE second

(* _fallback_drive_sensor_id, and the name of any other hwmon sensor *)
Fallback(backend, place) == [form |-> "fallback", backend |-> backend, place |-> place]
HwmonId(driver, n)       == [form |-> "hwmon", driver |-> driver, number |-> n]
IsDriveId(id) == id.form \in {"drive", "fallback"}

(* The identity of a disk as _build_drivetemp_map sees it ... *)
MapId(b, n) ==
  IF SysWwid[b] # None THEN DriveId("wwid", SysWwid[b])
  ELSE IF SysSerial[b] # None THEN DriveId("serial", SysSerial[b])
  ELSE Fallback("drivetemp", n)

\* Mutation: a serial number goes before a world-wide name.
SerialFirst(b) ==
  IF Known(SysSerial[b], SmartSerial[b]) # None THEN DriveId("serial", Known(SysSerial[b], SmartSerial[b]))
  ELSE IF Known(SysWwid[b], SmartWwn[b]) # None THEN DriveId("wwid", Known(SysWwid[b], SmartWwn[b]))
  ELSE Fallback("smartctl", b)

(* ... and as _smartctl_read_drive does. *)
SmartId(b) ==
  IF Known(SysWwid[b], SmartWwn[b]) # None THEN DriveId("wwid", Known(SysWwid[b], SmartWwn[b]))
  ELSE IF Known(SysSerial[b], SmartSerial[b]) # None THEN DriveId("serial", Known(SysSerial[b], SmartSerial[b]))
  ELSE Fallback("smartctl", b)

\* Mutation: the map is keyed by the name hwmonN alone.
KeyByNumber(b, n) == <<0, n>>

(* The path of a hwmon directory goes through the port of its device. *)
PathOf(x, n) == <<x, n>>

Sensor(id, driver, x) == [id |-> id, driver |-> driver, temp |-> Warmth[x]]

----------------------------------------------------------------------------
(* The scan, detect_sensors.                                               *)

Start(disks) ==
  /\ phase \in {"idle", "done"}
  /\ phase' = "map" /\ todo' = disks
  /\ drivetemp' = <<>> /\ found' = <<>>
  /\ UNCHANGED <<host, smartctl, picked>>

Begin == Start(Blocks) /\ spoilt' = {}

(* /sys/class/block cannot be listed: the map stays empty. *)
BlocksUnreadable == Start({}) /\ spoilt' = { b \in Blocks : IsBound(b) }

Take(x) == x \in todo /\ (\A y \in todo : x <= y) /\ todo' = todo \ {x}

(* _build_drivetemp_map: one disk *)
MapDisk(b) ==
  /\ phase = "map" /\ Take(b)
  /\ IF IsBound(b)
     THEN LET path == PathOf(b, NumberOf(b))
          IN  drivetemp' = [ p \in DOMAIN drivetemp \cup {path} |->
                               IF p = path THEN MapId(b, NumberOf(b)) ELSE drivetemp[p] ]
     ELSE UNCHANGED drivetemp
  /\ UNCHANGED <<host, smartctl, phase, found, picked, spoilt>>

(* The directory that leads from the disk to hwmonN cannot be listed. *)
MapFails(b) ==
  /\ phase = "map" /\ Take(b)
  /\ IsBound(b)
  /\ spoilt' = spoilt \cup {b}
  /\ UNCHANGED <<host, smartctl, phase, drivetemp, found, picked>>

ListHwmon ==
  /\ phase = "map" /\ todo = {}
  /\ phase' = "hwmon" /\ todo' = { n \in Numbers : bound[n] # None }
  /\ UNCHANGED <<host, smartctl, drivetemp, found, picked, spoilt>>

(* /sys/class/hwmon cannot be listed: the scan ends there, with no sensor, *)
(* and smartctl is not asked either.                                       *)
HwmonUnreadable ==
  /\ phase = "map" /\ todo = {}
  /\ phase' = "done" /\ drivetemp' = <<>> /\ spoilt' = Blocks
  /\ UNCHANGED <<host, smartctl, todo, found, picked>>

(* A disk that is not in the map is named after its directory. *)
NameOf(x, n) ==
  CASE x \in Blocks /\ PathOf(x, n) \in DOMAIN drivetemp -> drivetemp[PathOf(x, n)]
    [] x \in Blocks /\ PathOf(x, n) \notin DOMAIN drivetemp -> HwmonId("drivetemp", n)
    [] x \in Chips -> HwmonId(x, n)

(* One hwmon directory, which may be gone or refer to another device by now. *)
ReadHwmon(n) ==
  /\ phase = "hwmon" /\ Take(n)
  /\ LET x == bound[n] IN
       IF x = None \/ x \in silent
       THEN /\ UNCHANGED found
            /\ spoilt' = spoilt \cup ({x} \cap silent)
       ELSE /\ found' = Append(found, Sensor(NameOf(x, n), IF x \in Blocks THEN "drivetemp" ELSE "chip", x))
            /\ UNCHANGED spoilt
  /\ UNCHANGED <<host, smartctl, phase, drivetemp, picked>>

ListDisks ==
  /\ phase = "hwmon" /\ todo = {}
  /\ phase' = "smart" /\ todo' = Blocks /\ drivetemp' = <<>>
  /\ UNCHANGED <<host, smartctl, found, picked, spoilt>>

(* /sys/class/block cannot be listed now: no disk is asked. *)
DisksUnreadable ==
  /\ phase = "hwmon" /\ todo = {}
  /\ phase' = "smart" /\ drivetemp' = <<>>
  /\ spoilt' = spoilt \cup { b \in Blocks : ~IsBound(b) }
  /\ UNCHANGED <<host, smartctl, todo, found, picked>>

NoTemperature(b) == spoilt' = spoilt \cup {b} /\ UNCHANGED found

(* A disk with a hwmon directory is left to drivetemp, but is asked like   *)
(* the others if the directory that leads to it cannot be listed.          *)
SkipDisk(b) ==
  /\ phase = "smart" /\ Take(b)
  /\ IsBound(b)
  /\ UNCHANGED <<host, smartctl, phase, drivetemp, found, picked, spoilt>>

(* smartctl was missing once, or is: it is not asked again. *)
SmartctlMissing(b) ==
  /\ phase = "smart" /\ Take(b)
  /\ smartctl = "missing" \/ tool = "missing"
  /\ smartctl' = "missing"
  /\ NoTemperature(b)
  /\ UNCHANGED <<host, phase, drivetemp, picked>>

Asked(b) ==
  /\ phase = "smart" /\ Take(b)
  /\ smartctl # "missing" /\ tool = "works"

\* Mutation: a slow disk is taken for a missing program.
TimeoutSticks(b) ==
  /\ Asked(b) /\ b \in silent
  /\ smartctl' = "missing"
  /\ NoTemperature(b)
  /\ UNCHANGED <<host, phase, drivetemp, picked>>

(* It takes too long: what is known of the program does not change. *)
SmartctlTimesOut(b) ==
  /\ Asked(b) /\ b \in silent
  /\ NoTemperature(b)
  /\ UNCHANGED <<host, smartctl, phase, drivetemp, picked>>

(* Its answer has no temperature, or is no JSON. *)
SmartctlEmpty(b) ==
  /\ Asked(b) /\ b \in silent
  /\ smartctl' = "works"
  /\ NoTemperature(b)
  /\ UNCHANGED <<host, phase, drivetemp, picked>>

SmartctlAnswers(b) ==
  /\ Asked(b) /\ b \notin silent
  /\ smartctl' = "works"
  /\ found' = Append(found, Sensor(SmartId(b), "smartctl", b))
  /\ UNCHANGED <<host, phase, drivetemp, picked, spoilt>>

(* Any other OSError escapes: there is no scan, and the handler fails. *)
ScanRaises(b) ==
  /\ phase = "smart" /\ b \in todo
  /\ smartctl # "missing" /\ tool = "broken"
  /\ phase' = "idle" /\ todo' = {} /\ found' = <<>> /\ spoilt' = {}
  /\ UNCHANGED <<host, smartctl, drivetemp, picked>>

Preference(driver) == IF driver = "drivetemp" THEN 2 ELSE IF driver = "smartctl" THEN 1 ELSE 0

\* Mutation: the later sensor takes the place of the earlier one.
LaterWins(sensors) ==
  LET Merge(result, s) ==
        IF ~IsDriveId(s.id) \/ \A i \in DOMAIN result : result[i].id # s.id
        THEN Append(result, s)
        ELSE [ i \in DOMAIN result |-> IF result[i].id = s.id THEN s ELSE result[i] ]
  IN  FoldLeft(Merge, <<>>, sensors)

(* _deduplicate_drive_sensors, one sensor after the other *)
Merged(result, s) ==
  IF ~IsDriveId(s.id) \/ \A i \in DOMAIN result : result[i].id # s.id
  THEN Append(result, s)
  ELSE [ i \in DOMAIN result |->
           IF result[i].id = s.id /\ Preference(s.driver) > Preference(result[i].driver)
           THEN s ELSE result[i] ]

Deduplicated(sensors) == FoldLeft(Merged, <<>>, sensors)

Finish ==
  /\ phase = "smart" /\ todo = {}
  /\ phase' = "done" /\ found' = Deduplicated(found)
  /\ UNCHANGED <<host, smartctl, todo, drivetemp, picked, spoilt>>

----------------------------------------------------------------------------
(* Fans of the motherboard.                                                *)

(* detect_pwm_fans: what GET /api/devices offers *)
Offered ==
  { [id |-> PwmId(h[1], h[2]), header |-> h] :
      h \in { h \in Headers \ ReadOnly :
                h[1] \notin Managed /\ Parent[h[1]] # None /\ IsBound(h[1]) } }

\* Mutation: the file is not looked for in the directory.
AnyDirectory(id) ==
  { <<c, id.channel>> : c \in { d \in Chips : IsBound(d) /\ Parent[d] = id.device } }

(* _resolve_paths: the directories are searched in no particular order. *)
Resolved(id) ==
  { <<c, id.channel>> :
      c \in { d \in Chips : /\ IsBound(d)
                            /\ Parent[d] = id.device
                            /\ id.channel \in Channels[d] } }

(* get_fan_rpm *)
HeaderSpeed(id) ==
  IF Resolved(id) = {} THEN None ELSE Value(Speed, CHOOSE h \in Resolved(id) : TRUE)

(* The user takes a fan from the list for a fan entry. *)
Pick ==
  /\ phase = "done"
  /\ \E fan \in Offered : picked' = fan
  /\ UNCHANGED <<host, smartctl, phase, todo, drivetemp, found, spoilt>>

----------------------------------------------------------------------------
(* The answer of a handler to a finished scan.                             *)

(* real_sensor_map: of several sensors with one name the last one counts. *)
RealMap ==
  [ id \in SensorIds |->
      LET hits == { i \in DOMAIN found : found[i].id = id }
      IN  IF hits = {} THEN None ELSE found[Max(hits)].temp ]

Answer(config) == State(config, RealMap, Reported, [f \in FanIds |-> HeaderSpeed(f)])

----------------------------------------------------------------------------
(* The process and the host.                                               *)

Restart ==
  /\ phase = "done"
  /\ phase' = "idle" /\ smartctl' = "unknown"
  /\ found' = <<>> /\ spoilt' = {}
  /\ UNCHANGED <<host, todo, drivetemp, picked>>

Disturb(x) == spoilt' = IF phase \in {"idle", "done"} THEN spoilt ELSE spoilt \cup ({x} \cap Blocks)

(* A driver is loaded, or binds a device; hwmonN is any free number. *)
Bind(x, n) ==
  /\ x \in Loadable /\ ~IsBound(x) /\ bound[n] = None
  /\ bound' = [bound EXCEPT ![n] = x]
  /\ Disturb(x)
  /\ UNCHANGED <<silent, tool, smartctl, phase, todo, drivetemp, found, picked>>

Unbind(x) ==
  /\ x \in Loadable /\ IsBound(x)
  /\ bound' = [bound EXCEPT ![NumberOf(x)] = None]
  /\ Disturb(x)
  /\ UNCHANGED <<silent, tool, smartctl, phase, todo, drivetemp, found, picked>>

FallSilent(b) ==
  /\ b \in Slow /\ silent' = silent \cup {b}
  /\ UNCHANGED <<bound, tool, smartctl, phase, todo, drivetemp, found, picked, spoilt>>

AnswerAgain(b) ==
  /\ b \in silent /\ silent' = silent \ {b}
  /\ UNCHANGED <<bound, tool, smartctl, phase, todo, drivetemp, found, picked, spoilt>>

ChangeTool ==
  /\ tool' \in {"works", "missing", "broken"}
  /\ UNCHANGED <<bound, silent, smartctl, phase, todo, drivetemp, found, picked, spoilt>>

Init ==
  /\ bound = Boot /\ silent = {} /\ tool \in {"works", "missing"}
  /\ smartctl = "unknown" /\ phase = "idle" /\ todo = {}
  /\ drivetemp = <<>> /\ found = <<>> /\ picked = None
  /\ spoilt = {}

ListingFails ==
  \/ BlocksUnreadable \/ HwmonUnreadable \/ DisksUnreadable
  \/ \E b \in Blocks : MapFails(b)

ScanStep ==
  \/ Begin \/ ListHwmon \/ ListDisks \/ Finish \/ ListingFails
  \/ \E b \in Blocks : \/ MapDisk(b) \/ SkipDisk(b) \/ SmartctlMissing(b)
                       \/ SmartctlTimesOut(b) \/ SmartctlEmpty(b) \/ SmartctlAnswers(b)
                       \/ ScanRaises(b)
  \/ \E n \in Numbers : ReadHwmon(n)

HostStep ==
  \/ \E x \in Devices : Unbind(x) \/ \E n \in Numbers : Bind(x, n)
  \/ \E b \in Blocks : FallSilent(b) \/ AnswerAgain(b)
  \/ ChangeTool

Next == ScanStep \/ Pick \/ Restart \/ HostStep

Spec == Init /\ [][Next]_vars

(* The loop and the pages ask again and again, and every call of smartctl  *)
(* ends, by its time limit if need be.                                     *)
FairSpec == Spec /\ WF_vars(ScanStep)

----------------------------------------------------------------------------

TypeOK ==
  /\ bound \in [Numbers -> Devices \cup {None}]
  /\ silent \subseteq Blocks /\ tool \in {"works", "missing", "broken"}
  /\ smartctl \in {"unknown", "works", "missing"}
  /\ phase \in {"idle", "map", "hwmon", "smart", "done"}
  /\ todo \subseteq Blocks \cup Numbers
  /\ DOMAIN drivetemp \subseteq Blocks \X Numbers
  /\ \A i \in DOMAIN found : found[i].driver \in {"drivetemp", "smartctl", "chip"}
  /\ picked = None \/ picked \in [id : { PwmId(h[1], h[2]) : h \in Headers }, header : Headers]
  /\ spoilt \subseteq Blocks

(* The identifier README.md promises: a WWID when there is one, or else a serial. *)
StableId(b) ==
  IF Known(SysWwid[b], SmartWwn[b]) # None THEN DriveId("wwid", Known(SysWwid[b], SmartWwn[b]))
  ELSE IF Known(SysSerial[b], SmartSerial[b]) # None THEN DriveId("serial", Known(SysSerial[b], SmartSerial[b]))
  ELSE None

ASSUME DrivesAreNotVirtual == \A b \in Blocks : StableId(b) \notin VirtualIds

Listed(b) == \E i \in DOMAIN found : found[i].id = StableId(b)

(* What a scan may list: a sensor under a name of its device, with the      *)
(* temperature of that device.                                             *)
Sensors ==
       { Sensor(MapId(b, n), "drivetemp", b) : b \in Supported, n \in Numbers }
  \cup { Sensor(HwmonId("drivetemp", n), "drivetemp", b) : b \in Supported, n \in Numbers }
  \cup { Sensor(SmartId(b), "smartctl", b) : b \in Blocks }
  \cup { Sensor(HwmonId(c, n), "chip", c) : c \in Chips, n \in Numbers }

(* Where the scan is with a disk that nothing has happened to. *)
Accounted(b) ==
  LET mapped == \A n \in Numbers : bound[n] = b => PathOf(b, n) \in DOMAIN drivetemp
      named  == StableId(b) # None
  IN  /\ phase = "map" /\ b \notin todo => mapped
      /\ phase = "hwmon" => /\ mapped
                            /\ \A n \in Numbers : bound[n] = b /\ n \notin todo /\ named => Listed(b)
      /\ phase = "smart" /\ named /\ (IsBound(b) \/ b \notin todo) => Listed(b)
      /\ phase = "done" /\ named => Listed(b)

(* The inductive invariant of the scan. *)
ScanInv ==
  /\ TypeOK
  /\ bound \in [Numbers -> Supported \cup Chips \cup {None}]
  /\ \A m, n \in Numbers : bound[m] = bound[n] /\ bound[m] # None => m = n
  /\ todo \subseteq IF phase \in {"map", "smart"} THEN Blocks
                    ELSE IF phase = "hwmon" THEN Numbers ELSE {}
  /\ \A p \in DOMAIN drivetemp : \E b \in Supported, n \in Numbers :
       p = PathOf(b, n) /\ drivetemp[p] = MapId(b, n)
  /\ found \in Seq(Sensors)
  /\ \A b \in Blocks \ spoilt : Accounted(b)
  /\ picked # None => \E h \in Headers : /\ Parent[h[1]] # None
                                       /\ picked = [id |-> PwmId(h[1], h[2]), header |-> h]

(* Whichever back end reads a disk, and whatever its hwmonN is by now, a   *)
(* scan lists it under its stable identifier if it could be listed and     *)
(* read and its own driver stayed as it was meanwhile.                     *)
UndisturbedAreListed ==
  phase = "done" => \A b \in Blocks \ spoilt : StableId(b) # None => Listed(b)

ShownSensors(answer) ==
  ToSet(answer.ungrouped_sensors) \cup UNION { ToSet(g) : g \in ToSet(answer.sensor_groups) }

(* A temperature that the dashboard shows for a disk is that disk's, even  *)
(* if drivers were loaded and renumbered in the middle of the scan.        *)
ReadingsAreTheDisks ==
  phase = "done" =>
    \A config \in DashboardConfigs, b \in Blocks :
      \A card \in ShownSensors(Answer(config)) :
        card.id = StableId(b) /\ card.value # None =>
          \E d \in Blocks : StableId(d) = StableId(b) /\ card.value = Warmth[d]

(* An identifier of a drive that both back ends have read, its driver      *)
(* having gone meanwhile, is listed once, with what drivetemp read.  (Not  *)
(* so a disk whose driver came after the map was built and went before     *)
(* smartctl was asked: it is listed under its hwmon directory as well.)    *)
IdentifiersAreListedOnce ==
  [][phase = "smart" /\ phase' = "done" =>
       \A i \in DOMAIN found : IsDriveId(found[i].id) =>
         LET kept == { j \in DOMAIN found' : found'[j].id = found[i].id }
         IN  /\ Cardinality(kept) = 1
             /\ found[i].driver = "drivetemp" => \A j \in kept : found'[j].driver = "drivetemp"]_vars

HasCard(id, cards) == \E i \in DOMAIN cards : cards[i].id = id

(* In its groups, or else on one card of its own. *)
Shown(id, groups, loose) ==
  IF \E g \in ToSet(groups) : HasCard(id, g)
  THEN ~HasCard(id, loose)
  ELSE Cardinality({ i \in DOMAIN loose : loose[i].id = id }) = 1

(* The dashboard has the sensor of every entry, and its fan: in their      *)
(* groups, or else on one card of their own.  A fan whose identifier is    *)
(* also that of a sensor without a group has no second card for it.        *)
CardsAreComplete ==
  phase = "done" =>
    \A config \in DashboardConfigs :
      LET answer == Answer(config)
      IN  \A e \in ToSet(config.entries) :
            /\ Shown(e.sensor_id, answer.sensor_groups, answer.ungrouped_sensors)
            /\ IF HasCard(e.fan_id, answer.ungrouped_sensors)
               THEN ~HasCard(e.fan_id, answer.ungrouped_fans)
               ELSE Shown(e.fan_id, answer.fan_groups, answer.ungrouped_fans)

(* Wherever the drivers put it, the identifier of a fan in the configuration *)
(* leads to the header it was taken from, or nowhere; where two chips behind *)
(* one adapter have the same pwmN, it may lead to either, and only to these. *)
FanIdMeansHeader ==
  picked # None =>
    LET twins == { h \in Headers : /\ Parent[h[1]] = Parent[picked.header[1]]
                                  /\ h[2] = picked.header[2] }
    IN  Resolved(picked.id) = { h \in twins : IsBound(h[1]) }

(* A disk that was slow for a while is listed again, however often and in  *)
(* whichever order it timed out, unless smartctl itself has been away or   *)
(* the directories go on failing to be listed.                             *)
SlowDisksReturn ==
  [](tool = "works") /\ <>[][~ListingFails]_vars =>
    \A b \in Blocks :
      <>[](b \notin silent) /\ <>[][UNCHANGED bound]_bound => []<>(phase = "done" /\ Listed(b))
=============================================================================
