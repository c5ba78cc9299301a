------------------------------ MODULE SensorIds ------------------------------
(***************************************************************************)
(* The identifiers of drive sensors (app/sensor_ids.py).                   *)
(*                                                                         *)
(* A WWID or a serial number as a device or an old identifier spells it is *)
(* a record: a name, and whether it is in capitals.  Blanks around it and  *)
(* the quoting of its special characters, which keeps different texts      *)
(* different, are left out.  An old identifier ends in a model name, which *)
(* may hold a slash.                                                       *)
(***************************************************************************)
EXTENDS Integers

CONSTANTS
  Names,       \* names of drives
  Ambiguous,   \* those with an underscore: in an old identifier, or a blank
  Blank        \* no name, only blanks

ASSUME NamesAssumption == Ambiguous \subseteq Names /\ Blank \notin Names

Text == [name : Names \cup {Blank}, upper : BOOLEAN]

SensorId ==
       [form : {"drive"}, kind : {"wwid", "serial"}, text : Text]
  \cup [form : {"smartctl", "drivetemp"}, kind : {"wwid", "serial"}, text : Text, slash : BOOLEAN]
  \cup [form : {"other"}, name : STRING]

(* normalize_drive_identity: a WWID is the same in capitals, a serial is not. *)
Normal(kind, text) == IF kind = "wwid" THEN [text EXCEPT !.upper = FALSE] ELSE text

(* make_drive_sensor_id, for a text that is not blank *)
DriveId(kind, text) == [form |-> "drive", kind |-> kind, text |-> Normal(kind, text)]

(* is_legacy_drive_id_candidate *)
IsLegacy(id) == id.form \in {"smartctl", "drivetemp"}

(* An old identifier tells which drive it means. *)
IsClear(id) ==
  /\ IsLegacy(id)
  /\ id.text.name \notin Ambiguous \cup {Blank}
  /\ id.kind = "serial" => ~id.slash

(* migrate_legacy_drive_sensor_id *)
Migrated(id) == IF IsClear(id) THEN DriveId(id.kind, id.text) ELSE id

(* Two old identifiers of one drive, in the order of their strings. *)
Rank(id) == (IF id.form = "drivetemp" THEN 0 ELSE 4) + (IF id.text.upper THEN 0 ELSE 2)
              + (IF id.slash THEN 1 ELSE 0)

(* For the properties: the drive that an identifier means, or else itself. *)
Meaning(id) ==
  CASE IsClear(id)        -> <<id.kind, Normal(id.kind, id.text)>>
    [] id.form = "drive"  -> <<id.kind, id.text>>
    [] OTHER              -> <<"other", id>>
=============================================================================
