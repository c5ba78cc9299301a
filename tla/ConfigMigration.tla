--------------------------- MODULE ConfigMigration ---------------------------
(***************************************************************************)
(* What a configuration says about sensors, and what its migration makes   *)
(* of it: migrate_sensor_ids and load_config of app/config.py, inside the  *)
(* steps of ConfigStore that load, post and save.                          *)
(*                                                                         *)
(* A document is reduced to its references: the aliases (card_colors are   *)
(* migrated the same way), one virtual sensor, one fan, one group.         *)
(***************************************************************************)
EXTENDS ConfigStore, SensorIds, SequencesExt, FiniteSetsExt

IsDocument(doc) ==
  /\ DOMAIN doc = {"aliases", "sources", "items", "fan"}
  /\ DOMAIN doc.aliases \subseteq SensorId
  /\ doc.sources \in Seq(SensorId)   \* of the virtual sensor, empty if there is none
  /\ doc.items \in Seq(SensorId)     \* of the dashboard group
  /\ doc.fan \in [id : {"hwmon-pwm", "liquidctl"}, backend : {"hwmon-pwm", "liquidctl"},
                  sensor : SensorId]

\* Mutation: the first entry of a sensor wins, canonical or not.
FirstKeyWins(aliases, new) ==
  LET old == { id \in DOMAIN aliases : Migrated(id) = new }
  IN  IF \E id \in old : IsLegacy(id)
      THEN CHOOSE id \in { i \in old : IsLegacy(i) } :
             \A other \in { i \in old : IsLegacy(i) } : Rank(id) <= Rank(other)
      ELSE new

(* The key whose value survives: the canonical one, else the first. *)
Winner(aliases, new) ==
  LET old == { id \in DOMAIN aliases : Migrated(id) = new }
  IN  IF new \in old THEN new
      ELSE CHOOSE id \in old : \A other \in old : Rank(id) <= Rank(other)

(* _migrate_mapping *)
MigratedMapping(aliases) ==
  [ new \in { Migrated(id) : id \in DOMAIN aliases } |-> aliases[Winner(aliases, new)] ]

(* _migrate_list, one identifier after the other *)
Mentioned(done, id) ==
  IF Migrated(id) \in Range(done) THEN done ELSE Append(done, Migrated(id))

MigratedList(list) == FoldLeft(Mentioned, <<>>, list)

(* migrate_sensor_ids *)
MigratedDoc(doc) ==
  [ aliases |-> MigratedMapping(doc.aliases),
    sources |-> MigratedList(doc.sources),
    items   |-> MigratedList(doc.items),
    fan     |-> [doc.fan EXCEPT !.sensor = Migrated(@)] ]

(* load_config: a fan of an hwmon header has the back end of that name. *)
BackendFixed(doc) ==
  IF doc.fan.id = "hwmon-pwm" THEN [doc EXCEPT !.fan.backend = "hwmon-pwm"] ELSE doc

(* What ConfigStore leaves open. *)
ASSUME MigrationAssumption ==
  \A d \in Docs : /\ IsDocument(d)
                  /\ MigrateIds[d] = MigratedDoc(d) /\ FixBackends[d] = BackendFixed(d)

(* validate_config: a virtual sensor has two different sources. *)
IsValid(doc) == Cardinality(Range(doc.sources)) # 1
----------------------------------------------------------------------------
(* Properties.                                                             *)

Meanings(list) == [i \in DOMAIN list |-> Meaning(list[i])]

(* Where a list first mentions something, and the n-th of these places. *)
FirstMentions(list) ==
  { i \in DOMAIN list : \A j \in 1 .. i - 1 : Meaning(list[j]) # Meaning(list[i]) }
Place(indices, n) == CHOOSE i \in indices : Cardinality({ j \in indices : j <= i }) = n

(* new has every meaning of old once, in the order of first mention. *)
SameMentions(old, new) ==
  LET first == FirstMentions(old)
  IN  Meanings(new) = Meanings([ n \in 1 .. Cardinality(first) |-> old[Place(first, n)] ])

SameReferences(old, new) ==
  /\ SameMentions(old.sources, new.sources) /\ SameMentions(old.items, new.items)
  /\ Meaning(old.fan.sensor) = Meaning(new.fan.sensor)
  /\ { Meaning(id) : id \in DOMAIN old.aliases } = { Meaning(id) : id \in DOMAIN new.aliases }
  /\ \A id \in DOMAIN new.aliases :
       /\ \E was \in DOMAIN old.aliases :
            Meaning(was) = Meaning(id) /\ old.aliases[was] = new.aliases[id]
       /\ id \in DOMAIN old.aliases => new.aliases[id] = old.aliases[id]
       /\ \A twin \in DOMAIN new.aliases : Meaning(id) = Meaning(twin) => id = twin

(* A start gives each reference of the file the one identifier of the      *)
(* drive it means: none is lost, none moves to another drive, a list keeps *)
(* its order, a name given under the canonical identifier stays, and a     *)
(* reference that could mean two drives is left as it is                   *)
(* (load_config, migrate_sensor_ids).                                      *)
StartKeepsReferences ==
  [][(Start /\ file \in Docs) =>
       LET loaded == IF saving' # None THEN saving' ELSE memory' IN
         /\ SameReferences(file, loaded)
         /\ \A id \in Range(loaded.sources) \cup Range(loaded.items) \cup {loaded.fan.sensor} :
              ~IsClear(id)]_vars
=============================================================================
