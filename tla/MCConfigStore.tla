--------------------------- MODULE MCConfigStore ---------------------------
(* Documents about two drives and another sensor: one drive under all its  *)
(* identifiers, identifiers that could mean two drives, lists that name a  *)
(* drive twice, a wrong back end, documents that are not valid; and        *)
(* whatever loading makes of them.                                         *)
EXTENDS ConfigMigration, TLC

Disk(name, upper) == [name |-> name, upper |-> upper]
Old(form, kind, name, upper) ==
  [form |-> form, kind |-> kind, text |-> Disk(name, upper), slash |-> FALSE]

cpu     == [form |-> "other", name |-> "cpu"]
smart   == Old("smartctl", "wwid", "disk", FALSE)
capital == Old("smartctl", "wwid", "disk", TRUE)
temp    == Old("drivetemp", "wwid", "disk", FALSE)
drive   == DriveId("wwid", Disk("disk", TRUE))
serial  == Old("drivetemp", "serial", "disk", TRUE)
small   == Old("smartctl", "serial", "disk", FALSE)
unclear == Old("smartctl", "wwid", "a_b", FALSE)
slashed == [Old("smartctl", "serial", "disk", FALSE) EXCEPT !.slash = TRUE]
empty   == Old("drivetemp", "wwid", "", FALSE)

default == [ aliases |-> <<>>, sources |-> <<>>, items |-> <<>>,
             fan |-> [id |-> "liquidctl", backend |-> "liquidctl", sensor |-> cpu] ]

Doc(aliases, sources, items, backend, sensor) ==
  [ aliases |-> aliases, sources |-> sources, items |-> items,
    fan |-> [id |-> "hwmon-pwm", backend |-> backend, sensor |-> sensor] ]

Seeds ==
  { Doc((temp :> "t") @@ (smart :> "s") @@ (serial :> "n"), <<cpu, smart, temp, small>>,
        <<drive, capital, cpu>>, "liquidctl", smart),
    Doc((drive :> "d") @@ (temp :> "t") @@ (cpu :> "c"), <<temp, smart>>,
        <<small, serial, cpu, smart>>, "hwmon-pwm", temp),
    Doc((capital :> "a") @@ (smart :> "s") @@ (unclear :> "u"), <<unclear, slashed, empty>>,
        <<cpu, temp, unclear, drive>>, "hwmon-pwm", unclear) }

MCDocs == {default} \cup Seeds \cup { MigratedDoc(d) : d \in Seeds }
            \cup { BackendFixed(d) : d \in Seeds } \cup { MigratedDoc(BackendFixed(d)) : d \in Seeds }
MCMigrateIds  == [d \in MCDocs |-> MigratedDoc(d)]
MCFixBackends == [d \in MCDocs |-> BackendFixed(d)]
MCValid == { d \in MCDocs : IsValid(d) }
=============================================================================
