---------------------------- MODULE MCDeviceScan ----------------------------
(* A small host: two SATA disks, one with a WWID and one with a serial      *)
(* number only, and two hwmon devices behind one adapter, both with a pwm1. *)
EXTENDS DeviceScan

CONSTANTS w1, s1, io, env, fan1, v1

Plain(name) == [name |-> name, upper |-> FALSE]
Disks == {1, 2}

MCSysWwid   == <<[name |-> w1, upper |-> TRUE], None>>
MCSysSerial == <<None, Plain(s1)>>
MCSmartWwn  == <<Plain(w1), None>>
MCSmartSerial == <<Plain(w1), Plain(s1)>>
MCWarmth == (1 :> 30) @@ (2 :> 40) @@ (io :> 50) @@ (env :> 60)
MCParent == (io :> "nct6687.2592") @@ (env :> "nct6687.2592")
MCChannels == (io :> {"pwm1"}) @@ (env :> {"pwm1", "pwm2"})
MCReadOnly == {<<io, "pwm1">>}
MCSpeed == (<<io, "pwm1">> :> 700)
MCReported == fan1 :> 900
MCBoot == (1 :> None) @@ (2 :> None) @@ (3 :> env)

Drive(kind, name) == DriveId(kind, Plain(name))
MCSensorIds == { Drive("wwid", w1), Drive("serial", s1), HwmonId(io, 2), fan1 }
MCVirtualIds == {v1}
Pwm == PwmId(io, "pwm1")
MCFanIds == {Pwm, fan1}

Pair == v1 :> [sources |-> {Drive("wwid", w1), Drive("serial", s1)}, aggregation |-> "max"]
Fan(id, backend, sensor) == [fan_id |-> id, backend |-> backend, sensor_id |-> sensor]
Entries == << Fan(fan1, "liquidctl", Drive("wwid", w1)), Fan(Pwm, "hwmon-pwm", Drive("wwid", w1)) >>

MCConfigs ==
  { [groups |-> <<>>, entries |-> Entries, virtual |-> Pair],
    [groups |-> << [type |-> "sensor", items |-> <<v1, Drive("wwid", w1)>>],
                   [type |-> "fan", items |-> <<Pwm>>] >>,
     entries |-> Append(Entries, Fan(fan1, "liquidctl", v1)), virtual |-> Pair],
    [groups |-> <<>>,
     entries |-> Append(Entries, Fan(fan1, "liquidctl", fan1)), virtual |-> Pair] }
=============================================================================
