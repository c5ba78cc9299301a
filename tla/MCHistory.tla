------------------------------ MODULE MCHistory ------------------------------
(* A drive that an earlier version filed under three IDs, another it filed  *)
(* under an unclear one; the service records the drive under its one ID.    *)
EXTENDS History, TLC

Old(form, name, upper) ==
  [form |-> form, kind |-> "wwid", text |-> [name |-> name, upper |-> upper], slash |-> FALSE]

MCOldIds == { Old("smartctl", "disk", TRUE), Old("drivetemp", "disk", FALSE),
              Old("smartctl", "a_b", FALSE) }
MCSensorsSeen == { DriveId("wwid", [name |-> "disk", upper |-> TRUE]) }
MCSteps == {-1, 1}
=============================================================================
