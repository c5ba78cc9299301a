------------------------------ MODULE FanLoan ------------------------------
(***************************************************************************)
(* What Brisa promises the motherboard.  Control of a fan header is only   *)
(* borrowed: the mode of its position is noted before manual mode is set,  *)
(* and when the service is stopped every note is settled, by giving the    *)
(* mode back or by writing it off because the kernel refuses the write.    *)
(* Only a crash leaves notes unsettled.  Which fans are borrowed and when  *)
(* does not matter here; FanControl implements this.                       *)
(***************************************************************************)
CONSTANTS Headers, Slots, Gone, Modes, Manual, Firmware, None

VARIABLES
  slot,     \* where each header is, or Gone
  mode,     \* who controls it
  phase,    \* "stopped", "serving" or "settling"
  owed      \* the mode noted for each position, or None

vars == <<slot, mode, phase, owed>>

Settled == [s \in Slots |-> None]

Init ==
  /\ slot \in [Headers -> Slots]
  /\ mode = Firmware
  /\ phase = "stopped"
  /\ owed = Settled

Open ==
  /\ phase = "stopped" /\ phase' = "serving"
  /\ UNCHANGED <<slot, mode, owed>>

(* A note that exists is kept; setting manual mode may still fail. *)
Borrow(f) ==
  /\ phase = "serving" /\ slot[f] \in Slots
  /\ owed' = IF owed[slot[f]] = None
             THEN [owed EXCEPT ![slot[f]] = mode[f]] ELSE owed
  /\ mode' \in { mode, [mode EXCEPT ![f] = Manual] }
  /\ UNCHANGED <<slot, phase>>

Close ==
  /\ phase = "serving" /\ phase' = "settling"
  /\ UNCHANGED <<slot, mode, owed>>

GiveBack(f) ==
  /\ phase = "settling" /\ slot[f] \in Slots /\ owed[slot[f]] # None
  /\ mode' = [mode EXCEPT ![f] = owed[slot[f]]]
  /\ owed' = [owed EXCEPT ![slot[f]] = None]
  /\ UNCHANGED <<slot, phase>>

WriteOff(s) ==
  /\ phase = "settling" /\ owed[s] # None
  /\ owed' = [owed EXCEPT ![s] = None]
  /\ UNCHANGED <<slot, mode, phase>>

Stop ==
  /\ phase = "settling" /\ owed = Settled
  /\ phase' = "stopped"
  /\ UNCHANGED <<slot, mode, owed>>

Crash ==
  /\ phase # "stopped" /\ phase' = "stopped"
  /\ owed' = Settled
  /\ UNCHANGED <<slot, mode>>

(* Headers come and go, and their firmware takes them back, as they please. *)
Host(f) ==
  /\ \/ slot' = [slot EXCEPT ![f] = Gone] /\ mode' = mode
     \/ /\ slot[f] = Gone
        /\ \E s \in Slots : slot' = [slot EXCEPT ![f] = s]
        /\ mode' = [mode EXCEPT ![f] = Firmware[f]]
     \/ slot' = slot /\ mode' = [mode EXCEPT ![f] = Firmware[f]]
  /\ UNCHANGED <<phase, owed>>

Next ==
  \/ Open \/ Close \/ Stop \/ Crash
  \/ \E f \in Headers : Borrow(f) \/ GiveBack(f) \/ Host(f)
  \/ \E s \in Slots : WriteOff(s)

Spec == Init /\ [][Next]_vars
=============================================================================
