------------------------------- MODULE History -------------------------------
(***************************************************************************)
(* The history database (app/database.py), the end of a controller cycle   *)
(* that writes and prunes it (run_once and _prune_history_if_due of        *)
(* app/controller.py) and its migration at start-up.                       *)
(*                                                                         *)
(* Each statement of a transaction is a step that may fail or be the last  *)
(* before a crash; SQLite undoes what was not committed.  Rows carry the   *)
(* time of day, which people and NTP set; the pruning schedule follows the *)
(* monotonic clock.  All users of the database run in the event loop's     *)
(* thread without a wait, so no two of them overlap.                       *)
(***************************************************************************)
EXTENDS SensorIds, FiniteSets

CONSTANTS
  SensorsSeen,     \* bound: sensor IDs that cycles record
  OldIds,          \* bound: sensor IDs that an earlier version recorded
  Days,            \* bound: values of settings.history_days
  Hour,            \* HISTORY_PRUNE_INTERVAL_SECONDS
  MaxTime,         \* bound: the monotonic clock
  Steps,           \* bound: distances the time of day is set by
  MaxCycles,       \* bound: cycles that write
  None

ASSUME BoundsAssumption ==
  /\ Days \subseteq Nat /\ {Hour, MaxTime, MaxCycles} \subseteq Nat \ {0} /\ Steps \subseteq Int
  /\ None \notin Int
ASSUME IdsAssumption ==
  /\ \A id \in OldIds \cup SensorsSeen :
       id \in SensorId /\ (id.form = "drive" => id.text = Normal(id.kind, id.text))
  /\ \A id \in SensorsSeen : ~IsLegacy(id)

VARIABLES
  mono, wall,      \* time.monotonic(), time.time()
  days,            \* settings.history_days
  db,              \* what is committed: the rows of both tables
  tx,              \* what the open transaction sees, None outside of one
  step,            \* the next step of the service
  cycle,           \* the locals of run_once and prune_old_rows
  next,            \* _next_history_prune_at
  (* history variables *)
  written,         \* the cycles committed so far
  horizon,         \* the latest time of day that has ever been out of retention
  steady,          \* neither clock nor setting was changed since rows were last deleted
  fresh            \* when the cycle that has just ended well looked at the clock

clock   == <<mono, wall, days>>
service == <<db, tx, step, cycle, next>>
past    == <<written, horizon, steady, fresh>>
vars    == <<clock, service, past>>

(* A row knows, for the properties, which cycle wrote it and under which id. *)
Row(table, n, ts, id) == [table |-> table, n |-> n, ts |-> ts, id |-> id, was |-> id]
Fan == [form |-> "other", name |-> "fan"]
FiledId == SensorId \cup {Fan}

Unremarkable == UNCHANGED <<written, horizon, steady>> /\ fresh' = None

Later(a, b) == IF a > b THEN a ELSE b

TypeOK ==
  /\ mono \in 0 .. MaxTime /\ wall \in Int /\ days \in Days
  /\ \A row \in db : row.id \in FiledId /\ row.table \in {"readings", "fan_readings"}
  /\ step \notin {"migrate", "fans", "commit", "delete_fans", "commit_prune"} => tx = None
  /\ step \in {"down", "migrate", "idle", "readings", "fans", "commit",
               "delete_readings", "delete_fans", "commit_prune"}
  /\ next \in Int \cup {None}
  /\ Cardinality(written) <= MaxCycles

Init ==
  /\ mono = 0 /\ wall = 0 /\ days \in Days
  /\ \E ids \in {{}, OldIds} : db = { Row("readings", 0, 0, id) : id \in ids }
  /\ tx = None /\ step = "down" /\ cycle = None /\ next = None
  /\ written = {} /\ horizon = wall - days /\ steady = FALSE /\ fresh = None

----------------------------------------------------------------------------
(* Start-up: init_db and migrate_reading_sensor_ids                        *)

(* The tables are created if they are missing; then BEGIN IMMEDIATE. *)
Start ==
  /\ step = "down"
  /\ tx' = db /\ step' = "migrate"
  /\ UNCHANGED <<clock, db, cycle, next>> /\ Unremarkable

IsOld(row) == row.table = "readings" /\ IsClear(row.id)

\* Mutation: the drive's name is taken as the old identifier spells it.
RekeyAsSpelt(rows, id) ==
  { IF row.table = "readings" /\ row.id = id
    THEN [row EXCEPT !.id = [form |-> "drive", kind |-> id.kind, text |-> id.text]]
    ELSE row : row \in rows }

(* UPDATE readings SET sensor_id = ... WHERE sensor_id = id *)
Rekey(rows, id) ==
  { IF row.table = "readings" /\ row.id = id THEN [row EXCEPT !.id = Migrated(id)] ELSE row
    : row \in rows }

MigrateOne ==
  /\ step = "migrate"
  /\ \E row \in tx : IsOld(row) /\ tx' = Rekey(tx, row.id)
  /\ UNCHANGED <<clock, db, step, cycle, next>> /\ Unremarkable

MigrationDone ==
  /\ step = "migrate" /\ ~\E row \in tx : IsOld(row)
  /\ db' = tx /\ tx' = None /\ step' = "idle" /\ next' = None
  /\ UNCHANGED <<clock, cycle>> /\ Unremarkable

----------------------------------------------------------------------------
(* One cycle: run_once, write_cycle_readings                               *)

(* The time of day is read first; sensors and fans come later. *)
Begin ==
  /\ step = "idle" /\ Cardinality(written) < MaxCycles
  /\ \E sensors \in SUBSET SensorsSeen :
       cycle' = [ts |-> wall, sensors |-> sensors, now |-> None, cutoff |-> None]
  /\ step' = "readings"
  /\ UNCHANGED <<clock, db, tx, next>> /\ Unremarkable

Number == Cardinality(written) + 1

Readings == { Row("readings", Number, cycle.ts, id) : id \in cycle.sensors }
FanReadings == { Row("fan_readings", Number, cycle.ts, Fan) }

InsertReadings ==
  /\ step = "readings"
  /\ tx' = db \cup Readings /\ step' = "fans"
  /\ UNCHANGED <<clock, db, cycle, next>> /\ Unremarkable

\* Mutation: the readings are committed before the fans are inserted.
InsertFansApart ==
  /\ step = "fans"
  /\ db' = tx /\ tx' = tx \cup FanReadings /\ step' = "commit"
  /\ UNCHANGED <<clock, cycle, next>> /\ Unremarkable

InsertFans ==
  /\ step = "fans"
  /\ tx' = tx \cup FanReadings /\ step' = "commit"
  /\ UNCHANGED <<clock, db, cycle, next>> /\ Unremarkable

(* Then _prune_history_if_due: the first cycle prunes, then one per Hour. *)
Commit ==
  /\ step = "commit"
  /\ db' = tx /\ tx' = None
  /\ written' = written \cup {[n |-> Number, rows |-> Readings \cup FanReadings]}
  /\ IF next # None /\ mono < next
     THEN step' = "idle" /\ cycle' = None /\ fresh' = mono
     ELSE step' = "delete_readings" /\ cycle' = [cycle EXCEPT !.now = mono] /\ fresh' = None
  /\ UNCHANGED <<clock, next, horizon, steady>>

(* DELETE FROM table WHERE ts < cutoff *)
Expired(rows, table, cutoff) == { row \in rows : row.table = table /\ row.ts < cutoff }

DeleteReadings ==
  /\ step = "delete_readings"
  /\ cycle' = [cycle EXCEPT !.cutoff = wall - days]
  /\ tx' = db \ Expired(db, "readings", wall - days)
  /\ step' = "delete_fans"
  /\ UNCHANGED <<clock, db, next, written, horizon>> /\ steady' = TRUE /\ fresh' = None

DeleteFans ==
  /\ step = "delete_fans"
  /\ tx' = tx \ Expired(tx, "fan_readings", cycle.cutoff) /\ step' = "commit_prune"
  /\ UNCHANGED <<clock, db, cycle, next>> /\ Unremarkable

CommitPrune ==
  /\ step = "commit_prune"
  /\ db' = tx /\ tx' = None /\ step' = "idle"
  /\ next' = cycle.now + Hour
  /\ cycle' = None /\ fresh' = cycle.now
  /\ UNCHANGED <<clock, written, horizon, steady>>

\* Mutation: the next pruning is put off before this one has succeeded.
FailAndWait ==
  /\ step \notin {"down", "migrate", "idle"}
  /\ tx' = None /\ step' = "idle" /\ cycle' = None
  /\ next' = IF cycle.now = None THEN next ELSE cycle.now + Hour
  /\ UNCHANGED <<clock, db>> /\ Unremarkable

\* Mutation: the transaction that failed is left open.
FailWithoutRollback ==
  /\ step \notin {"down", "migrate", "idle"}
  /\ step' = "idle" /\ cycle' = None
  /\ UNCHANGED <<clock, db, tx, next>> /\ Unremarkable

(* An error of SQLite, or of the sensors before: the loop goes on. *)
CycleFails ==
  /\ step \notin {"down", "migrate", "idle"}
  /\ tx' = None /\ step' = "idle" /\ cycle' = None
  /\ UNCHANGED <<clock, db, next>> /\ Unremarkable

(* The service is killed, or its start is given up. *)
Crash ==
  /\ step # "down"
  /\ tx' = None /\ step' = "down" /\ next' = None /\ cycle' = None
  /\ UNCHANGED <<clock, db>> /\ Unremarkable

----------------------------------------------------------------------------
(* The world                                                               *)

Tick ==
  /\ mono < MaxTime
  /\ mono' = mono + 1 /\ wall' = wall + 1
  /\ horizon' = Later(horizon, wall' - days)
  /\ UNCHANGED <<days, service, written, steady>> /\ fresh' = None

(* The time of day is set. *)
SetClock ==
  /\ wall = mono
  /\ \E s \in Steps : wall' = wall + s /\ horizon' = Later(horizon, wall' - days)
  /\ UNCHANGED <<mono, days, service, written>> /\ steady' = FALSE /\ fresh' = None

(* POST /api/config, between two cycles. *)
SetDays ==
  /\ step = "idle"
  /\ days' \in Days \ {days} /\ horizon' = Later(horizon, wall - days')
  /\ UNCHANGED <<mono, wall, service, written>> /\ steady' = FALSE /\ fresh' = None

Next ==
  \/ Start \/ MigrateOne \/ MigrationDone
  \/ Begin \/ InsertReadings \/ InsertFans \/ Commit
  \/ DeleteReadings \/ DeleteFans \/ CommitPrune
  \/ CycleFails \/ Crash
  \/ Tick \/ SetClock \/ SetDays

Spec == Init /\ [][Next]_vars

(* query_history: both tables from the same time on *)
Query(since) == { row \in db : row.ts >= since }
----------------------------------------------------------------------------
(* Properties.                                                             *)

(* Whatever fails and wherever the service is killed, every answer of      *)
(* GET /api/history has the temperatures and the fans of a cycle together  *)
(* or not at all, and a cycle that was written is gone only once it was    *)
(* older than the retention by the clock of the time (write_cycle_readings,*)
(* prune_old_rows, query_history).                                         *)
CyclesAreWhole ==
  /\ \A w \in written :
       LET kept == { row \in db : row.n = w.n }
       IN  \/ { [row EXCEPT !.id = row.was] : row \in kept } = w.rows
           \/ kept = {} /\ \A row \in w.rows : row.ts < horizon
  /\ \A row \in db : row.n # 0 => \E w \in written : w.n = row.n
  /\ \A a, b \in db, since \in 0 .. MaxTime :
       a.n = b.n => (a \in Query(since) <=> b \in Query(since))

(* A cycle that ends well leaves no row that was older than the retention  *)
(* and one pruning interval when it looked at the clock: pruning is due    *)
(* once an hour (CHANGELOG.md:7; not at each iteration, as ARCHITECTURE.md *)
(* has it at 236), and one that failed is made up for by the next cycle,   *)
(* not an hour later (_prune_history_if_due).                              *)
OldRowsGo ==
  fresh # None /\ steady =>
    \A row \in db : row.ts > (fresh + (wall - mono)) - days - Hour

(* While the service runs, all temperatures of a drive are filed under its *)
(* one canonical ID, and each row is still filed under the drive or the    *)
(* unclear ID it was recorded for, however often the migration was         *)
(* interrupted (migrate_reading_sensor_ids).                               *)
HistoryFollowsDrive ==
  /\ step \notin {"down", "migrate"} =>
       \A a, b \in db : ~IsOld(a) /\ (Meaning(a.was) = Meaning(b.was) => a.id = b.id)
  /\ \A row \in db : Meaning(row.id) = Meaning(row.was)
----------------------------------------------------------------------------
(* The inductive invariants behind the last property and the first.        *)

GoodId(id) == id \in FiledId /\ (id.form = "drive" => id.text = Normal(id.kind, id.text))

GoodRow(row) ==
  /\ row \in [table : {"readings", "fan_readings"}, n : Nat, ts : Int, id : FiledId, was : FiledId]
  /\ GoodId(row.id) /\ Meaning(row.id) = Meaning(row.was)
  /\ row.table = "fan_readings" => ~IsClear(row.id)

Writing  == {"readings", "fans", "commit"}
Pruning  == {"delete_readings", "delete_fans", "commit_prune"}
InCycle  == Writing \cup Pruning

FiledInv ==
  /\ step \in {"down", "migrate", "idle"} \cup InCycle /\ wall \in Int
  /\ \A row \in db : GoodRow(row) /\ (IsOld(row) => step \in {"down", "migrate"})
  /\ step = "migrate" => \A row \in tx : GoodRow(row)
  /\ step \in {"fans", "commit", "delete_fans", "commit_prune"} =>
       \A row \in tx : GoodRow(row) /\ ~IsOld(row)
  /\ step \in Writing => cycle.ts \in Int /\ cycle.sensors \subseteq SensorsSeen

(* The rows under the identifiers they were recorded with. *)
AsRecorded(rows) == { [row EXCEPT !.id = row.was] : row \in rows }

Kept(rows, w) == { row \in AsRecorded(rows) : row.n = w.n }

WrittenInv ==
  /\ IsFiniteSet(written)
  /\ \A w \in written : /\ w.n \in 1 .. Cardinality(written)
                        /\ \A row \in w.rows : row.n = w.n /\ row.ts \in Int
                        /\ \A v \in written : v.n = w.n => v = w
                        /\ Kept(db, w) = w.rows \/ (Kept(db, w) = {} /\ \A row \in w.rows : row.ts < horizon)
  /\ \A row \in db : row.n # 0 => \E w \in written : w.n = row.n
  /\ \A a, b \in db : a.n = b.n => a.ts = b.ts

CommittingInv ==
  /\ horizon \in Int /\ days \in Days /\ wall - days <= horizon
  /\ step \in InCycle => DOMAIN cycle = {"ts", "sensors", "now", "cutoff"}
  /\ step = "migrate" => AsRecorded(tx) = AsRecorded(db)
  /\ step = "fans"    => tx = db \cup Readings
  /\ step = "commit"  => tx = db \cup Readings \cup FanReadings
  /\ step \in {"delete_fans", "commit_prune"} => cycle.cutoff \in Int /\ cycle.cutoff <= horizon
  /\ step = "delete_fans"  => tx = db \ Expired(db, "readings", cycle.cutoff)
  /\ step = "commit_prune" => tx = { row \in db : row.ts >= cycle.cutoff }

(* What is deleted next, and what has been. *)
Offset == wall - mono

PruningInv ==
  /\ mono \in Nat /\ next \in Int \cup {None}
  /\ next # None => next - Hour <= mono
  /\ step = "delete_readings" => next = None \/ mono >= next
  /\ step \in Pruning => cycle.now \in Int /\ cycle.now <= mono
  /\ step \in {"delete_fans", "commit_prune"} /\ steady => cycle.cutoff >= cycle.now + Offset - days
  /\ steady /\ next # None /\ mono < next =>
       /\ \A row \in db : row.ts >= (next - Hour) + Offset - days
       /\ step \in Writing => cycle.ts >= (next - Hour) + Offset - days
  /\ OldRowsGo

IInv == FiledInv /\ WrittenInv /\ CommittingInv
=============================================================================
