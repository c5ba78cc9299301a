---------------------------- MODULE HistoryProofs ----------------------------
(* The history under failures, kills, clock changes and migrations, for any  *)
(* identifiers, retention and number of cycles.                              *)
EXTENDS History, FiniteSetTheorems, TLAPS

(* A drive is spelt in one way only. *)
LEMMA NormalText ==
  ASSUME NEW kind, NEW text \in Text
  PROVE  Normal(kind, text) \in Text /\ Normal(kind, Normal(kind, text)) = Normal(kind, text)
BY DEF Normal, Text

(* migrate_legacy_drive_sensor_id gives a clear old identifier the canonical *)
(* form of the drive it means.                                               *)
LEMMA MigratedIsCanonical ==
  ASSUME NEW id \in FiledId, IsClear(id)
  PROVE  GoodId(Migrated(id)) /\ ~IsClear(Migrated(id)) /\ Meaning(Migrated(id)) = Meaning(id)
<1>1. id \in [form : {"smartctl", "drivetemp"}, kind : {"wwid", "serial"}, text : Text, slash : BOOLEAN]
  BY DEF FiledId, Fan, SensorId, IsClear, IsLegacy
<1>2. PICK text \in Text : text = Normal(id.kind, id.text) /\ text = Normal(id.kind, text)
  BY <1>1, NormalText
<1>3. Migrated(id) = [form |-> "drive", kind |-> id.kind, text |-> text]
  BY <1>2 DEF Migrated, DriveId
<1>4. Migrated(id) \in FiledId
  BY <1>1, <1>3 DEF SensorId, FiledId
<1>5. QED
  BY <1>1, <1>2, <1>3, <1>4 DEF GoodId, IsClear, IsLegacy, Meaning

(* No two identifiers that are filed while the service runs mean one drive. *)
LEMMA MeaningIsUnique ==
  ASSUME NEW a, NEW b, GoodId(a), GoodId(b), ~IsClear(a), ~IsClear(b), Meaning(a) = Meaning(b)
  PROVE  a = b
<1>1. CASE a.form = "drive" /\ b.form = "drive"
  <2>1. a \in [form : {"drive"}, kind : {"wwid", "serial"}, text : Text]
        /\ b \in [form : {"drive"}, kind : {"wwid", "serial"}, text : Text]
    BY <1>1 DEF GoodId, FiledId, Fan, SensorId
  <2>2. a.kind = b.kind /\ a.text = b.text
    BY <1>1 DEF GoodId, Meaning
  <2>3. QED
    BY <2>1, <2>2
<1>2. CASE a.form # "drive" /\ b.form # "drive"
  BY <1>2 DEF Meaning
<1>3. ASSUME NEW c, NEW d, GoodId(c), c.form = "drive", d.form # "drive", ~IsClear(d)
      PROVE  Meaning(c) # Meaning(d)
  <2>1. c.kind \in {"wwid", "serial"}
    BY <1>3 DEF GoodId, FiledId, Fan, SensorId
  <2>2. Meaning(c) = <<c.kind, c.text>> /\ Meaning(d) = <<"other", d>>
    BY <1>3 DEF Meaning, IsClear, IsLegacy
  <2>3. QED
    BY <2>1, <2>2
<1>4. QED
  BY <1>1, <1>2, <1>3

LEMMA FanIsGood == GoodId(Fan) /\ ~IsClear(Fan)
BY DEF GoodId, FiledId, Fan, IsClear, IsLegacy
----------------------------------------------------------------------------
(* Rows of the tables.                                                     *)

(* Filing a row anew keeps all of it but its identifier. *)
LEMMA RekeyKeepsRows ==
  ASSUME NEW rows, \A row \in rows : GoodRow(row),
         NEW old \in rows, IsOld(old), NEW new \in Rekey(rows, old.id)
  PROVE  /\ GoodRow(new)
         /\ \E row \in rows : /\ new.table = row.table /\ new.n = row.n
                               /\ new.ts = row.ts /\ new.was = row.was
<1>1. PICK row \in rows :
        new = IF row.table = "readings" /\ row.id = old.id
              THEN [row EXCEPT !.id = Migrated(old.id)] ELSE row
  BY DEF Rekey
<1>2. GoodRow(row) /\ GoodRow(old) /\ IsClear(old.id)
  BY DEF IsOld
<1>3. CASE row.table = "readings" /\ row.id = old.id
  <2>1. /\ GoodId(Migrated(old.id)) /\ ~IsClear(Migrated(old.id))
        /\ Meaning(Migrated(old.id)) = Meaning(old.id)
    BY <1>2, MigratedIsCanonical DEF GoodRow, GoodId
  <2>2. new = [row EXCEPT !.id = Migrated(old.id)] /\ Migrated(old.id) \in FiledId
    BY <1>1, <1>3, <2>1 DEF GoodId
  <2>3. /\ new \in [table : {"readings", "fan_readings"}, n : Nat, ts : Int, id : FiledId, was : FiledId]
        /\ new.id = Migrated(old.id) /\ new.table = row.table /\ new.n = row.n
        /\ new.ts = row.ts /\ new.was = row.was
    BY <1>2, <2>2 DEF GoodRow
  <2>4. QED
    BY <1>2, <1>3, <2>1, <2>3 DEF GoodRow
<1>4. CASE ~(row.table = "readings" /\ row.id = old.id)
  BY <1>1, <1>2, <1>4
<1>5. QED
  BY <1>3, <1>4

(* Under the recorded identifiers nothing changes at all. *)
LEMMA RekeyAsRecorded ==
  ASSUME NEW rows, \A row \in rows : GoodRow(row), NEW id
  PROVE  AsRecorded(Rekey(rows, id)) = AsRecorded(rows)
<1> DEFINE Moved(row) == IF row.table = "readings" /\ row.id = id
                         THEN [row EXCEPT !.id = Migrated(id)] ELSE row
           Back(row)  == [row EXCEPT !.id = row.was]
<1>1. ASSUME NEW row \in rows PROVE Back(Moved(row)) = Back(row)
  BY DEF GoodRow
<1>2. Rekey(rows, id) = { Moved(row) : row \in rows }
  BY DEF Rekey
<1>3. /\ AsRecorded(rows) = { Back(row) : row \in rows }
      /\ AsRecorded(Rekey(rows, id)) = { Back(row) : row \in Rekey(rows, id) }
  BY DEF AsRecorded
<1> HIDE DEF Moved, Back
<1>4. QED
  BY <1>1, <1>2, <1>3

(* What a cycle inserts. *)
LEMMA InsertedRows ==
  ASSUME IInv, step \in Writing, NEW row \in Readings \cup FanReadings
  PROVE  /\ GoodRow(row) /\ ~IsOld(row)
         /\ row.n = Number /\ row.ts = cycle.ts /\ row.id = row.was
         /\ Number \in Nat \ {0} /\ cycle.ts \in Int
<1>1. Cardinality(written) \in Nat /\ Number \in Nat \ {0}
  BY FS_CardinalityType DEF IInv, WrittenInv, Number
<1>2. cycle.ts \in Int /\ cycle.sensors \subseteq SensorsSeen
  BY DEF IInv, FiledInv
<1>3. CASE row \in Readings
  <2>1. PICK id \in SensorsSeen : row = Row("readings", Number, cycle.ts, id)
    BY <1>2, <1>3 DEF Readings
  <2>2. GoodId(id) /\ ~IsClear(id)
    BY IdsAssumption DEF GoodId, FiledId, IsClear
  <2>3. id \in FiledId
    BY <2>2 DEF GoodId
  <2>4. QED
    BY <1>1, <1>2, <2>1, <2>2, <2>3 DEF Row, GoodRow, IsOld
<1>4. CASE row \in FanReadings
  <2>1. row = Row("fan_readings", Number, cycle.ts, Fan)
    BY <1>4 DEF FanReadings
  <2>2. Fan \in FiledId
    BY DEF FiledId
  <2>3. QED
    BY <1>1, <1>2, <2>1, <2>2, FanIsGood DEF Row, GoodRow, IsOld
<1>5. QED
  BY <1>3, <1>4
----------------------------------------------------------------------------
(* The identifiers.                                                        *)

LEMMA FiledStep == IInv /\ [Next]_vars => FiledInv'
<1> SUFFICES ASSUME IInv, [Next]_vars PROVE FiledInv'
  OBVIOUS
<1> USE DEF FiledInv, InCycle, Writing, Pruning
<1>0. FiledInv
  BY DEF IInv
<1>1. CASE Start
  BY <1>0, <1>1 DEF Start, clock
<1>2. CASE MigrateOne
  <2>1. PICK row \in tx : IsOld(row) /\ tx' = Rekey(tx, row.id)
    BY <1>2 DEF MigrateOne
  <2>2. \A new \in tx' : GoodRow(new)
    BY <1>0, <1>2, <2>1, RekeyKeepsRows DEF MigrateOne
  <2>3. QED
    BY <1>0, <1>2, <2>2 DEF MigrateOne, clock
<1>3. CASE MigrationDone
  BY <1>0, <1>3 DEF MigrationDone, clock
<1>4. CASE Begin
  BY <1>0, <1>4 DEF Begin, clock
<1>5. CASE InsertReadings \/ InsertFans
  <2>1. step \in Writing /\ db' = db /\ cycle' = cycle /\ wall' = wall /\ step' \in {"fans", "commit"}
    BY <1>5 DEF InsertReadings, InsertFans, clock
  <2>2. \A row \in tx' : row \in db \/ row \in Readings \cup FanReadings \/ (step = "fans" /\ row \in tx)
    BY <1>5 DEF InsertReadings, InsertFans
  <2>3. \A row \in tx' : GoodRow(row) /\ ~IsOld(row)
    BY <1>0, <2>1, <2>2, InsertedRows
  <2>4. QED
    BY <1>0, <2>1, <2>3
<1>6. CASE Commit
  BY <1>0, <1>6 DEF Commit, clock
<1>7. CASE DeleteReadings
  BY <1>0, <1>7 DEF DeleteReadings, clock
<1>8. CASE DeleteFans
  BY <1>0, <1>8 DEF DeleteFans, clock
<1>9. CASE CommitPrune
  BY <1>0, <1>9 DEF CommitPrune, clock
<1>10. CASE CycleFails \/ Crash
  BY <1>0, <1>10 DEF CycleFails, Crash, clock
<1>11. CASE Tick \/ SetClock \/ SetDays
  <2>1. wall' \in Int
    BY <1>0, <1>11, BoundsAssumption DEF Tick, SetClock, SetDays
  <2>2. UNCHANGED service
    BY <1>11 DEF Tick, SetClock, SetDays
  <2>3. QED
    BY <1>0, <2>1, <2>2 DEF service
<1>12. CASE UNCHANGED vars
  BY <1>0, <1>12 DEF vars, clock, service
<1>13. QED
  BY <1>1, <1>2, <1>3, <1>4, <1>5, <1>6, <1>7, <1>8, <1>9, <1>10, <1>11, <1>12 DEF Next
----------------------------------------------------------------------------
(* The cycles.                                                             *)

LEMMA KeptRows ==
  ASSUME NEW rows, \A row \in rows : GoodRow(row), NEW w
  PROVE  /\ \A a \in rows : a.n = w.n => [a EXCEPT !.id = a.was] \in Kept(rows, w)
         /\ \A k \in Kept(rows, w) : \E a \in rows :
              k = [a EXCEPT !.id = a.was] /\ a.n = w.n /\ k.n = a.n /\ k.ts = a.ts
<1>1. \A a \in rows : LET k == [a EXCEPT !.id = a.was] IN k.n = a.n /\ k.ts = a.ts
  BY DEF GoodRow
<1>2. ASSUME NEW a \in rows, a.n = w.n PROVE [a EXCEPT !.id = a.was] \in Kept(rows, w)
  BY <1>1, <1>2 DEF Kept, AsRecorded
<1>3. ASSUME NEW k \in Kept(rows, w)
      PROVE  \E a \in rows : k = [a EXCEPT !.id = a.was] /\ a.n = w.n /\ k.n = a.n /\ k.ts = a.ts
  <2>1. PICK a \in rows : k = [a EXCEPT !.id = a.was] /\ k.n = w.n
    BY DEF Kept, AsRecorded
  <2>2. QED
    BY <1>1, <2>1
<1>4. QED
  BY <1>2, <1>3

(* Tables that were recorded alike have the same cycles. *)
LEMMA RecordedAlike ==
  ASSUME NEW rows, NEW rows2, \A row \in rows \cup rows2 : GoodRow(row),
         AsRecorded(rows) = AsRecorded(rows2)
  PROVE  /\ \A w : Kept(rows, w) = Kept(rows2, w)
         /\ \A a \in rows2 : \E b \in rows : a.n = b.n /\ a.ts = b.ts
<1>1. \A w : Kept(rows, w) = Kept(rows2, w)
  BY DEF Kept
<1>2. ASSUME NEW a \in rows2 PROVE \E b \in rows : a.n = b.n /\ a.ts = b.ts
  <2>1. [a EXCEPT !.id = a.was] \in AsRecorded(rows)
    BY DEF AsRecorded
  <2>2. PICK b \in rows : [a EXCEPT !.id = a.was] = [b EXCEPT !.id = b.was]
    BY <2>1 DEF AsRecorded
  <2>3. /\ [a EXCEPT !.id = a.was].n = a.n /\ [a EXCEPT !.id = a.was].ts = a.ts
        /\ [b EXCEPT !.id = b.was].n = b.n /\ [b EXCEPT !.id = b.was].ts = b.ts
    BY DEF GoodRow
  <2>4. QED
    BY <2>2, <2>3
<1>3. QED
  BY <1>1, <1>2

(* While nothing is committed, the retention only moves on. *)
LEMMA UncommittedStep ==
  ASSUME WrittenInv, UNCHANGED <<db, written>>, horizon \in Int, horizon' \in Int, horizon' >= horizon,
         \A row \in db : GoodRow(row)
  PROVE  WrittenInv'
<1>1. \A row : row.ts \in Int /\ row.ts < horizon => row.ts < horizon'
  OBVIOUS
<1>2. QED
  BY <1>1 DEF WrittenInv

(* A committed cycle is there as a whole. *)
LEMMA CommitStep == IInv /\ Commit => WrittenInv'
<1> SUFFICES ASSUME IInv, Commit PROVE WrittenInv'
  OBVIOUS
<1> DEFINE new == [n |-> Number, rows |-> Readings \cup FanReadings]
<1>1. /\ step = "commit" /\ db' = db \cup new.rows /\ written' = written \cup {new}
      /\ horizon' = horizon
  BY DEF Commit, IInv, CommittingInv
<1>2. /\ WrittenInv /\ \A row \in db : GoodRow(row)
      /\ \A row \in new.rows : GoodRow(row) /\ row.n = Number /\ row.ts = cycle.ts
                             /\ row.id = row.was /\ row.ts \in Int
  BY <1>1, InsertedRows DEF IInv, FiledInv, Writing
<1>3. /\ Cardinality(written) \in Nat /\ Number = Cardinality(written) + 1
      /\ IsFiniteSet(written) /\ \A w \in written : w.n \in 1 .. Cardinality(written)
  BY <1>2, FS_CardinalityType DEF WrittenInv, Number
<1>4. new.n = Number /\ new \notin written
  BY <1>3
<1>5. IsFiniteSet(written') /\ Cardinality(written') = Number
  BY <1>1, <1>3, <1>4, FS_AddElement
<1>6. \A row \in db : row.n # Number
  BY <1>2, <1>3 DEF WrittenInv, GoodRow
<1>7. AsRecorded(db') = AsRecorded(db) \cup new.rows
  <2>1. \A row \in new.rows : [row EXCEPT !.id = row.was] = row
    BY <1>2 DEF GoodRow
  <2> HIDE DEF new
  <2>2. QED
    BY <1>1, <2>1 DEF AsRecorded
<1>8. \A row \in AsRecorded(db) : row.n # Number
  BY <1>6, KeptRows, <1>2 DEF AsRecorded, GoodRow
<1> HIDE DEF new
<1>9. \A w \in written : Kept(db', w) = Kept(db, w)
  BY <1>2, <1>3, <1>7 DEF Kept
<1>10. Kept(db', new) = new.rows
  BY <1>2, <1>4, <1>7, <1>8 DEF Kept
<1>11. \A row \in db' : row.n # 0 => \E w \in written' : w.n = row.n
  BY <1>1, <1>2, <1>4 DEF WrittenInv
<1>12. \A a, b \in db' : a.n = b.n => a.ts = b.ts
  BY <1>1, <1>2, <1>6 DEF WrittenInv
<1>13. \A w \in written' : \A v \in written' : v.n = w.n => v = w
  BY <1>1, <1>2, <1>3, <1>4 DEF WrittenInv
<1>14. \A w \in written' : /\ w.n \in 1 .. Cardinality(written')
                           /\ \A row \in w.rows : row.n = w.n /\ row.ts \in Int
  BY <1>1, <1>2, <1>3, <1>4, <1>5 DEF WrittenInv
<1>15. QED
  BY <1>1, <1>2, <1>5, <1>9, <1>10, <1>11, <1>12, <1>13, <1>14 DEF WrittenInv

(* A cycle goes as a whole, once it is out of retention. *)
LEMMA PruneStep == IInv /\ CommitPrune => WrittenInv'
<1> SUFFICES ASSUME IInv, CommitPrune PROVE WrittenInv'
  OBVIOUS
<1>1. /\ db' = { row \in db : row.ts >= cycle.cutoff } /\ written' = written /\ horizon' = horizon
      /\ cycle.cutoff \in Int /\ horizon \in Int /\ cycle.cutoff <= horizon
  BY DEF CommitPrune, IInv, CommittingInv
<1>2. WrittenInv /\ \A row \in db : GoodRow(row) /\ row.ts \in Int
  BY DEF IInv, FiledInv, GoodRow
<1>3. ASSUME NEW w \in written
      PROVE  Kept(db', w) = w.rows \/ (Kept(db', w) = {} /\ \A row \in w.rows : row.ts < horizon)
  <2>1. \A row \in db' : GoodRow(row) /\ row \in db
    BY <1>1, <1>2
  <2>2. \A k \in Kept(db', w) : k \in Kept(db, w) /\ \E a \in db : a.n = w.n /\ k.ts = a.ts /\ a.ts >= cycle.cutoff
    BY <1>1, <1>2, <2>1, KeptRows
  <2>3. \A k \in Kept(db, w) : \E a \in db : /\ k = [a EXCEPT !.id = a.was]
                                             /\ a.n = w.n /\ k.ts = a.ts
    BY <1>2, KeptRows
  <2>4. CASE Kept(db, w) # w.rows
    <3>1. Kept(db, w) = {} /\ \A row \in w.rows : row.ts < horizon
      BY <1>2, <2>4 DEF WrittenInv
    <3>2. QED
      BY <2>2, <3>1
  <2>5. CASE Kept(db, w) = w.rows /\ \E a \in db' : a.n = w.n
    <3>1. \A a \in db : a.n = w.n => a.ts >= cycle.cutoff
      BY <1>1, <1>2, <2>5 DEF WrittenInv
    <3>2. \A k \in Kept(db, w) : k \in Kept(db', w)
      BY <1>1, <2>1, <2>3, <3>1, KeptRows
    <3>3. QED
      BY <2>2, <2>5, <3>2
  <2>6. CASE Kept(db, w) = w.rows /\ ~\E a \in db' : a.n = w.n
    <3>1. Kept(db', w) = {}
      BY <2>1, <2>6, KeptRows
    <3>2. \A k \in w.rows : k.ts < cycle.cutoff
      BY <1>1, <1>2, <2>3, <2>6
    <3>3. \A k \in w.rows : k.ts \in Int
      BY <1>2 DEF WrittenInv
    <3>4. QED
      BY <1>1, <3>1, <3>2, <3>3
  <2>7. QED
    BY <2>4, <2>5, <2>6
<1>4. QED
  BY <1>1, <1>2, <1>3 DEF WrittenInv

LEMMA HorizonMovesOn ==
  IInv /\ [Next]_vars => /\ horizon' \in Int /\ horizon' >= horizon /\ horizon \in Int
                         /\ days' \in Days /\ wall' - days' <= horizon'
<1> SUFFICES ASSUME IInv, [Next]_vars
             PROVE  /\ horizon' \in Int /\ horizon' >= horizon /\ horizon \in Int
                    /\ days' \in Days /\ wall' - days' <= horizon'
  OBVIOUS
<1>1. wall \in Int /\ horizon \in Int /\ days \in Days /\ wall - days <= horizon
      /\ Days \subseteq Int /\ Steps \subseteq Int
  BY BoundsAssumption DEF IInv, FiledInv, CommittingInv
<1>2. CASE Tick \/ SetClock \/ SetDays
  <2>1. wall' \in Int /\ days' \in Days /\ horizon' = Later(horizon, wall' - days')
    <3>1. CASE Tick
      BY <1>1, <3>1 DEF Tick
    <3>2. CASE SetClock
      BY <1>1, <3>2 DEF SetClock
    <3>3. CASE SetDays
      BY <1>1, <3>3 DEF SetDays, clock
    <3>4. QED
      BY <1>2, <3>1, <3>2, <3>3
  <2>2. wall' - days' \in Int
    BY <1>1, <2>1
  <2>3. \A a, b \in Int : Later(a, b) \in Int /\ Later(a, b) >= a /\ b <= Later(a, b)
    BY DEF Later
  <2>4. QED
    BY <1>1, <2>1, <2>2, <2>3
<1>3. CASE UNCHANGED <<clock, horizon>>
  BY <1>1, <1>3 DEF clock
<1>4. QED
  BY <1>2, <1>3 DEF Next, Start, MigrateOne, MigrationDone, Begin, InsertReadings, InsertFans, Commit,
     DeleteReadings, DeleteFans, CommitPrune, CycleFails, Crash, Unremarkable, vars, past

LEMMA WrittenStep == IInv /\ [Next]_vars => WrittenInv'
<1> SUFFICES ASSUME IInv, [Next]_vars PROVE WrittenInv'
  OBVIOUS
<1>1. WrittenInv /\ \A row \in db : GoodRow(row)
  BY DEF IInv, FiledInv
<1>2. CASE MigrationDone
  <2>1. /\ step = "migrate" /\ db' = tx /\ AsRecorded(tx) = AsRecorded(db) /\ UNCHANGED <<written, horizon>>
        /\ \A row \in tx : GoodRow(row)
    BY <1>2 DEF MigrationDone, IInv, CommittingInv, FiledInv, Unremarkable
  <2>2. /\ \A w : Kept(db', w) = Kept(db, w)
        /\ \A a \in db' : \E b \in db : a.n = b.n /\ a.ts = b.ts
    BY <1>1, <2>1, RecordedAlike
  <2>3. /\ \A row \in db' : row.n # 0 => \E w \in written : w.n = row.n
        /\ \A a, b \in db' : a.n = b.n => a.ts = b.ts
    BY <1>1, <2>2 DEF WrittenInv
  <2>4. QED
    BY <1>1, <2>1, <2>2, <2>3 DEF WrittenInv
<1>3. CASE UNCHANGED <<db, written>>
  BY <1>1, <1>3, HorizonMovesOn, UncommittedStep
<1>4. QED
  BY <1>2, <1>3, CommitStep, PruneStep
  DEF Next, Start, MigrateOne, Begin, InsertReadings, InsertFans, DeleteReadings, DeleteFans,
      CycleFails, Crash, Tick, SetClock, SetDays, Unremarkable, vars, service, past

LEMMA CommittingStep == IInv /\ [Next]_vars => CommittingInv'
<1> SUFFICES ASSUME IInv, [Next]_vars PROVE CommittingInv'
  OBVIOUS
<1> USE DEF CommittingInv, InCycle, Writing, Pruning
<1>1. CommittingInv /\ FiledInv
  BY DEF IInv
<1>2. horizon' \in Int /\ horizon' >= horizon /\ horizon \in Int /\ days' \in Days /\ wall' - days' <= horizon'
  BY HorizonMovesOn
<1>3. CASE Start
  BY <1>2, <1>3 DEF Start
<1>4. CASE MigrateOne
  <2>1. PICK row \in tx : IsOld(row) /\ tx' = Rekey(tx, row.id)
    BY <1>4 DEF MigrateOne
  <2>2. AsRecorded(tx') = AsRecorded(db)
    BY <1>1, <1>4, <2>1, RekeyAsRecorded DEF MigrateOne, FiledInv
  <2>3. QED
    BY <1>2, <1>4, <2>2 DEF MigrateOne
<1>5. CASE MigrationDone \/ CycleFails \/ Crash
  BY <1>2, <1>5 DEF MigrationDone, CycleFails, Crash
<1>6. CASE Begin
  BY <1>2, <1>6 DEF Begin
<1>7. CASE InsertReadings
  BY <1>1, <1>2, <1>7 DEF InsertReadings, Readings, Number, Unremarkable
<1>8. CASE InsertFans
  BY <1>1, <1>2, <1>8 DEF InsertFans, Readings, FanReadings, Number, Unremarkable
<1>9. CASE Commit
  BY <1>1, <1>2, <1>9 DEF Commit
<1>10. CASE DeleteReadings
  <2>1. /\ step' = "delete_fans" /\ cycle' = [cycle EXCEPT !.cutoff = wall - days]
        /\ tx' = db \ Expired(db, "readings", wall - days) /\ db' = db
        /\ UNCHANGED <<horizon, wall, days>>
    BY <1>10 DEF DeleteReadings, clock
  <2>2. DOMAIN cycle = {"ts", "sensors", "now", "cutoff"} /\ wall - days \in Int /\ wall - days <= horizon
    BY <1>1, <1>10, BoundsAssumption DEF DeleteReadings, FiledInv
  <2>3. cycle'.cutoff = wall - days /\ DOMAIN cycle' = {"ts", "sensors", "now", "cutoff"}
    BY <2>1, <2>2
  <2>4. QED
    BY <1>2, <2>1, <2>2, <2>3
<1>11. CASE DeleteFans
  <2>1. /\ step' = "commit_prune" /\ UNCHANGED <<db, cycle, horizon>>
        /\ tx = db \ Expired(db, "readings", cycle.cutoff)
        /\ tx' = tx \ Expired(tx, "fan_readings", cycle.cutoff)
        /\ cycle.cutoff \in Int /\ cycle.cutoff <= horizon
        /\ DOMAIN cycle = {"ts", "sensors", "now", "cutoff"}
    BY <1>1, <1>11 DEF DeleteFans, Unremarkable
  <2>2. \A row \in db : row.table \in {"readings", "fan_readings"} /\ row.ts \in Int
    BY <1>1 DEF FiledInv, GoodRow
  <2>3. tx' = { row \in db : row.ts >= cycle.cutoff }
    BY <2>1, <2>2 DEF Expired
  <2>4. QED
    BY <1>2, <2>1, <2>3
<1>12. CASE CommitPrune
  BY <1>2, <1>12 DEF CommitPrune
<1>13. CASE Tick \/ SetClock \/ SetDays \/ UNCHANGED vars
  <2>1. UNCHANGED <<service, written>>
    BY <1>13 DEF Tick, SetClock, SetDays, vars, past
  <2>2. Readings' = Readings /\ FanReadings' = FanReadings
    BY <2>1 DEF service, Readings, FanReadings, Number
  <2>3. \A c \in Int : c <= horizon => c <= horizon'
    BY <1>2
  <2>4. QED
    BY <1>1, <1>2, <2>1, <2>2, <2>3 DEF service
<1>14. QED
  BY <1>3, <1>4, <1>5, <1>6, <1>7, <1>8, <1>9, <1>10, <1>11, <1>12, <1>13 DEF Next

LEMMA InitInv == Init => IInv
<1> SUFFICES ASSUME Init PROVE IInv
  OBVIOUS
<1>1. PICK ids \in {{}, OldIds} : db = { Row("readings", 0, 0, id) : id \in ids }
  BY DEF Init
<1>2. \A row \in db : GoodRow(row) /\ row.n = 0 /\ row.ts = 0
  <2>1. ASSUME NEW id \in OldIds PROVE GoodRow(Row("readings", 0, 0, id))
    BY IdsAssumption DEF GoodRow, GoodId, FiledId, Row
  <2>2. QED
    BY <1>1, <2>1 DEF Row
<1>3. FiledInv
  BY <1>2 DEF Init, FiledInv, InCycle, Writing, Pruning
<1>4. WrittenInv
  BY <1>2, FS_EmptySet DEF Init, WrittenInv
<1>5. CommittingInv
  BY BoundsAssumption DEF Init, CommittingInv, InCycle, Writing, Pruning
<1>6. QED
  BY <1>3, <1>4, <1>5 DEF IInv

(* The invariant behind both theorems is inductive. *)
THEOREM HistoryInvariant == Spec => []IInv
<1>1. IInv /\ [Next]_vars => IInv'
  BY FiledStep, WrittenStep, CommittingStep DEF IInv
<1>2. QED
  BY <1>1, InitInv, PTL DEF Spec

(* However often the migration is interrupted and whatever an earlier       *)
(* version recorded: while the service runs each drive has one identifier,  *)
(* and each row belongs to the drive it was recorded for.                   *)
THEOREM FollowsDrive == Spec => []HistoryFollowsDrive
<1>1. IInv => HistoryFollowsDrive
  <2> SUFFICES ASSUME IInv PROVE HistoryFollowsDrive
    OBVIOUS
  <2>1. \A row \in db : GoodRow(row) /\ (IsOld(row) => step \in {"down", "migrate"})
    BY DEF IInv, FiledInv
  <2>2. ASSUME NEW a \in db, NEW b \in db, step \notin {"down", "migrate"}, Meaning(a.was) = Meaning(b.was)
        PROVE  a.id = b.id
    <3>1. \A row \in {a, b} : GoodId(row.id) /\ ~IsClear(row.id) /\ Meaning(row.id) = Meaning(row.was)
      BY <2>1, <2>2 DEF GoodRow, IsOld
    <3>2. QED
      BY <2>2, <3>1, MeaningIsUnique
  <2>3. QED
    BY <2>1, <2>2 DEF HistoryFollowsDrive, GoodRow
<1>2. QED
  BY <1>1, HistoryInvariant, PTL

(* Whatever statement fails or is the last before a kill, a cycle is in the *)
(* tables as a whole or not at all, and goes only once it is out of         *)
(* retention.                                                               *)
THEOREM WholeCycles == Spec => []CyclesAreWhole
<1>1. IInv => CyclesAreWhole
  <2> SUFFICES ASSUME IInv PROVE CyclesAreWhole
    OBVIOUS
  <2>1. WrittenInv /\ \A row \in db : GoodRow(row)
    BY DEF IInv, FiledInv
  <2>2. ASSUME NEW w \in written
        PROVE  LET kept == { row \in db : row.n = w.n }
               IN  \/ { [row EXCEPT !.id = row.was] : row \in kept } = w.rows
                   \/ kept = {} /\ \A row \in w.rows : row.ts < horizon
    <3> DEFINE kept == { row \in db : row.n = w.n }
    <3>1. { [row EXCEPT !.id = row.was] : row \in kept } = Kept(db, w)
      <4>1. \A a \in db : [a EXCEPT !.id = a.was].n = a.n
        BY <2>1 DEF GoodRow
      <4>2. QED
        BY <4>1 DEF Kept, AsRecorded
    <3>2. Kept(db, w) = {} => kept = {}
      <4>1. \A a \in db : a.n = w.n => [a EXCEPT !.id = a.was] \in Kept(db, w)
        BY <2>1, KeptRows
      <4>2. QED
        BY <4>1
    <3>3. QED
      BY <2>1, <3>1, <3>2 DEF WrittenInv
  <2>3. ASSUME NEW a \in db, NEW b \in db, NEW since \in 0 .. MaxTime, a.n = b.n
        PROVE  a \in Query(since) <=> b \in Query(since)
    BY <2>1, <2>3 DEF WrittenInv, Query
  <2>4. QED
    BY <2>1, <2>2, <2>3 DEF CyclesAreWhole, WrittenInv
<1>2. QED
  BY <1>1, HistoryInvariant, PTL

----------------------------------------------------------------------------
(* The pruning.                                                            *)

LEMMA Times ==
  ASSUME IInv, PruningInv
  PROVE  /\ wall \in Int /\ mono \in Int /\ days \in Nat /\ Hour \in Nat /\ Hour > 0 /\ Offset \in Int
         /\ None \notin Int /\ \A row \in db : row.ts \in Int
BY BoundsAssumption DEF IInv, FiledInv, CommittingInv, PruningInv, Offset, GoodRow

(* A step that keeps rows, clock and schedule, and ends no cycle. *)
LEMMA QuietStep ==
  ASSUME PruningInv, UNCHANGED <<clock, db, next, steady>>, fresh' = None,
         step' # "delete_readings",
         step' \in Pruning => /\ cycle'.now \in Int /\ cycle'.now <= mono
                              /\ steady => cycle'.cutoff >= cycle'.now + Offset - days,
         (step' \in Writing /\ steady /\ next # None /\ mono < next)
            => cycle'.ts >= (next - Hour) + Offset - days
  PROVE  PruningInv'
BY DEF PruningInv, OldRowsGo, Offset, clock, Pruning, Writing

LEMMA PruningStep == IInv /\ PruningInv /\ [Next]_vars => PruningInv'
<1> SUFFICES ASSUME IInv, PruningInv, [Next]_vars PROVE PruningInv'
  OBVIOUS
<1>0. /\ wall \in Int /\ mono \in Int /\ days \in Nat /\ Hour \in Nat /\ Hour > 0 /\ Offset \in Int
      /\ None \notin Int /\ \A row \in db : row.ts \in Int
      /\ next \in Int \cup {None} /\ (next # None => next - Hour <= mono)
  BY Times DEF PruningInv
<1>1. CASE Start \/ MigrateOne \/ CycleFails
  <2>1. /\ UNCHANGED <<clock, db, next, steady>> /\ fresh' = None
        /\ step' \notin Pruning \cup Writing
    BY <1>1 DEF Start, MigrateOne, CycleFails, Unremarkable, Pruning, Writing
  <2>2. QED
    BY <2>1, QuietStep DEF Pruning
<1>2. CASE MigrationDone \/ Crash
  BY <1>0, <1>2 DEF MigrationDone, Crash, Unremarkable, PruningInv, OldRowsGo, Offset, clock, Pruning, Writing
<1>3. CASE Begin
  <2>1. /\ UNCHANGED <<clock, db, next, steady>> /\ fresh' = None
        /\ step' = "readings" /\ cycle'.ts = wall
    BY <1>3 DEF Begin, Unremarkable
  <2>2. next # None => wall >= (next - Hour) + Offset - days
    BY <1>0 DEF Offset
  <2>3. QED
    BY <2>1, <2>2, QuietStep DEF Pruning
<1>4. CASE InsertReadings \/ InsertFans
  <2>1. /\ UNCHANGED <<clock, db, next, steady, cycle>> /\ fresh' = None
        /\ step' \in Writing \ Pruning /\ step \in Writing
    BY <1>4 DEF InsertReadings, InsertFans, Unremarkable, Writing, Pruning
  <2>2. QED
    BY <2>1, QuietStep DEF PruningInv, Pruning
<1>5. CASE Commit
  <2>1. /\ step = "commit" /\ UNCHANGED <<clock, next, steady>>
        /\ db' = db \cup Readings \cup FanReadings
    BY <1>5 DEF Commit, IInv, CommittingInv
  <2>2. \A row \in Readings \cup FanReadings : row.ts = cycle.ts /\ row.ts \in Int
    BY <2>1, InsertedRows DEF Writing
  <2>3. CASE next # None /\ mono < next
    <3>1. step' = "idle" /\ fresh' = mono
      BY <1>5, <2>3 DEF Commit
    <3>2. steady => \A row \in db' : row.ts >= (next - Hour) + Offset - days
      BY <2>1, <2>2, <2>3 DEF PruningInv, Writing
    <3>3. steady => \A row \in db' : row.ts > (mono + Offset) - days - Hour
      BY <1>0, <2>1, <2>2, <2>3, <3>2
    <3>4. QED
      BY <1>0, <2>1, <3>1, <3>2, <3>3 DEF PruningInv, OldRowsGo, Offset, clock, Pruning, Writing
  <2>4. CASE ~(next # None /\ mono < next)
    <3>1. step' = "delete_readings" /\ fresh' = None /\ cycle' = [cycle EXCEPT !.now = mono]
      BY <1>5, <2>4 DEF Commit
    <3>2. cycle'.now = mono
      BY <2>1, <3>1 DEF IInv, CommittingInv, InCycle, Writing
    <3>3. next = None \/ mono >= next
      BY <1>0, <2>4
    <3>4. QED
      BY <1>0, <2>1, <2>4, <3>1, <3>2, <3>3 DEF PruningInv, OldRowsGo, Offset, clock, Pruning, Writing
  <2>5. QED
    BY <2>3, <2>4
<1>6. CASE DeleteReadings
  <2>1. /\ step = "delete_readings" /\ step' = "delete_fans" /\ UNCHANGED <<clock, db, next>>
        /\ steady' = TRUE /\ fresh' = None /\ cycle' = [cycle EXCEPT !.cutoff = wall - days]
    BY <1>6 DEF DeleteReadings
  <2>2. cycle'.cutoff = wall - days /\ cycle'.now = cycle.now
    BY <2>1 DEF IInv, CommittingInv, InCycle, Pruning
  <2>3. (next = None \/ mono >= next) /\ cycle.now \in Int /\ cycle.now <= mono
    BY <2>1 DEF PruningInv, Pruning
  <2>4. wall - days >= cycle.now + Offset - days
    BY <1>0, <2>3 DEF Offset
  <2>5. ~(next # None /\ mono < next)
    BY <1>0, <2>3
  <2>6. QED
    BY <1>0, <2>1, <2>2, <2>3, <2>4, <2>5 DEF PruningInv, OldRowsGo, Offset, clock, Pruning, Writing
<1>7. CASE DeleteFans
  <2>1. /\ UNCHANGED <<clock, db, next, steady, cycle>> /\ fresh' = None
        /\ step' = "commit_prune" /\ step = "delete_fans"
    BY <1>7 DEF DeleteFans, Unremarkable
  <2>2. QED
    BY <2>1, QuietStep DEF PruningInv, Pruning, Writing
<1>8. CASE CommitPrune
  <2>1. /\ step = "commit_prune" /\ step' = "idle" /\ UNCHANGED <<clock, steady>>
        /\ next' = cycle.now + Hour /\ fresh' = cycle.now
        /\ db' = { row \in db : row.ts >= cycle.cutoff } /\ cycle.cutoff \in Int
    BY <1>8 DEF CommitPrune, IInv, CommittingInv
  <2>2. /\ cycle.now \in Int /\ cycle.now <= mono
        /\ steady => cycle.cutoff >= cycle.now + Offset - days
    BY <2>1 DEF PruningInv, Pruning
  <2>3. steady => \A row \in db' : row.ts >= cycle.now + Offset - days
    BY <1>0, <2>1, <2>2
  <2>4. steady => \A row \in db' : row.ts > (cycle.now + Offset) - days - Hour
    BY <1>0, <2>1, <2>2, <2>3
  <2>5. next' \in Int /\ next' - Hour = cycle.now
    BY <1>0, <2>1, <2>2
  <2>6. QED
    BY <1>0, <2>1, <2>2, <2>3, <2>4, <2>5 DEF PruningInv, OldRowsGo, Offset, clock, Pruning, Writing
<1>9. CASE Tick
  <2>1. /\ mono' = mono + 1 /\ wall' = wall + 1 /\ fresh' = None
        /\ UNCHANGED <<days, db, tx, step, cycle, next, steady>>
    BY <1>9 DEF Tick, service
  <2>2. Offset' = Offset /\ mono' \in Nat /\ mono' \in Int
    BY <1>0, <2>1 DEF Offset, PruningInv
  <2>3. \A t \in Int : (t <= mono => t <= mono') /\ (mono' < t => mono < t) /\ (mono >= t => mono' >= t)
    BY <1>0, <2>1
  <2>4. next # None => next - Hour \in Int /\ next \in Int
    BY <1>0
  <2>5. QED
    BY <1>0, <2>1, <2>2, <2>3, <2>4 DEF PruningInv, OldRowsGo, Pruning
<1>10. CASE SetClock \/ SetDays
  <2>1. steady' = FALSE /\ fresh' = None /\ UNCHANGED <<mono, db, tx, step, cycle, next>>
    BY <1>10 DEF SetClock, SetDays, service
  <2>2. QED
    BY <1>0, <2>1 DEF PruningInv, OldRowsGo, Pruning
<1>11. CASE UNCHANGED vars
  BY <1>11 DEF vars, clock, service, past, PruningInv, OldRowsGo, Offset
<1>12. QED
  BY <1>1, <1>2, <1>3, <1>4, <1>5, <1>6, <1>7, <1>8, <1>9, <1>10, <1>11 DEF Next

(* A pruning that fails is made up for by the next cycle: no cycle ends well *)
(* with rows that were due an hour before.                                   *)
THEOREM PruningTheorem == Spec => []OldRowsGo
<1>1. Init => PruningInv
  BY BoundsAssumption DEF Init, PruningInv, OldRowsGo, Pruning, Writing
<1>2. PruningInv => OldRowsGo
  BY DEF PruningInv
<1>3. QED
  BY <1>1, <1>2, PruningStep, HistoryInvariant, PTL DEF Spec

----------------------------------------------------------------------------
(* Types and bounds: in particular no transaction outlives its cycle.      *)

Bounded == mono <= MaxTime /\ Cardinality(written) <= MaxCycles
             /\ (step \in Writing => Cardinality(written) < MaxCycles)
Closed  == step \notin {"migrate", "fans", "commit", "delete_fans", "commit_prune"} => tx = None

LEMMA ClosedStep == Closed /\ [Next]_vars => Closed'
BY DEF Closed, Next, Start, MigrateOne, MigrationDone, Begin, InsertReadings,
     InsertFans, Commit, DeleteReadings, DeleteFans, CommitPrune, CycleFails, Crash, Tick, SetClock, SetDays,
     service, vars

LEMMA BoundedStep == IInv /\ PruningInv /\ Bounded /\ [Next]_vars => Bounded'
<1> SUFFICES ASSUME IInv, PruningInv, Bounded, [Next]_vars PROVE Bounded'
  OBVIOUS
<1>1. /\ IsFiniteSet(written) /\ Cardinality(written) \in Nat
      /\ mono \in Nat /\ MaxTime \in Nat /\ MaxCycles \in Nat
  BY FS_CardinalityType, BoundsAssumption DEF IInv, WrittenInv, PruningInv
<1>2. CASE Commit
  <2>1. \E w : written' = written \cup {w}
    BY <1>2 DEF Commit
  <2>2. Cardinality(written') <= Cardinality(written) + 1 /\ Cardinality(written') \in Nat
    BY <1>1, <2>1, FS_AddElement
  <2>3. step = "commit" /\ step' \notin Writing /\ mono' = mono
    BY <1>2 DEF Commit, Writing, clock
  <2>4. QED
    BY <1>1, <2>2, <2>3 DEF Bounded, Writing
<1>3. CASE Tick
  BY <1>1, <1>3 DEF Tick, Bounded, service
<1>4. CASE ~Commit /\ ~Tick
  <2>1. UNCHANGED <<mono, written>>
    BY <1>4 DEF Next, Start, MigrateOne, MigrationDone, Begin, InsertReadings,
     InsertFans, DeleteReadings, DeleteFans, CommitPrune, CycleFails, Crash, SetClock, SetDays,
       Unremarkable, clock, past, vars
  <2>2. step' \in Writing => step \in Writing \/ Cardinality(written) < MaxCycles
    BY <1>4 DEF Next, Start, MigrateOne, MigrationDone, Begin, InsertReadings,
     InsertFans, DeleteReadings, DeleteFans, CommitPrune, CycleFails, Crash, SetClock, SetDays,
       service, vars, Writing
  <2>3. QED
    BY <2>1, <2>2 DEF Bounded
<1>5. QED
  BY <1>2, <1>3, <1>4

(* Every reachable state is well typed, and outside the steps of a         *)
(* transaction none is open, whatever failed.                              *)
THEOREM TypeCorrect == Spec => []TypeOK
<1>1. Init => PruningInv /\ Closed /\ Bounded
  BY BoundsAssumption, FS_EmptySet DEF Init, PruningInv, OldRowsGo, Pruning, Writing, Closed, Bounded
<1>2. IInv /\ PruningInv /\ Closed /\ Bounded => TypeOK
  BY DEF IInv, FiledInv, CommittingInv, PruningInv, Closed, Bounded, TypeOK, GoodRow, InCycle, Writing, Pruning
<1>3. QED
  BY <1>1, <1>2, PruningStep, ClosedStep, BoundedStep, HistoryInvariant, PTL DEF Spec
=============================================================================
