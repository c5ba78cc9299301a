------------------------- MODULE DeviceScanProofs -------------------------
(***************************************************************************)
(* Theorems about DeviceScan for every host and every configuration: the   *)
(* inductive invariant ScanInv, what the merging of sensors of one drive   *)
(* yields, and what the dashboard shows.                                   *)
(***************************************************************************)
EXTENDS DeviceScan, SequenceTheorems, FiniteSetTheorems, WellFoundedInduction, TLAPS

(* Every non-empty set of natural numbers has a least element. *)
LEMMA LeastNatural ==
  ASSUME NEW S \in SUBSET Nat, S # {}
  PROVE  \E m \in S : \A n \in S : m <= n
<1>1. PICK m \in S : \A n \in S : ~ (<<n, m>> \in OpToRel(<, Nat))
  BY NatLessThanWellFounded, WFMin, Zenon
<1>2. ASSUME NEW n \in S, n < m PROVE FALSE
  <2>1. <<n, m>> \in OpToRel(<, Nat)
    BY <1>2, SMT DEF OpToRel
  <2>2. QED
    BY <1>1, <2>1
<1>3. QED
  BY <1>2

(* Every non-empty set of indices has a greatest element. *)
LEMMA LargestIndex ==
  ASSUME NEW n \in Nat, NEW s \in SUBSET (1 .. n), s # {}
  PROVE  Max(s) \in s /\ \A i \in s : i <= Max(s)
<1>1. PICK above : above = { k \in Nat : \A i \in s : i <= k }
  OBVIOUS
<1>2. n \in above /\ above \in SUBSET Nat
  BY <1>1
<1>3. PICK m \in above : \A k \in above : m <= k
  BY <1>2, LeastNatural
<1>4. m \in Nat /\ \A i \in s : i <= m
  BY <1>1, <1>3
<1>5. m \in s
  <2>1. SUFFICES ASSUME m \notin s PROVE FALSE
    OBVIOUS
  <2>2. \A i \in s : i \in Nat /\ i > 0 /\ i < m
    BY <1>4, <2>1
  <2>3. m - 1 \in above
    <3>1. m \in Nat /\ m > 0
      <4>1. PICK i \in s : TRUE
        OBVIOUS
      <4>2. QED
        BY <1>4, <2>2, <4>1
    <3>2. m - 1 \in Nat /\ \A i \in s : i <= m - 1
      BY <3>1, <2>2
    <3>3. QED
      BY <1>1, <3>2
  <2>4. QED
    BY <1>3, <1>4, <2>3
<1>6. \E x \in s : \A y \in s : x >= y
  BY <1>4, <1>5
<1>7. QED
  BY <1>6 DEF Max

----------------------------------------------------------------------------
(* Merging the sensors of a drive.                                         *)

(* One step of the fold over sets of indices, on the results g of smaller ones. *)
MergeStep(sensors, g) ==
  [ s \in SUBSET DOMAIN sensors |->
      IF s = {} THEN <<>> ELSE Merged(g[s \ {Max(s)}], sensors[Max(s)]) ]

(* The recursion of FoldLeft has a solution: by least counterexample, one  *)
(* index after the other.                                                  *)
LEMMA MergeExists ==
  ASSUME NEW sensors \in Seq(Sensors)
  PROVE  \E g : g = MergeStep(sensors, g)
<1> DEFINE Solved(n) == \E g : /\ g = [s \in SUBSET DOMAIN sensors |-> g[s]]
                               /\ \A s \in SUBSET DOMAIN sensors :
                                    s \subseteq 1 .. n => g[s] = MergeStep(sensors, g)[s]
<1>0. PICK D : D = DOMAIN sensors
  OBVIOUS
<1>1. Solved(0)
  <2>1. PICK g : g = [s \in SUBSET D |-> <<>>]
    OBVIOUS
  <2>2. \A s \in SUBSET D : s \subseteq 1 .. 0 => s = {}
    OBVIOUS
  <2>3. g = [s \in SUBSET D |-> g[s]]
    BY <2>1
  <2>4. QED
    BY <1>0, <2>1, <2>2, <2>3 DEF MergeStep
<1>2. ASSUME NEW n \in Nat, Solved(n) PROVE Solved(n + 1)
  <2>1. PICK g : /\ g = [s \in SUBSET D |-> g[s]]
                 /\ \A s \in SUBSET D : s \subseteq 1 .. n => g[s] = MergeStep(sensors, g)[s]
    BY <1>0, <1>2
  <2>2. PICK h : h = MergeStep(sensors, g)
    OBVIOUS
  <2>3. h = [s \in SUBSET D |-> h[s]]
    BY <1>0, <2>2 DEF MergeStep
  <2>4. ASSUME NEW s \in SUBSET D, s \subseteq 1 .. n + 1
        PROVE  h[s] = MergeStep(sensors, h)[s]
    <3>1. CASE s = {}
      BY <1>0, <2>2, <3>1 DEF MergeStep
    <3>2. CASE s # {}
      <4>1. PICK u : u = s \ {Max(s)}
        OBVIOUS
      <4>2. u \in SUBSET D /\ u \subseteq 1 .. n
        <5>1. Max(s) \in s /\ \A i \in s : i <= Max(s)
          BY <1>2, <2>4, <3>2, LargestIndex
        <5>2. QED
          BY <1>2, <2>4, <4>1, <5>1
      <4>3. h[u] = g[u]
        BY <2>1, <2>2, <4>2
      <4>4. h[s] = Merged(g[u], sensors[Max(s)]) /\ MergeStep(sensors, h)[s] = Merged(h[u], sensors[Max(s)])
        BY <1>0, <2>2, <3>2, <4>1 DEF MergeStep
      <4>5. QED
        BY <4>3, <4>4
    <3>3. QED
      BY <3>1, <3>2
  <2>5. QED
    BY <1>0, <2>3, <2>4
<1> HIDE DEF Solved
<1>3. ASSUME NEW n \in Nat PROVE Solved(n)
  <2>1. SUFFICES ASSUME ~Solved(n) PROVE FALSE
    OBVIOUS
  <2>2. PICK bad : bad = { k \in Nat : ~Solved(k) }
    OBVIOUS
  <2>3. bad \in SUBSET Nat /\ bad # {}
    BY <2>1, <2>2
  <2>4. PICK m \in bad : \A k \in bad : m <= k
    BY <2>3, LeastNatural
  <2>5. m # 0 /\ m \in Nat /\ ~Solved(m)
    BY <1>1, <2>2, <2>4
  <2>6. m - 1 \in Nat /\ m - 1 \notin bad /\ (m - 1) + 1 = m
    BY <2>3, <2>4, <2>5
  <2>7. QED
    BY <1>2, <2>2, <2>5, <2>6
<1>4. Len(sensors) \in Nat /\ D = 1 .. Len(sensors)
  BY <1>0, LenProperties
<1>5. PICK g : /\ g = [s \in SUBSET D |-> g[s]]
               /\ \A s \in SUBSET D : g[s] = MergeStep(sensors, g)[s]
  <2>1. Solved(Len(sensors))
    BY <1>3, <1>4
  <2>2. PICK g : /\ g = [s \in SUBSET DOMAIN sensors |-> g[s]]
                 /\ \A s \in SUBSET DOMAIN sensors :
                      s \subseteq 1 .. Len(sensors) => g[s] = MergeStep(sensors, g)[s]
    BY <2>1 DEF Solved
  <2>3. \A s \in SUBSET D : s \subseteq 1 .. Len(sensors)
    BY <1>4
  <2>4. QED
    BY <1>0, <2>2, <2>3
<1>6. g = MergeStep(sensors, g)
  <2>1. MergeStep(sensors, g) = [s \in SUBSET D |-> MergeStep(sensors, g)[s]]
    BY <1>0 DEF MergeStep
  <2>2. QED
    BY <1>5, <2>1
<1>7. QED
  BY <1>6

(* So the result comes from one sensor after the other. *)
LEMMA MergedStepwise ==
  ASSUME NEW sensors \in Seq(Sensors)
  PROVE  \E R : /\ R[0] = <<>>
                /\ R[Len(sensors)] = Deduplicated(sensors)
                /\ \A k \in 1 .. Len(sensors) : R[k] = Merged(R[k - 1], sensors[k])
<1>1. PICK g : g = CHOOSE h : h = MergeStep(sensors, h)
  OBVIOUS
<1>2. g = MergeStep(sensors, g)
  BY <1>1, MergeExists
<1>3. Deduplicated(sensors) = g[DOMAIN sensors]
  BY <1>1 DEF Deduplicated, FoldLeft, MapThenFoldSet, MergeStep
<1>4. Len(sensors) \in Nat /\ DOMAIN sensors = 1 .. Len(sensors)
  BY LenProperties
<1>5. PICK R : R = [k \in 0 .. Len(sensors) |-> g[1 .. k]]
  OBVIOUS
<1>6. R[0] = <<>>
  <2>1. R[0] = g[1 .. 0] /\ 1 .. 0 = {}
    BY <1>4, <1>5
  <2>2. g[{}] = <<>>
    BY <1>2 DEF MergeStep
  <2>3. QED
    BY <2>1, <2>2
<1>7. ASSUME NEW k \in 1 .. Len(sensors) PROVE R[k] = Merged(R[k - 1], sensors[k])
  <2>1. R[k] = g[1 .. k] /\ R[k - 1] = g[1 .. k - 1]
    BY <1>4, <1>5
  <2>2. 1 .. k \in SUBSET DOMAIN sensors /\ 1 .. k # {}
    <3>1. k \in 1 .. k /\ \A i \in 1 .. k : i \in 1 .. Len(sensors)
      BY <1>4
    <3>2. QED
      BY <1>4, <3>1, Zenon
  <2>3. Max(1 .. k) = k
    <3>1. Max(1 .. k) \in 1 .. k /\ \A i \in 1 .. k : i <= Max(1 .. k)
      BY <1>4, <2>2, LargestIndex
    <3>2. QED
      BY <1>4, <3>1
  <2>4. (1 .. k) \ {k} = 1 .. k - 1
    BY <1>4
  <2>5. g[1 .. k] = Merged(g[(1 .. k) \ {Max(1 .. k)}], sensors[Max(1 .. k)])
    BY <1>2, <2>2 DEF MergeStep
  <2>6. QED
    BY <2>1, <2>3, <2>4, <2>5
<1>8. R[Len(sensors)] = Deduplicated(sensors)
  BY <1>3, <1>4, <1>5
<1>9. QED
  BY <1>6, <1>7, <1>8, Zenon

(* A sensor of a drive goes into the place of the sensor with its name. *)
Replaced(result, s) ==
  [ i \in DOMAIN result |->
      IF result[i].id = s.id /\ Preference(s.driver) > Preference(result[i].driver)
      THEN s ELSE result[i] ]

(* What the first k sensors have become. *)
Holds(result, sensors, k) ==
  /\ result \in Seq(Sensors)
  /\ \A i \in 1 .. k : \E j \in DOMAIN result : result[j].id = sensors[i].id
  /\ \A i, j \in DOMAIN result : IsDriveId(result[i].id) /\ result[i].id = result[j].id => i = j
  /\ \A i \in 1 .. k : IsDriveId(sensors[i].id) /\ sensors[i].driver = "drivetemp" =>
       \A j \in DOMAIN result : result[j].id = sensors[i].id => result[j].driver = "drivetemp"

LEMMA ListFacts ==
  ASSUME NEW S, NEW s \in Seq(S)
  PROVE  Len(s) \in Nat /\ DOMAIN s = 1 .. Len(s) /\ \A i \in DOMAIN s : s[i] \in S
  BY LenProperties

LEMMA Appended ==
  ASSUME NEW S, NEW s \in Seq(S), NEW e \in S
  PROVE  /\ Append(s, e) \in Seq(S)
         /\ DOMAIN Append(s, e) = DOMAIN s \cup {Len(s) + 1}
         /\ Len(s) + 1 \notin DOMAIN s
         /\ Append(s, e)[Len(s) + 1] = e
         /\ \A i \in DOMAIN s : Append(s, e)[i] = s[i]
<1>1. Len(s) \in Nat /\ DOMAIN s = 1 .. Len(s)
  BY ListFacts
<1>2. /\ Append(s, e) \in Seq(S) /\ Len(Append(s, e)) = Len(s) + 1
      /\ \A i \in 1 .. Len(s) : Append(s, e)[i] = s[i]
      /\ Append(s, e)[Len(s) + 1] = e
  BY AppendProperties
<1>3. DOMAIN Append(s, e) = 1 .. Len(s) + 1
  BY <1>2, LenProperties
<1>4. QED
  BY <1>1, <1>2, <1>3

LEMMA DriversAre ==
  ASSUME NEW s \in Sensors
  PROVE  s.driver \in {"drivetemp", "smartctl", "chip"}
  BY DEF Sensors, Sensor

(* One more sensor is merged into the result. *)
LEMMA MergedHolds ==
  ASSUME NEW sensors \in Seq(Sensors), NEW k \in 1 .. Len(sensors), NEW result,
         Holds(result, sensors, k - 1)
  PROVE  Holds(Merged(result, sensors[k]), sensors, k)
<1> DEFINE s == sensors[k]
           merged == Merged(result, s)
           New == ~IsDriveId(s.id) \/ \A i \in DOMAIN result : result[i].id # s.id
<1>1. result \in Seq(Sensors) /\ s \in Sensors /\ Len(sensors) \in Nat
  BY ListFacts DEF Holds
<1>2. /\ \A i \in 1 .. k - 1 : \E j \in DOMAIN result : result[j].id = sensors[i].id
      /\ \A i, j \in DOMAIN result : IsDriveId(result[i].id) /\ result[i].id = result[j].id => i = j
      /\ \A i \in 1 .. k - 1 : IsDriveId(sensors[i].id) /\ sensors[i].driver = "drivetemp" =>
           \A j \in DOMAIN result : result[j].id = sensors[i].id => result[j].driver = "drivetemp"
  BY DEF Holds
<1>3. 1 .. k = (1 .. k - 1) \cup {k}
  BY <1>1
<1>4. CASE New
  <2>1. merged = Append(result, s)
    BY <1>4 DEF Merged
  <2>2. PICK last : last = Len(result) + 1
    OBVIOUS
  <2>3. /\ merged \in Seq(Sensors) /\ DOMAIN merged = DOMAIN result \cup {last}
        /\ last \notin DOMAIN result /\ merged[last] = s
        /\ \A i \in DOMAIN result : merged[i] = result[i]
    BY <1>1, <2>1, <2>2, Appended
  <2> HIDE DEF merged
  <2>4. \A i \in 1 .. k : \E j \in DOMAIN merged : merged[j].id = sensors[i].id
    BY <1>2, <1>3, <2>3
  <2>5. \A i, j \in DOMAIN merged : IsDriveId(merged[i].id) /\ merged[i].id = merged[j].id => i = j
    BY <1>2, <1>4, <2>3
  <2>6. ASSUME NEW i \in 1 .. k, IsDriveId(sensors[i].id), sensors[i].driver = "drivetemp",
               NEW j \in DOMAIN merged, merged[j].id = sensors[i].id
        PROVE  merged[j].driver = "drivetemp"
    <3>1. CASE i = k
      BY <1>4, <2>3, <2>6, <3>1
    <3>2. CASE i # k /\ j # last
      BY <1>2, <1>3, <2>3, <2>6, <3>2
    <3>3. CASE i # k /\ j = last
      <4>1. i \in 1 .. k - 1 /\ s.id = sensors[i].id
        BY <1>3, <2>3, <2>6, <3>3
      <4>2. PICK m \in DOMAIN result : result[m].id = sensors[i].id
        BY <1>2, <4>1
      <4>3. QED
        BY <1>4, <2>6, <4>1, <4>2
    <3>4. QED
      BY <3>1, <3>2, <3>3
  <2>7. QED
    BY <2>3, <2>4, <2>5, <2>6 DEF Holds, merged
<1>5. CASE ~New
  <2>1. PICK m \in DOMAIN result : result[m].id = s.id
    BY <1>5
  <2>2. merged = Replaced(result, s)
    BY <1>5 DEF Merged, Replaced
  <2>3. /\ DOMAIN merged = DOMAIN result
        /\ \A i \in DOMAIN result : merged[i] = IF result[i].id = s.id /\ Preference(s.driver) > Preference(result[i].driver)
                                                THEN s ELSE result[i]
    BY <2>2 DEF Replaced
  <2>4. \A i \in DOMAIN result : merged[i] \in Sensors /\ merged[i].id = result[i].id
    BY <1>1, <2>3, ListFacts
  <2>5. merged \in Seq(Sensors)
    <3>1. PICK n \in Nat : DOMAIN result = 1 .. n
      BY <1>1, ListFacts
    <3>2. merged = [i \in 1 .. n |-> merged[i]]
      BY <2>2, <3>1 DEF Replaced
    <3> HIDE DEF merged
    <3>3. QED
      BY <2>4, <3>1, <3>2, IsASeq
  <2> HIDE DEF merged
  <2>6. \A i \in 1 .. k : \E j \in DOMAIN merged : merged[j].id = sensors[i].id
    BY <1>2, <1>3, <2>1, <2>3, <2>4
  <2>7. \A i, j \in DOMAIN merged : IsDriveId(merged[i].id) /\ merged[i].id = merged[j].id => i = j
    BY <1>2, <2>3, <2>4
  <2>8. ASSUME NEW i \in 1 .. k, IsDriveId(sensors[i].id), sensors[i].driver = "drivetemp",
               NEW j \in DOMAIN merged, merged[j].id = sensors[i].id
        PROVE  merged[j].driver = "drivetemp"
    <3>1. CASE i = k
      <4>1. result[j].id = s.id /\ s.driver = "drivetemp" /\ j \in DOMAIN result
        BY <2>3, <2>4, <2>8, <3>1
      <4>2. CASE result[j].driver = "drivetemp"
        BY <2>3, <4>1, <4>2
      <4>3. CASE result[j].driver # "drivetemp"
        <5>1. Preference(s.driver) = 2 /\ Preference(result[j].driver) \in {0, 1}
          BY <4>1, <4>3 DEF Preference
        <5>2. QED
          BY <2>3, <4>1, <5>1
      <4>4. QED
        BY <4>2, <4>3
    <3>2. CASE i # k
      <4>1. result[j].driver = "drivetemp" /\ j \in DOMAIN result
        BY <1>2, <1>3, <2>3, <2>4, <2>8, <3>2
      <4>2. s.driver = "drivetemp" \/ Preference(s.driver) \in {0, 1}
        BY DEF Preference
      <4>3. Preference(result[j].driver) = 2
        BY <4>1 DEF Preference
      <4>4. QED
        BY <2>3, <4>1, <4>2, <4>3
    <3>3. QED
      BY <3>1, <3>2
  <2>9. QED
    BY <2>3, <2>5, <2>6, <2>7, <2>8 DEF Holds, merged
<1>6. QED
  BY <1>4, <1>5

(* The merged list has every identifier of a drive once, with what         *)
(* drivetemp read if it read anything under it.                            *)
LEMMA DeduplicatedHolds ==
  ASSUME NEW sensors \in Seq(Sensors)
  PROVE  Holds(Deduplicated(sensors), sensors, Len(sensors))
<1>1. PICK R : /\ R[0] = <<>>
               /\ R[Len(sensors)] = Deduplicated(sensors)
               /\ \A k \in 1 .. Len(sensors) : R[k] = Merged(R[k - 1], sensors[k])
  BY MergedStepwise
<1>2. Len(sensors) \in Nat
  BY ListFacts
<1>3. Holds(R[0], sensors, 0)
  <2>1. <<>> \in Seq(Sensors) /\ DOMAIN <<>> = {}
    BY EmptySeq
  <2>2. QED
    BY <1>1, <2>1 DEF Holds
<1>4. PICK bad : bad = { k \in 0 .. Len(sensors) : ~Holds(R[k], sensors, k) }
  OBVIOUS
<1>5. bad = {}
  <2>1. SUFFICES ASSUME bad # {} PROVE FALSE
    OBVIOUS
  <2>2. bad \in SUBSET Nat
    BY <1>2, <1>4
  <2>3. PICK k \in bad : \A n \in bad : k <= n
    BY <2>1, <2>2, LeastNatural
  <2>4. k \in 1 .. Len(sensors) /\ ~Holds(R[k], sensors, k)
    BY <1>2, <1>3, <1>4, <2>3
  <2>5. k - 1 \in 0 .. Len(sensors) /\ k - 1 \notin bad
    BY <1>2, <2>2, <2>3, <2>4
  <2>6. Holds(R[k - 1], sensors, k - 1)
    BY <1>4, <2>5
  <2>7. Holds(Merged(R[k - 1], sensors[k]), sensors, k)
    BY <2>4, <2>6, MergedHolds
  <2>8. QED
    BY <1>1, <2>4, <2>7
<1>6. Len(sensors) \in 0 .. Len(sensors)
  BY <1>2
<1>7. QED
  BY <1>1, <1>4, <1>5, <1>6

----------------------------------------------------------------------------
(* The names of a disk.                                                    *)

(* A stable name is what both back ends use, when there is one. *)
LEMMA StableNames ==
  /\ \A b \in Supported, n \in Numbers :
       /\ StableId(b) # None => MapId(b, n) = StableId(b)
       /\ MapId(b, n).form = "drive" => MapId(b, n) = StableId(b)
  /\ \A b \in Blocks :
       /\ StableId(b) # None => SmartId(b) = StableId(b)
       /\ SmartId(b).form = "drive" => SmartId(b) = StableId(b)
  /\ \A b \in Blocks : StableId(b) # None => StableId(b).form = "drive"
<1>1. \A backend, place : Fallback(backend, place).form # "drive"
  BY DEF Fallback
<1>2. \A kind, text : DriveId(kind, text).form = "drive"
  BY DEF DriveId
<1>3. ASSUME NEW b \in Supported, NEW n \in Numbers
      PROVE  /\ StableId(b) # None => MapId(b, n) = StableId(b)
             /\ MapId(b, n).form = "drive" => MapId(b, n) = StableId(b)
  <2>1. SysWwid[b] = None => /\ SmartWwn[b] = None
                             /\ SysSerial[b] = None => SmartSerial[b] = None
    BY BackendsAgree
  <2>2. QED
    BY <1>1, <2>1 DEF StableId, MapId, Known
<1>4. ASSUME NEW b \in Blocks
      PROVE  /\ StableId(b) # None => SmartId(b) = StableId(b)
             /\ SmartId(b).form = "drive" => SmartId(b) = StableId(b)
             /\ StableId(b) # None => StableId(b).form = "drive"
  BY <1>1, <1>2 DEF StableId, SmartId
<1>5. QED
  BY <1>3, <1>4

(* A sensor has a name of one of its devices, and that device's temperature. *)
LEMMA SensorOf ==
  ASSUME NEW s \in Sensors, s.id.form = "drive"
  PROVE  \E d \in Blocks : s.id = StableId(d) /\ s.temp = Warmth[d]
<1>1. Supported \subseteq Blocks
  BY BlocksAssumption
<1>2. CASE \E b \in Supported, n \in Numbers : s = Sensor(MapId(b, n), "drivetemp", b)
  <2>1. PICK b \in Supported, n \in Numbers : s = Sensor(MapId(b, n), "drivetemp", b)
    BY <1>2
  <2>2. s.id = MapId(b, n) /\ s.temp = Warmth[b]
    BY <2>1 DEF Sensor
  <2>3. QED
    BY <1>1, <2>2, StableNames
<1>3. CASE \E b \in Blocks : s = Sensor(SmartId(b), "smartctl", b)
  <2>1. PICK b \in Blocks : s = Sensor(SmartId(b), "smartctl", b)
    BY <1>3
  <2>2. s.id = SmartId(b) /\ s.temp = Warmth[b]
    BY <2>1 DEF Sensor
  <2>3. QED
    BY <2>2, StableNames
<1>4. CASE \E driver, kind, x, n : s = Sensor(HwmonId(driver, n), kind, x)
  BY <1>4 DEF Sensor, HwmonId
<1>5. QED
  BY <1>2, <1>3, <1>4 DEF Sensors

----------------------------------------------------------------------------
(* The inductive invariant.                                                *)

OneEach == \A m, n \in Numbers : bound[m] = bound[n] /\ bound[m] # None => m = n

LEMMA BoundIsOne ==
  ASSUME OneEach, NEW n \in Numbers, NEW b, bound[n] = b, b # None
  PROVE  IsBound(b) /\ NumberOf(b) = n
  BY DEF OneEach, IsBound, NumberOf

LEMMA TypeFromParts ==
  ASSUME found \in Seq(Sensors),
         \A p \in DOMAIN drivetemp : \E b \in Supported, n \in Numbers :
           p = PathOf(b, n) /\ drivetemp[p] = MapId(b, n)
  PROVE  /\ DOMAIN drivetemp \subseteq Blocks \X Numbers
         /\ \A i \in DOMAIN found : found[i].driver \in {"drivetemp", "smartctl", "chip"}
<1>1. DOMAIN drivetemp \subseteq Blocks \X Numbers
  BY BlocksAssumption DEF PathOf
<1>2. \A i \in DOMAIN found : found[i] \in Sensors
  BY ListFacts
<1>3. QED
  BY <1>1, <1>2, DriversAre

(* A list that grows lists what it did. *)
LEMMA ListedStays ==
  ASSUME NEW b, Listed(b), found \in Seq(Sensors),
         NEW s \in Sensors, found' = Append(found, s)
  PROVE  Listed(b)'
<1>1. PICK i \in DOMAIN found : found[i].id = StableId(b)
  BY DEF Listed
<1>2. i \in DOMAIN found' /\ found'[i] = found[i]
  BY Appended
<1>3. QED
  BY <1>1, <1>2 DEF Listed, StableId, Known

LEMMA ListedNow ==
  ASSUME NEW b, found \in Seq(Sensors),
         NEW s \in Sensors, found' = Append(found, s), s.id = StableId(b)
  PROVE  Listed(b)'
<1>1. Len(found) + 1 \in DOMAIN found' /\ found'[Len(found) + 1] = s
  BY Appended
<1>2. QED
  BY <1>1 DEF Listed, StableId, Known

LEMMA InitScan == Init => ScanInv
<1> SUFFICES ASSUME Init PROVE ScanInv
  OBVIOUS
<1>1. found = <<>> /\ found \in Seq(Sensors) /\ DOMAIN found = {}
  BY EmptySeq DEF Init
<1>2. DOMAIN drivetemp = {}
  BY EmptySeq DEF Init
<1>3. /\ bound \in [Numbers -> Supported \cup Chips \cup {None}]
      /\ \A m, n \in Numbers : bound[m] = bound[n] /\ bound[m] # None => m = n
  BY BlocksAssumption, OneDirectoryEach DEF Init
<1>4. bound \in [Numbers -> Devices \cup {None}]
  BY <1>3, BlocksAssumption DEF Devices
<1>5. TypeOK
  BY <1>1, <1>2, <1>4 DEF Init, TypeOK
<1>6. \A b \in Blocks \ spoilt : Accounted(b)
  BY DEF Init, Accounted
<1>7. QED
  BY <1>1, <1>2, <1>3, <1>5, <1>6 DEF Init, ScanInv

(* The invariant but for the account of the disks and what follows of the types. *)
Basis ==
  /\ bound \in [Numbers -> Supported \cup Chips \cup {None}] /\ OneEach
  /\ silent \subseteq Blocks /\ tool \in {"works", "missing", "broken"}
  /\ smartctl \in {"unknown", "works", "missing"}
  /\ phase \in {"idle", "map", "hwmon", "smart", "done"}
  /\ todo \subseteq IF phase \in {"map", "smart"} THEN Blocks
                    ELSE IF phase = "hwmon" THEN Numbers ELSE {}
  /\ \A p \in DOMAIN drivetemp : \E b \in Supported, n \in Numbers :
       p = PathOf(b, n) /\ drivetemp[p] = MapId(b, n)
  /\ found \in Seq(Sensors) /\ spoilt \subseteq Blocks
  /\ picked # None => \E h \in Headers : /\ Parent[h[1]] # None
                                         /\ picked = [id |-> PwmId(h[1], h[2]), header |-> h]

LEMMA BasisType == Basis => TypeOK
<1> SUFFICES ASSUME Basis PROVE TypeOK
  OBVIOUS
<1>1. /\ DOMAIN drivetemp \subseteq Blocks \X Numbers
      /\ \A i \in DOMAIN found : found[i].driver \in {"drivetemp", "smartctl", "chip"}
  BY TypeFromParts DEF Basis
<1>2. bound \in [Numbers -> Devices \cup {None}]
  BY BlocksAssumption DEF Devices, Basis
<1>3. picked = None \/ picked \in [id : { PwmId(h[1], h[2]) : h \in Headers }, header : Headers]
  BY DEF Basis
<1>4. todo \subseteq Blocks \cup Numbers
  BY DEF Basis
<1>5. QED
  BY <1>1, <1>2, <1>3, <1>4 DEF Basis, TypeOK

LEMMA BasisAndAccount == ScanInv <=> Basis /\ \A b \in Blocks \ spoilt : Accounted(b)
  BY BasisType DEF ScanInv, Basis, OneEach, TypeOK

(* A device whose directory is not in the map, or is, is read under a name *)
(* of its own.                                                             *)
LEMMA ReadSensor ==
  ASSUME Basis, NEW n \in Numbers, bound[n] # None
  PROVE  LET s == Sensor(NameOf(bound[n], n), IF bound[n] \in Blocks THEN "drivetemp" ELSE "chip", bound[n])
         IN  /\ s \in Sensors
             /\ bound[n] \in Blocks /\ PathOf(bound[n], n) \in DOMAIN drivetemp =>
                  bound[n] \in Supported /\ s.id = MapId(bound[n], n)
<1>1. PICK x : x = bound[n]
  OBVIOUS
<1>2. x \in Supported \cup Chips /\ Supported \subseteq Blocks /\ Blocks \cap Chips = {}
  BY <1>1, BlocksAssumption, DevicesAssumption DEF Basis
<1>3. CASE x \in Chips
  <2>1. x \notin Blocks
    BY <1>2, <1>3
  <2>2. NameOf(x, n) = HwmonId(x, n)
    BY <1>3, <2>1 DEF NameOf
  <2>3. Sensor(HwmonId(x, n), "chip", x) \in Sensors
    BY <1>3 DEF Sensors
  <2>4. QED
    BY <1>1, <2>1, <2>2, <2>3
<1>4. CASE x \in Supported /\ PathOf(x, n) \in DOMAIN drivetemp
  <2>1. x \in Blocks /\ x \notin Chips
    BY <1>2, <1>4
  <2>2. NameOf(x, n) = drivetemp[PathOf(x, n)]
    BY <1>4, <2>1 DEF NameOf
  <2>3. PICK b \in Supported, m \in Numbers :
          PathOf(x, n) = PathOf(b, m) /\ drivetemp[PathOf(x, n)] = MapId(b, m)
    BY <1>4 DEF Basis
  <2>4. b = x /\ m = n
    BY <2>3 DEF PathOf
  <2>5. NameOf(x, n) = MapId(x, n)
    BY <2>2, <2>3, <2>4
  <2>6. Sensor(MapId(x, n), "drivetemp", x) \in Sensors
    BY <1>4 DEF Sensors
  <2>7. Sensor(MapId(x, n), "drivetemp", x).id = MapId(x, n)
    BY DEF Sensor
  <2>8. QED
    BY <1>1, <1>4, <2>1, <2>5, <2>6, <2>7
<1>5. CASE x \in Supported /\ PathOf(x, n) \notin DOMAIN drivetemp
  <2>1. x \in Blocks /\ x \notin Chips
    BY <1>2, <1>5
  <2>2. NameOf(x, n) = HwmonId("drivetemp", n)
    BY <1>5, <2>1 DEF NameOf
  <2>3. Sensor(HwmonId("drivetemp", n), "drivetemp", x) \in Sensors
    BY <1>5 DEF Sensors
  <2>4. QED
    BY <1>1, <1>5, <2>1, <2>2, <2>3
<1>6. QED
  BY <1>2, <1>3, <1>4, <1>5

(* Every step keeps the basis. *)
LEMMA BasisStep == Basis /\ [Next]_vars => Basis'
<1> SUFFICES ASSUME Basis, [Next]_vars PROVE Basis'
  OBVIOUS
<1>e. <<>> \in Seq(Sensors) /\ DOMAIN <<>> = {}
  BY EmptySeq
<1> DEFINE SameHost == UNCHANGED <<bound, silent, tool>>
           Rest == /\ todo' \subseteq IF phase' \in {"map", "smart"} THEN Blocks
                                      ELSE IF phase' = "hwmon" THEN Numbers ELSE {}
                   /\ (\A p \in DOMAIN drivetemp : \E b \in Supported, n \in Numbers :
                         p = PathOf(b, n) /\ drivetemp[p] = MapId(b, n))'
                   /\ found' \in Seq(Sensors) /\ spoilt' \subseteq Blocks
                   /\ smartctl' \in {"unknown", "works", "missing"}
                   /\ phase' \in {"idle", "map", "hwmon", "smart", "done"}
           Fan == (picked # None => \E h \in Headers : /\ Parent[h[1]] # None
                                                       /\ picked = [id |-> PwmId(h[1], h[2]), header |-> h])'
           Host == /\ bound' \in [Numbers -> Supported \cup Chips \cup {None}] /\ OneEach'
                   /\ silent' \subseteq Blocks /\ tool' \in {"works", "missing", "broken"}
<1>f. UNCHANGED picked => Fan
  BY DEF Basis
<1>h. SameHost => Host
  BY DEF OneEach, Basis
<1>q. Host /\ Rest /\ Fan => Basis'
  BY DEF Basis
<1>1. CASE Begin
  <2>1. Rest /\ SameHost /\ UNCHANGED picked
    BY <1>1, <1>e DEF Begin, Start, host, Basis
  <2>2. QED
    BY <1>f, <1>h, <1>q, <2>1
<1>2. CASE ListHwmon
  <2>1. Rest /\ SameHost /\ UNCHANGED picked
    BY <1>2 DEF ListHwmon, host, Basis
  <2>2. QED
    BY <1>f, <1>h, <1>q, <2>1
<1>3. CASE ListDisks
  <2>1. Rest /\ SameHost /\ UNCHANGED picked
    BY <1>3, <1>e DEF ListDisks, host, Basis
  <2>2. QED
    BY <1>f, <1>h, <1>q, <2>1
<1>4. CASE Finish
  <2>1. found' \in Seq(Sensors)
    BY <1>4, DeduplicatedHolds DEF Finish, Holds, Basis
  <2>2. Rest /\ SameHost /\ UNCHANGED picked
    BY <1>4, <2>1 DEF Finish, host, Basis
  <2>3. QED
    BY <1>f, <1>h, <1>q, <2>2
<1>5. ASSUME NEW b \in Blocks, MapDisk(b) PROVE Basis'
  <2>1. SameHost /\ UNCHANGED picked
    BY <1>5 DEF MapDisk, host
  <2>2. (\A p \in DOMAIN drivetemp : \E d \in Supported, n \in Numbers :
           p = PathOf(d, n) /\ drivetemp[p] = MapId(d, n))'
    <3>1. CASE IsBound(b)
      <4>1. NumberOf(b) \in Numbers /\ bound[NumberOf(b)] = b
        BY <3>1 DEF IsBound, NumberOf
      <4>2. b \in Supported
        BY <4>1, DevicesAssumption DEF Devices, Basis
      <4>3. drivetemp' = [ p \in DOMAIN drivetemp \cup {PathOf(b, NumberOf(b))} |->
                                IF p = PathOf(b, NumberOf(b)) THEN MapId(b, NumberOf(b)) ELSE drivetemp[p] ]
        BY <1>5, <3>1 DEF MapDisk
      <4>4. QED
        BY <4>1, <4>2, <4>3 DEF Basis
    <3>2. CASE ~IsBound(b)
      BY <1>5, <3>2 DEF MapDisk, Basis
    <3>3. QED
      BY <3>1, <3>2
  <2>3. Rest
    BY <1>5, <2>2 DEF MapDisk, Take, Basis
  <2>4. QED
    BY <1>f, <1>h, <1>q, <2>1, <2>3
<1>6. ASSUME NEW b \in Blocks, SkipDisk(b) \/ SmartctlMissing(b) \/ SmartctlTimesOut(b) \/ SmartctlEmpty(b)
      PROVE  Basis'
  <2>1. SameHost /\ UNCHANGED <<picked, phase, drivetemp, found>> /\ todo' = todo \ {b}
    BY <1>6 DEF SkipDisk, SmartctlMissing, SmartctlTimesOut, SmartctlEmpty, Asked, Take, NoTemperature, host
  <2>2. spoilt' \subseteq Blocks /\ smartctl' \in {"unknown", "works", "missing"}
    BY <1>6 DEF SkipDisk, SmartctlMissing, SmartctlTimesOut, SmartctlEmpty, NoTemperature, Basis
  <2>3. Rest
    BY <2>1, <2>2 DEF Basis
  <2>4. QED
    BY <1>f, <1>h, <1>q, <2>1, <2>3
<1>7. ASSUME NEW b \in Blocks, SmartctlAnswers(b) PROVE Basis'
  <2>1. SameHost /\ UNCHANGED <<picked, phase, drivetemp, spoilt>> /\ todo' = todo \ {b} /\ smartctl' = "works"
    BY <1>7 DEF SmartctlAnswers, Asked, Take, host
  <2>2. Sensor(SmartId(b), "smartctl", b) \in Sensors
    BY DEF Sensors
  <2>3. found' \in Seq(Sensors)
    BY <1>7, <2>2, Appended DEF SmartctlAnswers, Basis
  <2>4. Rest
    BY <2>1, <2>3 DEF Basis
  <2>5. QED
    BY <1>f, <1>h, <1>q, <2>1, <2>4
<1>8. ASSUME NEW b \in Blocks, ScanRaises(b) PROVE Basis'
  <2>1. Rest /\ SameHost /\ UNCHANGED picked
    BY <1>8, <1>e DEF ScanRaises, host, Basis
  <2>2. QED
    BY <1>f, <1>h, <1>q, <2>1
<1>9. ASSUME NEW n \in Numbers, ReadHwmon(n) PROVE Basis'
  <2>1. SameHost /\ UNCHANGED <<picked, phase, drivetemp, smartctl>> /\ todo' = todo \ {n}
    BY <1>9 DEF ReadHwmon, Take, host
  <2>2. found' \in Seq(Sensors) /\ spoilt' \subseteq Blocks
    <3>1. CASE bound[n] = None \/ bound[n] \in silent
      BY <1>9, <3>1 DEF ReadHwmon, Basis
    <3>2. CASE ~(bound[n] = None \/ bound[n] \in silent)
      <4>1. PICK s \in Sensors : s = Sensor(NameOf(bound[n], n), IF bound[n] \in Blocks THEN "drivetemp" ELSE "chip", bound[n])
        BY <3>2, ReadSensor
      <4>2. found' = Append(found, s) /\ UNCHANGED spoilt
        BY <1>9, <3>2, <4>1 DEF ReadHwmon
      <4>3. QED
        BY <4>2, Appended DEF Basis
    <3>3. QED
      BY <3>1, <3>2
  <2>3. Rest
    BY <2>1, <2>2 DEF Basis
  <2>4. QED
    BY <1>f, <1>h, <1>q, <2>1, <2>3
<1>10. CASE Pick
  <2>1. Rest /\ SameHost
    BY <1>10 DEF Pick, host, Basis
  <2>2. PICK fan \in Offered : picked' = fan
    BY <1>10 DEF Pick
  <2>3. PICK h \in Headers : Parent[h[1]] # None /\ fan = [id |-> PwmId(h[1], h[2]), header |-> h]
    BY <2>2 DEF Offered
  <2>4. Fan
    BY <2>2, <2>3
  <2>5. QED
    BY <1>h, <1>q, <2>1, <2>4
<1>11. CASE Restart
  <2>1. Rest /\ SameHost /\ UNCHANGED picked
    BY <1>11, <1>e DEF Restart, host, Basis
  <2>2. QED
    BY <1>f, <1>h, <1>q, <2>1
<1>12. ASSUME NEW x \in Devices, NEW n \in Numbers, Bind(x, n) PROVE Basis'
  <2>1. UNCHANGED <<silent, tool, smartctl, phase, todo, drivetemp, found, picked>>
    BY <1>12 DEF Bind
  <2>2. bound' = [bound EXCEPT ![n] = x] /\ x \in Supported \cup Chips /\ ~IsBound(x)
    BY <1>12, BlocksAssumption DEF Bind
  <2>3. Host
    BY <2>1, <2>2 DEF OneEach, IsBound, Basis
  <2>4. spoilt' \subseteq Blocks
    BY <1>12 DEF Bind, Disturb, Basis
  <2>5. Rest
    BY <2>1, <2>4 DEF Basis
  <2>6. QED
    BY <1>f, <1>q, <2>1, <2>3, <2>5
<1>13. ASSUME NEW x \in Devices, Unbind(x) PROVE Basis'
  <2>1. UNCHANGED <<silent, tool, smartctl, phase, todo, drivetemp, found, picked>>
    BY <1>13 DEF Unbind
  <2>2. bound' = [bound EXCEPT ![NumberOf(x)] = None]
    BY <1>13 DEF Unbind
  <2>3. Host
    BY <2>1, <2>2 DEF OneEach, Basis
  <2>4. spoilt' \subseteq Blocks
    BY <1>13 DEF Unbind, Disturb, Basis
  <2>5. Rest
    BY <2>1, <2>4 DEF Basis
  <2>6. QED
    BY <1>f, <1>q, <2>1, <2>3, <2>5
<1>14. CASE (\E b \in Blocks : FallSilent(b) \/ AnswerAgain(b)) \/ ChangeTool
  <2>1. UNCHANGED <<bound, smartctl, phase, todo, drivetemp, found, picked, spoilt>>
    BY <1>14 DEF FallSilent, AnswerAgain, ChangeTool
  <2>2. silent' \subseteq Blocks /\ tool' \in {"works", "missing", "broken"}
    BY <1>14, BlocksAssumption DEF FallSilent, AnswerAgain, ChangeTool, Basis
  <2>3. Host /\ Rest
    BY <2>1, <2>2 DEF OneEach, Basis
  <2>4. QED
    BY <1>f, <1>q, <2>1, <2>3
<1>15. CASE UNCHANGED vars
  BY <1>15, <1>f, <1>h, <1>q DEF vars, host, Basis
<1>16. CASE BlocksUnreadable
  <2>1. Rest /\ SameHost /\ UNCHANGED picked
    BY <1>16, <1>e DEF BlocksUnreadable, Start, host, Basis
  <2>2. QED
    BY <1>f, <1>h, <1>q, <2>1
<1>17. CASE HwmonUnreadable
  <2>1. Rest /\ SameHost /\ UNCHANGED picked
    BY <1>17, <1>e DEF HwmonUnreadable, host, Basis
  <2>2. QED
    BY <1>f, <1>h, <1>q, <2>1
<1>18. CASE DisksUnreadable
  <2>1. Rest /\ SameHost /\ UNCHANGED picked
    BY <1>18, <1>e DEF DisksUnreadable, host, Basis
  <2>2. QED
    BY <1>f, <1>h, <1>q, <2>1
<1>19. ASSUME NEW b \in Blocks, MapFails(b) PROVE Basis'
  <2>1. Rest /\ SameHost /\ UNCHANGED picked
    BY <1>19 DEF MapFails, Take, host, Basis
  <2>2. QED
    BY <1>f, <1>h, <1>q, <2>1
<1>20. QED
  BY <1>1, <1>2, <1>3, <1>4, <1>5, <1>6, <1>7, <1>8, <1>9, <1>10, <1>11, <1>12, <1>13, <1>14, <1>15,
     <1>16, <1>17, <1>18, <1>19
     DEF Next, ScanStep, ListingFails, HostStep

(* Every step keeps the account of the disks nothing has happened to. *)
LEMMA AccountStep ==
  ASSUME Basis, \A b \in Blocks \ spoilt : Accounted(b), [Next]_vars
  PROVE  \A b \in Blocks \ spoilt' : Accounted(b)'
<1> SUFFICES ASSUME NEW b \in Blocks \ spoilt' PROVE Accounted(b)'
  OBVIOUS
<1>n. b # None /\ b \in Devices /\ b \notin Chips
  BY DevicesAssumption DEF Devices
<1>1. CASE Begin
  BY <1>1 DEF Begin, Start, Accounted
<1>2. CASE ListHwmon
  <2>1. b \notin spoilt /\ phase = "map" /\ b \notin todo
    BY <1>2 DEF ListHwmon
  <2>2. \A n \in Numbers : bound[n] = b => PathOf(b, n) \in DOMAIN drivetemp
    BY <2>1 DEF Accounted
  <2>3. /\ phase' = "hwmon" /\ bound' = bound /\ drivetemp' = drivetemp
        /\ todo' = { n \in Numbers : bound[n] # None }
    BY <1>2 DEF ListHwmon, host
  <2>4. QED
    BY <1>n, <2>2, <2>3 DEF Accounted
<1>3. CASE ListDisks
  <2>1. b \notin spoilt /\ phase = "hwmon" /\ todo = {}
    BY <1>3 DEF ListDisks
  <2>2. IsBound(b) /\ StableId(b) # None => Listed(b)
    BY <2>1 DEF Accounted, IsBound
  <2>3. phase' = "smart" /\ bound' = bound /\ todo' = Blocks /\ found' = found
    BY <1>3 DEF ListDisks, host
  <2>4. IsBound(b)' <=> IsBound(b)
    BY <2>3 DEF IsBound
  <2>5. Listed(b)' <=> Listed(b)
    BY <2>3 DEF Listed
  <2>6. QED
    BY <2>2, <2>3, <2>4, <2>5 DEF Accounted
<1>4. CASE Finish
  <2>1. b \notin spoilt /\ phase = "smart" /\ b \notin todo
    BY <1>4 DEF Finish
  <2>2. StableId(b) # None => Listed(b)
    BY <2>1 DEF Accounted
  <2>3. phase' = "done" /\ found' = Deduplicated(found)
    BY <1>4 DEF Finish
  <2>4. Holds(found', found, Len(found)) /\ DOMAIN found = 1 .. Len(found)
    BY <2>3, DeduplicatedHolds, ListFacts DEF Basis
  <2>5. Listed(b) => Listed(b)'
    <3>1. SUFFICES ASSUME Listed(b) PROVE Listed(b)'
      OBVIOUS
    <3>2. PICK i \in DOMAIN found : found[i].id = StableId(b)
      BY <3>1 DEF Listed
    <3>3. PICK j \in DOMAIN found' : found'[j].id = found[i].id
      BY <2>4 DEF Holds
    <3>4. QED
      BY <3>2, <3>3 DEF Listed
  <2>6. QED
    BY <2>2, <2>3, <2>5 DEF Accounted
<1>5. ASSUME NEW d \in Blocks, MapDisk(d) PROVE Accounted(b)'
  <2>1. b \notin spoilt /\ phase = "map" /\ todo' = todo \ {d} /\ UNCHANGED <<bound, phase, found>>
    BY <1>5 DEF MapDisk, Take, host
  <2>2. DOMAIN drivetemp \subseteq DOMAIN drivetemp'
    BY <1>5 DEF MapDisk
  <2>3. ASSUME NEW n \in Numbers, bound[n] = b, b \notin todo'
        PROVE  PathOf(b, n) \in DOMAIN drivetemp'
    <3>1. CASE b # d
      BY <2>1, <2>2, <2>3, <3>1 DEF Accounted
    <3>2. CASE b = d
      <4>1. IsBound(d) /\ NumberOf(d) = n
        BY <1>n, <2>3, <3>2, BoundIsOne DEF Basis
      <4>2. QED
        BY <1>5, <3>2, <4>1 DEF MapDisk
    <3>3. QED
      BY <3>1, <3>2
  <2>4. QED
    BY <2>1, <2>3 DEF Accounted
<1>6. ASSUME NEW d \in Blocks, SkipDisk(d) \/ SmartctlMissing(d) \/ SmartctlTimesOut(d) \/ SmartctlEmpty(d)
      PROVE  Accounted(b)'
  <2>1. UNCHANGED <<bound, phase, found>> /\ todo' = todo \ {d} /\ phase = "smart" /\ spoilt \subseteq spoilt'
    BY <1>6 DEF SkipDisk, SmartctlMissing, SmartctlTimesOut, SmartctlEmpty, Asked, Take, NoTemperature, host
  <2>2. b = d => IsBound(b)
    BY <1>6 DEF SkipDisk, SmartctlMissing, SmartctlTimesOut, SmartctlEmpty, NoTemperature
  <2>3. (IsBound(b)' <=> IsBound(b)) /\ (Listed(b)' <=> Listed(b))
    BY <2>1 DEF IsBound, Listed
  <2>4. StableId(b) # None /\ (IsBound(b)' \/ b \notin todo') => Listed(b)
    BY <2>1, <2>2, <2>3 DEF Accounted
  <2>5. QED
    BY <2>1, <2>3, <2>4 DEF Accounted
<1>7. ASSUME NEW d \in Blocks, SmartctlAnswers(d) PROVE Accounted(b)'
  <2>1. UNCHANGED <<bound, phase, spoilt>> /\ todo' = todo \ {d} /\ phase = "smart"
    BY <1>7 DEF SmartctlAnswers, Asked, Take, host
  <2>2. PICK s \in Sensors : s = Sensor(SmartId(d), "smartctl", d)
    BY DEF Sensors
  <2>3. found' = Append(found, s) /\ found \in Seq(Sensors) /\ s.id = SmartId(d)
    BY <1>7, <2>2 DEF SmartctlAnswers, Basis, Sensor
  <2>4. IsBound(b)' <=> IsBound(b)
    BY <2>1 DEF IsBound
  <2>5. StableId(b) # None /\ (IsBound(b) \/ b \notin todo') => Listed(b)'
    <3>1. CASE b = d
      BY <2>3, <3>1, StableNames, ListedNow
    <3>2. CASE b # d
      <4>1. StableId(b) # None /\ (IsBound(b) \/ b \notin todo') => Listed(b)
        BY <2>1, <3>2 DEF Accounted
      <4>2. QED
        BY <2>3, <4>1, ListedStays
    <3>3. QED
      BY <3>1, <3>2
  <2>6. QED
    BY <2>1, <2>4, <2>5 DEF Accounted
<1>8. ASSUME NEW d \in Blocks, ScanRaises(d) PROVE Accounted(b)'
  BY <1>8 DEF ScanRaises, Accounted
<1>9. ASSUME NEW n \in Numbers, ReadHwmon(n) PROVE Accounted(b)'
  <2>1. UNCHANGED <<bound, phase, drivetemp>> /\ todo' = todo \ {n} /\ phase = "hwmon" /\ spoilt \subseteq spoilt'
    BY <1>9 DEF ReadHwmon, Take, host
  <2>2. b \notin spoilt
    BY <2>1
  <2>3. \A m \in Numbers : bound[m] = b => PathOf(b, m) \in DOMAIN drivetemp
    BY <2>1, <2>2 DEF Accounted
  <2>4. ASSUME NEW m \in Numbers, bound[m] = b, m \notin todo', StableId(b) # None
        PROVE  Listed(b)'
    <3>1. CASE m = n
      <4>1. bound[n] # None /\ bound[n] \notin silent
        BY <1>9, <1>n, <2>4, <3>1 DEF ReadHwmon
      <4>2. PICK s : s = Sensor(NameOf(b, n), "drivetemp", b)
        OBVIOUS
      <4>3. s \in Sensors /\ b \in Supported /\ s.id = MapId(b, n)
        BY <2>3, <2>4, <3>1, <4>1, <4>2, ReadSensor
      <4>4. found' = Append(found, s)
        BY <1>9, <2>4, <3>1, <4>1, <4>2 DEF ReadHwmon
      <4>5. s.id = StableId(b)
        BY <2>4, <4>3, StableNames
      <4>6. QED
        BY <4>3, <4>4, <4>5, ListedNow DEF Basis
    <3>2. CASE m # n
      <4>1. Listed(b)
        BY <2>1, <2>2, <2>4, <3>2 DEF Accounted
      <4>2. CASE found' = found
        BY <4>1, <4>2 DEF Listed
      <4>3. CASE bound[n] # None /\ bound[n] \notin silent
        <5>1. PICK s \in Sensors : s = Sensor(NameOf(bound[n], n), IF bound[n] \in Blocks THEN "drivetemp" ELSE "chip", bound[n])
          BY <4>3, ReadSensor
        <5>2. found' = Append(found, s)
          BY <1>9, <4>3, <5>1 DEF ReadHwmon
        <5>3. QED
          BY <4>1, <5>2, ListedStays DEF Basis
      <4>4. QED
        BY <1>9, <4>2, <4>3 DEF ReadHwmon
    <3>3. QED
      BY <3>1, <3>2
  <2>5. QED
    BY <2>1, <2>3, <2>4 DEF Accounted
<1>10. CASE Pick
  <2>1. UNCHANGED <<bound, phase, todo, drivetemp, found, spoilt>>
    BY <1>10 DEF Pick, host
  <2>2. QED
    BY <2>1 DEF Accounted, IsBound, Listed
<1>11. CASE Restart
  BY <1>11 DEF Restart, Accounted
<1>12. ASSUME NEW x \in Devices, UNCHANGED <<phase, todo, drivetemp, found>>, Disturb(x),
              x # b => \A n \in Numbers : bound'[n] = b <=> bound[n] = b
       PROVE  Accounted(b)'
  <2>1. (Listed(b)' <=> Listed(b)) /\ b \notin spoilt
    BY <1>12 DEF Listed, Disturb
  <2>2. CASE phase \in {"idle", "done"}
    BY <1>12, <2>1, <2>2 DEF Accounted
  <2>3. CASE phase \notin {"idle", "done"}
    <3>1. x # b
      BY <1>12, <2>3 DEF Disturb
    <3>2. \A n \in Numbers : bound'[n] = b <=> bound[n] = b
      BY <1>12, <3>1
    <3>3. IsBound(b)' <=> IsBound(b)
      BY <3>2 DEF IsBound
    <3>4. QED
      BY <1>12, <2>1, <3>2, <3>3 DEF Accounted
  <2>4. QED
    BY <2>2, <2>3
<1>13. ASSUME NEW x \in Devices, NEW n \in Numbers, Bind(x, n) PROVE Accounted(b)'
  <2>1. UNCHANGED <<phase, todo, drivetemp, found>> /\ Disturb(x)
    BY <1>13 DEF Bind
  <2>2. x # b => \A m \in Numbers : bound'[m] = b <=> bound[m] = b
    BY <1>13, <1>n DEF Bind, Basis
  <2>3. QED
    BY <1>12, <2>1, <2>2
<1>14. ASSUME NEW x \in Devices, Unbind(x) PROVE Accounted(b)'
  <2>1. UNCHANGED <<phase, todo, drivetemp, found>> /\ Disturb(x)
    BY <1>14 DEF Unbind
  <2>2. bound[NumberOf(x)] = x
    BY <1>14 DEF Unbind, IsBound, NumberOf
  <2>3. x # b => \A m \in Numbers : bound'[m] = b <=> bound[m] = b
    BY <1>14, <1>n, <2>2 DEF Unbind, Basis
  <2>4. QED
    BY <1>12, <2>1, <2>3
<1>15. CASE (\E d \in Blocks : FallSilent(d) \/ AnswerAgain(d)) \/ ChangeTool
  <2>1. UNCHANGED <<bound, phase, todo, drivetemp, found, spoilt>>
    BY <1>15 DEF FallSilent, AnswerAgain, ChangeTool
  <2>2. QED
    BY <2>1 DEF Accounted, IsBound, Listed
<1>16. CASE UNCHANGED vars
  BY <1>16 DEF vars, host, Accounted, IsBound, Listed
<1>17. CASE BlocksUnreadable
  <2>1. ~IsBound(b) /\ phase' = "map" /\ bound' = bound
    BY <1>17 DEF BlocksUnreadable, Start, host
  <2>2. QED
    BY <2>1 DEF Accounted, IsBound
<1>18. CASE HwmonUnreadable
  BY <1>18 DEF HwmonUnreadable
<1>19. CASE DisksUnreadable
  <2>1. b \notin spoilt /\ IsBound(b) /\ phase = "hwmon" /\ todo = {}
    BY <1>19 DEF DisksUnreadable
  <2>2. StableId(b) # None => Listed(b)
    BY <2>1 DEF Accounted, IsBound
  <2>3. phase' = "smart" /\ found' = found
    BY <1>19 DEF DisksUnreadable
  <2>4. Listed(b)' <=> Listed(b)
    BY <2>3 DEF Listed
  <2>5. QED
    BY <2>2, <2>3, <2>4 DEF Accounted
<1>20. ASSUME NEW d \in Blocks, MapFails(d) PROVE Accounted(b)'
  <2>1. /\ b # d /\ b \notin spoilt /\ phase = "map" /\ todo' = todo \ {d}
        /\ UNCHANGED <<bound, phase, drivetemp, found>>
    BY <1>20 DEF MapFails, Take, host
  <2>2. QED
    BY <2>1 DEF Accounted
<1>21. QED
  BY <1>1, <1>2, <1>3, <1>4, <1>5, <1>6, <1>7, <1>8, <1>9, <1>10, <1>11, <1>13, <1>14, <1>15, <1>16,
     <1>17, <1>18, <1>19, <1>20
     DEF Next, ScanStep, ListingFails, HostStep

LEMMA ScanInvariant == Spec => []ScanInv
<1>1. Init => ScanInv
  BY InitScan
<1>2. ScanInv /\ [Next]_vars => ScanInv'
  <2> SUFFICES ASSUME ScanInv, [Next]_vars PROVE ScanInv'
    OBVIOUS
  <2>1. Basis /\ \A b \in Blocks \ spoilt : Accounted(b)
    BY BasisAndAccount
  <2>2. Basis' /\ \A b \in Blocks \ spoilt' : Accounted(b)'
    BY <2>1, BasisStep, AccountStep
  <2>3. (ScanInv <=> Basis /\ \A b \in Blocks \ spoilt : Accounted(b))'
    BY BasisAndAccount, PTL
  <2>4. QED
    BY <2>2, <2>3
<1>3. QED
  BY <1>1, <1>2, PTL DEF Spec

----------------------------------------------------------------------------
(* The theorems.                                                           *)

(* Whatever happens to the host in the middle of a scan, its state has its type. *)
THEOREM TypeCorrect == Spec => []TypeOK
<1>1. ScanInv => TypeOK
  BY DEF ScanInv
<1>2. QED
  BY <1>1, ScanInvariant, PTL

(* A finished scan lists every disk that could be listed and read and whose *)
(* driver stayed as it was, under its stable identifier (detect_sensors).  *)
THEOREM ListedTheorem == Spec => []UndisturbedAreListed
<1>1. ScanInv => UndisturbedAreListed
  BY DEF ScanInv, Accounted, UndisturbedAreListed
<1>2. QED
  BY <1>1, ScanInvariant, PTL

(* Merging leaves every identifier of a drive once, with the reading of    *)
(* drivetemp if there is one (_deduplicate_drive_sensors).                 *)
THEOREM OnceTheorem == Spec => IdentifiersAreListedOnce
<1> DEFINE Once ==
      phase = "smart" /\ phase' = "done" =>
        \A i \in DOMAIN found : IsDriveId(found[i].id) =>
          LET kept == { j \in DOMAIN found' : found'[j].id = found[i].id }
          IN  /\ Cardinality(kept) = 1
              /\ found[i].driver = "drivetemp" => \A j \in kept : found'[j].driver = "drivetemp"
<1>1. ScanInv /\ [Next]_vars => [Once]_vars
  <2> SUFFICES ASSUME ScanInv, Next, phase = "smart", phase' = "done",
                      NEW i \in DOMAIN found, IsDriveId(found[i].id)
               PROVE  LET kept == { j \in DOMAIN found' : found'[j].id = found[i].id }
                      IN  /\ Cardinality(kept) = 1
                          /\ found[i].driver = "drivetemp" => \A j \in kept : found'[j].driver = "drivetemp"
    OBVIOUS
  <2>1. Finish
    BY DEF Next, ScanStep, ListingFails, HostStep, Begin, Start, BlocksUnreadable, MapFails,
           HwmonUnreadable, DisksUnreadable, ListHwmon, ListDisks, Finish, MapDisk, SkipDisk,
           SmartctlMissing, SmartctlTimesOut, SmartctlEmpty, SmartctlAnswers, Asked, ScanRaises,
           ReadHwmon, Pick, Restart, Bind, Unbind, FallSilent, AnswerAgain, ChangeTool
  <2>2. found' = Deduplicated(found) /\ found \in Seq(Sensors)
    BY <2>1 DEF Finish, ScanInv
  <2>3. Holds(found', found, Len(found)) /\ i \in 1 .. Len(found)
    BY <2>2, DeduplicatedHolds, ListFacts
  <2>4. PICK m \in DOMAIN found' : found'[m].id = found[i].id
    BY <2>3 DEF Holds
  <2>5. { j \in DOMAIN found' : found'[j].id = found[i].id } = {m}
    BY <2>3, <2>4 DEF Holds
  <2>6. Cardinality({m}) = 1
    BY FS_Singleton
  <2>7. found[i].driver = "drivetemp" => found'[m].driver = "drivetemp"
    BY <2>3, <2>4 DEF Holds
  <2>8. QED
    BY <2>5, <2>6, <2>7
<1>2. QED
  BY <1>1, ScanInvariant, PTL DEF Spec, IdentifiersAreListedOnce

----------------------------------------------------------------------------
(* The cards.                                                              *)

LEMMA CardOf ==
  ASSUME NEW ids, NEW values, NEW card \in ToSet(Cards(ids, values))
  PROVE  card.value = Value(values, card.id)
  BY DEF ToSet, Cards

LEMMA SensorCards ==
  ASSUME NEW config, NEW card \in ShownSensors(Answer(config))
  PROVE  card.value = Value(SensorMap(config.virtual, RealMap), card.id)
<1> DEFINE temps == SensorMap(config.virtual, RealMap)
<1>0. card \in ToSet(Answer(config).ungrouped_sensors) \cup UNION { ToSet(g) : g \in ToSet(Answer(config).sensor_groups) }
  BY DEF ShownSensors
<1>1. /\ Answer(config).ungrouped_sensors = Cards(LooseSensors(config), temps)
      /\ Answer(config).sensor_groups = Groups(config, "sensor", temps)
  BY DEF Answer, State
<1> HIDE DEF temps
<1>2. CASE card \in ToSet(Cards(LooseSensors(config), temps))
  BY <1>2, CardOf DEF temps
<1>3. CASE \E g \in ToSet(Groups(config, "sensor", temps)) : card \in ToSet(g)
  <2>1. PICK g \in ToSet(Groups(config, "sensor", temps)) : card \in ToSet(g)
    BY <1>3
  <2>2. PICK ids : g = Cards(ids, temps)
    BY DEF Groups, ToSet
  <2>3. QED
    BY <2>1, <2>2, CardOf DEF temps
<1>4. QED
  BY <1>0, <1>1, <1>2, <1>3

(* A temperature that get_state shows for a disk is that disk's. *)
THEOREM ReadingsTheorem == Spec => []ReadingsAreTheDisks
<1>1. ScanInv => ReadingsAreTheDisks
  <2> SUFFICES ASSUME ScanInv, NEW config \in DashboardConfigs, NEW b \in Blocks,
                      NEW card \in ShownSensors(Answer(config)),
                      card.id = StableId(b), card.value # None
               PROVE  \E d \in Blocks : StableId(d) = StableId(b) /\ card.value = Warmth[d]
    BY DEF ReadingsAreTheDisks
  <2>1. PICK id : id = StableId(b)
    OBVIOUS
  <2>2. card.value = Value(SensorMap(config.virtual, RealMap), id)
    BY <2>1, SensorCards
  <2>3. id \in SensorIds /\ card.value = RealMap[id]
    <3>1. id \notin VirtualIds
      BY <2>1, DrivesAreNotVirtual
    <3>2. DOMAIN SensorMap(config.virtual, RealMap) = SensorIds \cup VirtualIds
      BY DEF SensorMap
    <3>3. id \in SensorIds
      BY <2>2, <3>1, <3>2 DEF Value
    <3>4. SensorMap(config.virtual, RealMap)[id] = RealMap[id]
      BY <3>3 DEF SensorMap
    <3>5. QED
      BY <2>2, <3>2, <3>3, <3>4 DEF Value
  <2>4. PICK hits : hits = { i \in DOMAIN found : found[i].id = id }
    OBVIOUS
  <2>5. RealMap[id] = IF hits = {} THEN None ELSE found[Max(hits)].temp
    BY <2>3, <2>4 DEF RealMap
  <2>6. hits # {}
    BY <2>3, <2>5
  <2>7. Max(hits) \in hits
    <3>1. found \in Seq(Sensors)
      BY DEF ScanInv
    <3>2. Len(found) \in Nat /\ hits \in SUBSET (1 .. Len(found))
      BY <2>4, <3>1, ListFacts
    <3>3. QED
      BY <2>6, <3>2, LargestIndex
  <2>8. PICK s \in Sensors : s.id = id /\ s.temp = card.value
    BY <2>3, <2>4, <2>5, <2>6, <2>7, ListFacts DEF ScanInv
  <2>9. id # None
    BY <2>3, NoneIsNoSensor
  <2>10. s.id.form = "drive"
    BY <2>1, <2>8, <2>9, StableNames
  <2>11. PICK d \in Blocks : s.id = StableId(d) /\ s.temp = Warmth[d]
    BY <2>10, SensorOf
  <2>12. QED
    BY <2>1, <2>8, <2>11
<1>2. QED
  BY <1>1, ScanInvariant, PTL

----------------------------------------------------------------------------
(* Lists at chosen indices.                                                *)

RankIn(indices, i) == Cardinality({ j \in indices : j <= i })

(* The k-th index exists, and every index is the k-th for some k. *)
LEMMA PlaceOfRank ==
  ASSUME NEW n \in Nat, NEW S \in SUBSET (1 .. n)
  PROVE  /\ Cardinality(S) \in Nat
         /\ \A i \in S : RankIn(S, i) \in 1 .. Cardinality(S) /\ Place(S, RankIn(S, i)) = i
         /\ \A k \in 1 .. Cardinality(S) : Place(S, k) \in S /\ RankIn(S, Place(S, k)) = k
<1> DEFINE Below(i) == { j \in S : j <= i }
<1>1. IsFiniteSet(S) /\ Cardinality(S) \in Nat
  <2>1. IsFiniteSet(1 .. n)
    BY FS_Interval
  <2>2. IsFiniteSet(S)
    BY <2>1, FS_Subset
  <2>3. QED
    BY <2>2, FS_CardinalityType
<1>0. \A i \in S : i \in Nat
  OBVIOUS
<1>2. ASSUME NEW i \in S PROVE IsFiniteSet(Below(i)) /\ RankIn(S, i) \in 1 .. Cardinality(S)
  <2>1. Below(i) \in SUBSET S /\ i \in Below(i)
    OBVIOUS
  <2>2. IsFiniteSet(Below(i)) /\ Cardinality(Below(i)) <= Cardinality(S)
    BY <1>1, <2>1, FS_Subset
  <2>3. Cardinality(Below(i)) \in Nat /\ Cardinality(Below(i)) # 0
    BY <2>1, <2>2, FS_CardinalityType, FS_EmptySet
  <2>4. QED
    BY <1>1, <2>2, <2>3 DEF RankIn
<1>3. ASSUME NEW i \in S, NEW j \in S, i < j PROVE RankIn(S, i) < RankIn(S, j)
  <2>1. Below(i) \in SUBSET Below(j) /\ j \in Below(j) /\ j \notin Below(i)
    <3>1. \A x \in S : x <= i => x <= j
      BY <1>0, <1>3
    <3>2. j <= j /\ ~(j <= i)
      BY <1>0, <1>3
    <3>3. QED
      BY <3>1, <3>2
  <2>2. Cardinality(Below(i)) <= Cardinality(Below(j)) /\ Cardinality(Below(i)) # Cardinality(Below(j))
    BY <1>2, <2>1, FS_Subset
  <2>3. Cardinality(Below(i)) \in Nat /\ Cardinality(Below(j)) \in Nat
    BY <1>2, FS_CardinalityType
  <2>4. QED
    BY <2>2, <2>3 DEF RankIn
<1>4. \A i, j \in S : RankIn(S, i) = RankIn(S, j) => i = j
  <2>1. SUFFICES ASSUME NEW i \in S, NEW j \in S, i # j PROVE RankIn(S, i) # RankIn(S, j)
    OBVIOUS
  <2>2. i < j \/ j < i
    BY <1>0, <2>1
  <2>3. RankIn(S, i) < RankIn(S, j) \/ RankIn(S, j) < RankIn(S, i)
    BY <1>3, <2>2
  <2>4. RankIn(S, i) \in 1 .. Cardinality(S) /\ RankIn(S, j) \in 1 .. Cardinality(S)
    BY <1>2
  <2>5. QED
    BY <1>1, <2>3, <2>4
<1>5. PICK f : f = [i \in S |-> RankIn(S, i)]
  OBVIOUS
<1>6. f \in Injection(S, 1 .. Cardinality(S))
  BY <1>2, <1>4, <1>5 DEF Injection, IsInjective
<1>7. f \in Surjection(S, 1 .. Cardinality(S))
  <2>1. IsFiniteSet(1 .. Cardinality(S)) /\ Cardinality(1 .. Cardinality(S)) = Cardinality(S)
    BY <1>1, FS_Interval
  <2>2. QED
    BY <1>6, <2>1, FS_Injection
<1>8. ASSUME NEW k \in 1 .. Cardinality(S)
      PROVE  Place(S, k) \in S /\ RankIn(S, Place(S, k)) = k
  <2>1. \E i \in S : RankIn(S, i) = k
    BY <1>5, <1>7 DEF Surjection
  <2>2. QED
    BY <2>1 DEF Place, RankIn
<1>9. ASSUME NEW i \in S PROVE Place(S, RankIn(S, i)) = i
  BY <1>2, <1>4, <1>8
<1>10. QED
  BY <1>1, <1>2, <1>8, <1>9

(* What is not in a group is listed once, and nothing else is.             *)
LEMMA UngroupedOnce ==
  ASSUME NEW A, NEW ids \in Seq(A), NEW hidden, NEW id
  PROVE  LET loose == Ungrouped(ids, hidden)
         IN  /\ id \in hidden => \A k \in DOMAIN loose : loose[k] # id
             /\ id \in ToSet(ids) \ hidden => Cardinality({ k \in DOMAIN loose : loose[k] = id }) = 1
<1> DEFINE loose == Ungrouped(ids, hidden)
<1>1. PICK fresh : fresh = { i \in DOMAIN ids : ids[i] \notin hidden /\ \A j \in 1 .. i - 1 : ids[j] # ids[i] }
  OBVIOUS
<1>2. Len(ids) \in Nat /\ DOMAIN ids = 1 .. Len(ids)
  BY ListFacts
<1>3. fresh \in SUBSET (1 .. Len(ids))
  BY <1>1, <1>2
<1>4. /\ Cardinality(fresh) \in Nat
      /\ \A i \in fresh : RankIn(fresh, i) \in 1 .. Cardinality(fresh) /\ Place(fresh, RankIn(fresh, i)) = i
      /\ \A k \in 1 .. Cardinality(fresh) : Place(fresh, k) \in fresh /\ RankIn(fresh, Place(fresh, k)) = k
  BY <1>2, <1>3, PlaceOfRank
<1>5. loose = [k \in 1 .. Cardinality(fresh) |-> ids[Place(fresh, k)]]
  BY <1>1 DEF Ungrouped, Chosen
<1> HIDE DEF loose
<1>6. ASSUME id \in hidden PROVE \A k \in DOMAIN loose : loose[k] # id
  BY <1>1, <1>4, <1>5, <1>6
<1>7. ASSUME id \in ToSet(ids) \ hidden
      PROVE  Cardinality({ k \in DOMAIN loose : loose[k] = id }) = 1
  <2>1. PICK hits : hits = { i \in 1 .. Len(ids) : ids[i] = id }
    OBVIOUS
  <2>2. hits \in SUBSET Nat /\ hits # {}
    BY <1>2, <1>7, <2>1 DEF ToSet
  <2>3. PICK m \in hits : \A i \in hits : m <= i
    BY <2>2, LeastNatural
  <2>4. m \in fresh
    <3>1. m \in 1 .. Len(ids) /\ ids[m] = id
      BY <2>1, <2>3
    <3>2. \A j \in 1 .. m - 1 : j \in 1 .. Len(ids) /\ ~(m <= j)
      BY <1>2, <3>1
    <3>3. \A j \in 1 .. m - 1 : ids[j] # id
      BY <2>1, <2>3, <3>2
    <3>4. QED
      BY <1>1, <1>2, <1>7, <3>1, <3>3
  <2>5. ASSUME NEW i \in fresh, ids[i] = id PROVE i = m
    <3>1. i \in hits /\ m \in Nat /\ i \in Nat /\ m > 0
      BY <1>2, <1>3, <2>1, <2>3, <2>5
    <3>2. m <= i /\ m \notin 1 .. i - 1
      BY <1>1, <2>1, <2>3, <2>5, <3>1
    <3>3. QED
      BY <3>1, <3>2
  <2>6. { k \in DOMAIN loose : loose[k] = id } = {RankIn(fresh, m)}
    <3>1. ids[m] = id
      BY <2>1, <2>3
    <3>2. RankIn(fresh, m) \in DOMAIN loose /\ loose[RankIn(fresh, m)] = id
      BY <1>4, <1>5, <2>4, <3>1
    <3>3. ASSUME NEW k \in DOMAIN loose, loose[k] = id PROVE k = RankIn(fresh, m)
      <4>1. Place(fresh, k) \in fresh /\ ids[Place(fresh, k)] = id /\ RankIn(fresh, Place(fresh, k)) = k
        BY <1>4, <1>5, <3>3
      <4>2. QED
        BY <2>5, <4>1
    <3>4. QED
      BY <3>2, <3>3
  <2>7. QED
    BY <2>6, FS_Singleton
<1>8. QED
  BY <1>6, <1>7 DEF loose

(* The groups of a type have a card for what is in a group of this type.   *)
LEMMA GroupsShow ==
  ASSUME NEW config \in DashboardConfig, NEW type, NEW values, NEW id
  PROVE  (\E g \in ToSet(Groups(config, type, values)) : \E i \in DOMAIN g : g[i].id = id)
           <=> id \in Grouped(config, type)
<1>1. PICK list : list = config.groups
  OBVIOUS
<1>2. Len(list) \in Nat /\ DOMAIN list = 1 .. Len(list)
  <2>1. list \in Seq([type : {"sensor", "fan"}, items : Seq(FanIds \cup SensorIds \cup VirtualIds)])
    BY <1>1 DEF DashboardConfig
  <2>2. QED
    BY <2>1, ListFacts
<1>3. PICK S : S = { i \in DOMAIN list : list[i].type = type }
  OBVIOUS
<1>4. S \in SUBSET (1 .. Len(list))
  BY <1>2, <1>3
<1>5. /\ \A i \in S : RankIn(S, i) \in 1 .. Cardinality(S) /\ Place(S, RankIn(S, i)) = i
      /\ \A k \in 1 .. Cardinality(S) : Place(S, k) \in S
  BY <1>2, <1>4, PlaceOfRank
<1>6. Groups(config, type, values) = [k \in 1 .. Cardinality(S) |-> Cards(list[Place(S, k)].items, values)]
  BY <1>1, <1>3 DEF Groups, Chosen
<1>7. ToSet(Groups(config, type, values)) = { Cards(list[i].items, values) : i \in S }
  BY <1>5, <1>6 DEF ToSet
<1>8. Grouped(config, type) = UNION { ToSet(list[i].items) : i \in S }
  BY <1>1, <1>3 DEF Grouped, ToSet
<1>9. ASSUME NEW i
      PROVE  (\E j \in DOMAIN Cards(list[i].items, values) : Cards(list[i].items, values)[j].id = id)
               <=> id \in ToSet(list[i].items)
  BY DEF Cards, ToSet
<1>10. QED
  BY <1>7, <1>8, <1>9

(* A configured identifier has its cards in groups, or else one card.      *)
LEMMA ShownOnce ==
  ASSUME NEW config \in DashboardConfig, NEW type, NEW values,
         NEW A, NEW ids \in Seq(A), NEW hidden, NEW id \in ToSet(ids),
         id \in hidden <=> id \in Grouped(config, type)
  PROVE  Shown(id, Groups(config, type, values), Cards(Ungrouped(ids, hidden), values))
<1>1. PICK u : u = Ungrouped(ids, hidden)
  OBVIOUS
<1>2. /\ id \in hidden => \A k \in DOMAIN u : u[k] # id
      /\ id \in ToSet(ids) \ hidden => Cardinality({ k \in DOMAIN u : u[k] = id }) = 1
  BY <1>1, UngroupedOnce
<1>3. DOMAIN Cards(u, values) = DOMAIN u /\ \A i \in DOMAIN u : Cards(u, values)[i].id = u[i]
  BY DEF Cards
<1>4. { i \in DOMAIN Cards(u, values) : Cards(u, values)[i].id = id } = { k \in DOMAIN u : u[k] = id }
  BY <1>3
<1>5. CASE id \in Grouped(config, type)
  <2>1. \E g \in ToSet(Groups(config, type, values)) : \E i \in DOMAIN g : g[i].id = id
    BY <1>5, GroupsShow
  <2>2. \A i \in DOMAIN Cards(u, values) : Cards(u, values)[i].id # id
    BY <1>2, <1>3, <1>5
  <2>3. QED
    BY <1>1, <2>1, <2>2 DEF Shown, HasCard
<1>6. CASE id \notin Grouped(config, type)
  <2>1. ~ \E g \in ToSet(Groups(config, type, values)) : \E i \in DOMAIN g : g[i].id = id
    BY <1>6, GroupsShow
  <2>2. Cardinality({ i \in DOMAIN Cards(u, values) : Cards(u, values)[i].id = id }) = 1
    BY <1>2, <1>4, <1>6
  <2>3. QED
    BY <1>1, <2>1, <2>2 DEF Shown, HasCard
<1>7. QED
  BY <1>5, <1>6

(* What the lists of get_state are made from. *)
LEMMA EntryLists ==
  ASSUME NEW config \in DashboardConfig
  PROVE  /\ SensorsOfEntries(config) \in Seq(SensorIds \cup VirtualIds)
         /\ FansOfEntries(config) \in Seq(FanIds)
         /\ \A e \in ToSet(config.entries) : /\ e.fan_id \in ToSet(FansOfEntries(config))
                                             /\ e.sensor_id \in ToSet(SensorsOfEntries(config))
<1>1. PICK list : list = config.entries
  OBVIOUS
<1>2. Len(list) \in Nat /\ DOMAIN list = 1 .. Len(list) /\ \A i \in DOMAIN list : list[i] \in Entry
  <2>1. list \in Seq(Entry)
    BY <1>1 DEF DashboardConfig
  <2>2. QED
    BY <2>1, ListFacts
<1>3. \A i \in DOMAIN list : list[i].fan_id \in FanIds /\ list[i].sensor_id \in SensorIds \cup VirtualIds
  BY <1>2 DEF Entry
<1>4. /\ SensorsOfEntries(config) = [i \in 1 .. Len(list) |-> list[i].sensor_id]
      /\ FansOfEntries(config) = [i \in 1 .. Len(list) |-> list[i].fan_id]
  BY <1>1, <1>2 DEF SensorsOfEntries, FansOfEntries
<1>5. [i \in 1 .. Len(list) |-> list[i].sensor_id] \in Seq(SensorIds \cup VirtualIds)
  BY <1>2, <1>3, IsASeq
<1>6. [i \in 1 .. Len(list) |-> list[i].fan_id] \in Seq(FanIds)
  BY <1>2, <1>3, IsASeq
<1>7. \A e \in ToSet(config.entries) : /\ e.fan_id \in ToSet(FansOfEntries(config))
                                       /\ e.sensor_id \in ToSet(SensorsOfEntries(config))
  BY <1>1, <1>2, <1>4 DEF ToSet
<1>8. QED
  BY <1>4, <1>5, <1>6, <1>7

(* A list has a card for what is in it. *)
LEMMA CardsOfList ==
  ASSUME NEW ids, NEW values, NEW id
  PROVE  HasCard(id, Cards(ids, values)) <=> id \in ToSet(ids)
  BY DEF HasCard, Cards, ToSet

(* get_state shows the sensor of every entry, and its fan: in groups, or    *)
(* else on one card of their own; but a fan whose identifier is also that   *)
(* of a sensor without a group is on the card of that sensor alone.         *)
THEOREM CardsTheorem == Spec => []CardsAreComplete
<1>1. CardsAreComplete
  <2> SUFFICES ASSUME NEW config \in DashboardConfigs, NEW e \in ToSet(config.entries)
               PROVE  LET answer == Answer(config)
                      IN  /\ Shown(e.sensor_id, answer.sensor_groups, answer.ungrouped_sensors)
                          /\ IF HasCard(e.fan_id, answer.ungrouped_sensors)
                             THEN ~HasCard(e.fan_id, answer.ungrouped_fans)
                             ELSE Shown(e.fan_id, answer.fan_groups, answer.ungrouped_fans)
    BY DEF CardsAreComplete
  <2>1. config \in DashboardConfig
    BY ConfigsAssumption
  <2>2. PICK temps, rpms : /\ Answer(config).sensor_groups = Groups(config, "sensor", temps)
                           /\ Answer(config).fan_groups = Groups(config, "fan", rpms)
                           /\ Answer(config).ungrouped_sensors = Cards(LooseSensors(config), temps)
                           /\ Answer(config).ungrouped_fans = Cards(LooseFans(config), rpms)
    BY DEF Answer, State
  <2>3. PICK sensors \in Seq(SensorIds \cup VirtualIds), fans \in Seq(FanIds) :
          /\ sensors = SensorsOfEntries(config) /\ fans = FansOfEntries(config)
          /\ e.sensor_id \in ToSet(sensors) /\ e.fan_id \in ToSet(fans)
    BY <2>1, EntryLists
  <2>4. PICK hidden : hidden = Grouped(config, "fan") \cup ToSet(LooseSensors(config))
    OBVIOUS
  <2>5. /\ LooseSensors(config) = Ungrouped(sensors, Grouped(config, "sensor"))
        /\ LooseFans(config) = Ungrouped(fans, hidden)
    BY <2>3, <2>4 DEF LooseSensors, LooseFans
  <2>6. Shown(e.sensor_id, Groups(config, "sensor", temps),
              Cards(Ungrouped(sensors, Grouped(config, "sensor")), temps))
    BY <2>1, <2>3, ShownOnce
  <2>7. CASE e.fan_id \in ToSet(LooseSensors(config))
    <3>1. \A k \in DOMAIN LooseFans(config) : LooseFans(config)[k] # e.fan_id
      <4>1. PICK id : id = e.fan_id
        OBVIOUS
      <4>2. id \in hidden
        BY <2>4, <2>7, <4>1
      <4>3. \A k \in DOMAIN Ungrouped(fans, hidden) : Ungrouped(fans, hidden)[k] # id
        BY <4>2, UngroupedOnce
      <4>4. QED
        BY <2>5, <4>1, <4>3
    <3>2. e.fan_id \notin ToSet(LooseFans(config))
      BY <3>1 DEF ToSet
    <3>3. ~HasCard(e.fan_id, Cards(LooseFans(config), rpms))
      BY <3>2, CardsOfList
    <3>4. HasCard(e.fan_id, Cards(LooseSensors(config), temps))
      BY <2>7, CardsOfList
    <3>5. QED
      BY <2>2, <2>5, <2>6, <3>3, <3>4
  <2>8. CASE e.fan_id \notin ToSet(LooseSensors(config))
    <3>1. e.fan_id \in hidden <=> e.fan_id \in Grouped(config, "fan")
      BY <2>4, <2>8
    <3>2. Shown(e.fan_id, Groups(config, "fan", rpms), Cards(Ungrouped(fans, hidden), rpms))
      BY <2>1, <2>3, <3>1, ShownOnce
    <3>3. ~HasCard(e.fan_id, Cards(LooseSensors(config), temps))
      BY <2>8, CardsOfList
    <3>4. QED
      BY <2>2, <2>5, <2>6, <3>2, <3>3
  <2>9. QED
    BY <2>7, <2>8
<1>2. QED
  BY <1>1, PTL
=============================================================================
