------------------------- MODULE FanControlProofs -------------------------
(***************************************************************************)
(* Theorems about FanControl for every set of fans, positions, modes and   *)
(* configurations.  The argument is one inductive invariant, IInv: the     *)
(* type invariant, then what ties the remembered modes to the host.        *)
(***************************************************************************)
EXTENDS FanControl, SequenceTheorems, WellFoundedInduction, TLAPS

----------------------------------------------------------------------------
(* The policy of a cycle yields integers.                                  *)

(* Every non-empty set of natural numbers has a least element. *)
LEMMA LeastNatural ==
  ASSUME NEW S \in SUBSET Nat, S # {}
  PROVE  \E m \in S : \A n \in S : m <= n
<1>1. PICK m \in S : \A n \in S : ~ (<<n, m>> \in OpToRel(<, Nat))
  BY NatLessThanWellFounded, WFMin, Zenon
<1>2. ASSUME NEW n \in S, n < m PROVE FALSE
  <2>1. <<n, m>> \in OpToRel(<, Nat)
    BY <1>2, SMT DEF OpToRel
  <2>2. QED
    BY <1>1, <2>1
<1>3. QED
  BY <1>2

(* Rounding yields an integer within half a unit of the quotient (round). *)
LEMMA RoundHalfEvenNearest ==
  ASSUME NEW n \in Int, NEW d \in Int, d > 0
  PROVE  /\ RoundHalfEven(n, d) \in Int
         /\ 2 * n - d <= 2 * (d * RoundHalfEven(n, d))
         /\ 2 * (d * RoundHalfEven(n, d)) <= 2 * n + d
<1> DEFINE q == n \div d
           r == n % d
<1>1. q \in Int /\ r \in 0 .. d - 1 /\ n = (d * q) + r
  OBVIOUS
<1>2. \/ RoundHalfEven(n, d) = q /\ 2 * r <= d
      \/ RoundHalfEven(n, d) = q + 1 /\ 2 * r >= d
  BY <1>1 DEF RoundHalfEven
<1>3. d * (q + 1) = (d * q) + d
  BY <1>1
<1> HIDE DEF q, r
<1>4. d * q \in Int
  BY <1>1
<1>5. QED
  BY <1>1, <1>2, <1>3, <1>4

(* On a curve with points, between the first and the last temperature, the *)
(* segment scan of interpolate() finds a segment and never divides by      *)
(* zero, whatever the order of the points: load_config accepts any.        *)
LEMMA ScanFindsProperSegment ==
  ASSUME NEW points \in Seq(Point), NEW temp \in Int, points # <<>>,
         points[1].temp < temp, temp < points[Len(points)].temp
  PROVE  /\ FirstSegment(points, temp) \in 1 .. Len(points) - 1
         /\ points[FirstSegment(points, temp)].temp < temp
         /\ temp <= points[FirstSegment(points, temp) + 1].temp
<1> DEFINE N == Len(points)
           S == Segments(points, temp)
           i == FirstSegment(points, temp)
           Above(n) == { j \in 2 .. n : points[j].temp >= temp }
<1>1. N \in Nat \ {0} /\ \A j \in 1 .. N : points[j].temp \in Int
  <2>1. N \in Nat \ {0} /\ \A j \in 1 .. N : points[j] \in Point
    BY LenProperties, EmptySeq
  <2>2. QED
    BY <2>1 DEF Point
<1>2. ASSUME NEW n \in 2 .. N, points[n].temp >= temp
      PROVE  \E m \in Above(n) : m - 1 \in S /\ points[m - 1].temp < temp
  <2>1. PICK m \in Above(n) : \A j \in Above(n) : m <= j
    <3>1. Above(n) \in SUBSET Nat /\ n \in Above(n)
      BY <1>1, <1>2
    <3>2. QED
      BY <3>1, LeastNatural
  <2>2. m - 1 \in 1 .. N - 1 /\ points[m - 1].temp < temp
    <3>1. CASE m = 2
      BY <3>1, <1>1
    <3>2. CASE m # 2
      <4>1. m - 1 \in 2 .. n /\ m - 1 \notin Above(n)
        BY <3>2, <2>1, <1>1
      <4>2. QED
        BY <4>1, <1>1
    <3>3. QED
      BY <3>1, <3>2
  <2>3. QED
    BY <2>1, <2>2, <1>1 DEF Segments
<1>3. S # {}
  BY <1>1, <1>2
<1>4. i \in S /\ \A j \in S : i <= j
  <2>1. S \in SUBSET Nat
    BY <1>1 DEF Segments
  <2>2. \E m \in S : \A j \in S : m <= j
    BY <2>1, <1>3, LeastNatural
  <2>3. QED
    BY <2>2 DEF FirstSegment
<1>5. i \in 1 .. N - 1 /\ points[i].temp <= temp /\ temp <= points[i + 1].temp
  BY <1>4 DEF Segments
<1>6. PICK m \in Above(i + 1) : m - 1 \in S /\ points[m - 1].temp < temp
  BY <1>1, <1>2, <1>5
<1>7. m - 1 = i
  BY <1>4, <1>5, <1>6, <1>1
<1>8. QED
  BY <1>5, <1>6, <1>7

(* The chord of two points with increasing temperatures is an integer. *)
LEMMA ChordType ==
  ASSUME NEW lo \in Point, NEW hi \in Point, NEW temp \in Int, lo.temp < hi.temp
  PROVE  Chord(lo, hi, temp) \in Int
<1> DEFINE width == hi.temp - lo.temp
           numerator == lo.percent * width + (temp - lo.temp) * (hi.percent - lo.percent)
<1>1. width \in Int /\ width > 0 /\ numerator \in Int
  BY DEF Point
<1>2. RoundHalfEven(numerator, width) \in Int
  BY <1>1, RoundHalfEvenNearest
<1>3. QED
  BY <1>2 DEF Chord

(* interpolate() returns an integer for every curve that has points. *)
LEMMA InterpolateType ==
  ASSUME NEW points \in Seq(Point), NEW temp \in Int, points # <<>>
  PROVE  Interpolate(points, temp) \in Int
<1> DEFINE i == FirstSegment(points, temp)
<1>1. Len(points) \in Nat \ {0} /\ \A j \in 1 .. Len(points) : points[j] \in Point
  BY LenProperties, EmptySeq
<1>2. ASSUME points[1].temp < temp, temp < points[Len(points)].temp
      PROVE  Chord(points[i], points[i + 1], temp) \in Int
  <2>1. /\ i \in 1 .. Len(points) - 1
        /\ points[i].temp < temp /\ temp <= points[i + 1].temp
    BY <1>2, ScanFindsProperSegment
  <2>2. points[i] \in Point /\ points[i + 1] \in Point
    BY <1>1, <2>1
  <2>3. points[i].temp < points[i + 1].temp
    BY <2>1, <2>2 DEF Point
  <2>4. QED
    BY <2>2, <2>3, ChordType
<1>3. /\ points[1].temp \in Int /\ points[1].percent \in Int
      /\ points[Len(points)].temp \in Int /\ points[Len(points)].percent \in Int
  BY <1>1 DEF Point
<1>4. QED
  BY <1>2, <1>3 DEF Interpolate

(* The register value for any percent, in or out of range, fits the register. *)
LEMMA PwmValueRange ==
  ASSUME NEW percent \in Int
  PROVE  PwmValue(percent) \in 0 .. 255
<1>1. ASSUME NEW n \in Int, 0 <= n, n <= 25500
      PROVE  RoundHalfEven(n, 100) \in 0 .. 255
  <2>1. ASSUME NEW R \in Int,
               2 * n - 100 <= 2 * (100 * R), 2 * (100 * R) <= 2 * n + 100
        PROVE  R \in 0 .. 255
    BY <1>1, <2>1
  <2>2. n \in Int /\ 100 \in Int /\ 100 > 0
    OBVIOUS
  <2>3. QED
    BY <2>1, <2>2, RoundHalfEvenNearest
<1>2. Clamp(percent) \in Int /\ 0 <= Clamp(percent) /\ Clamp(percent) <= 100
  BY DEF Clamp
<1>3. /\ Clamp(percent) * 255 \in Int
      /\ 0 <= Clamp(percent) * 255 /\ Clamp(percent) * 255 <= 25500
  BY <1>2
<1>4. QED
  BY <1>1, <1>3 DEF PwmValue

----------------------------------------------------------------------------
(* The loop.                                                               *)

(* Correcting the back ends turns a configuration into a configuration. *)
LEMMA FixBackendsType ==
  ASSUME NEW c \in Configs
  PROVE  FixBackends(c) \in Configs
<1> DEFINE E == FanEntry(FanIds, CurveNames, SensorIds)
           fixed == [i \in DOMAIN c.fans |->
                       IF c.fans[i].fan_id \in PwmFans
                       THEN [c.fans[i] EXCEPT !.backend = "hwmon-pwm"] ELSE c.fans[i]]
<1>1. c.fans \in Seq(E)
  BY DEF Configs, Config
<1>2. \A i \in 1 .. Len(c.fans) : c.fans[i] \in E
  BY <1>1
<1>3. \A e \in E : [e EXCEPT !.backend = "hwmon-pwm"] \in E
  BY DEF FanEntry
<1>4. fixed \in Seq(E)
  <2>1. DOMAIN c.fans = 1 .. Len(c.fans) /\ Len(c.fans) \in Nat
    BY <1>1, LenProperties
  <2> HIDE DEF E
  <2>2. \A i \in 1 .. Len(c.fans) : fixed[i] \in E
    BY <1>2, <1>3, <2>1
  <2>3. fixed = [i \in 1 .. Len(c.fans) |-> fixed[i]]
    BY <2>1
  <2> HIDE DEF fixed
  <2>4. QED
    BY <2>1, <2>2, <2>3, IsASeq
<1>5. FixBackends(c) = [c EXCEPT !.fans = fixed]
  BY DEF FixBackends
<1> HIDE DEF fixed
<1>6. QED
  BY <1>4, <1>5 DEF Configs, Config

(* A job at an entry that does not raise has an integer percent for it. *)
LEMMA PercentType ==
  ASSUME TypeOK, AtEntry, ~Raises
  PROVE  Percent \in Int /\ Entry \in FanEntry(FanIds, CurveNames, SensorIds)
<1>1. Entry \in FanEntry(FanIds, CurveNames, SensorIds)
  BY DEF TypeOK, Configs, Config, AtEntry, Walking, Entry
<1>2. config.floor \in Int /\ config.curves \in [CurveNames -> {None} \cup Seq(Point)]
  BY DEF TypeOK, Configs, Config
<1>3. InitialPercent(config, Entry) \in Int
  BY <1>1, <1>2 DEF InitialPercent, FanEntry
<1>4. ASSUME job # "initial"
      PROVE  PercentFor(config, Entry, temps) \in Int
  <2>1. CASE FollowsCurve(config, Entry, temps)
    <3> DEFINE points == config.curves[Entry.curve_name]
               temp == temps[Entry.sensor_id]
    <3>1. points \in Seq(Point) /\ points # <<>>
      BY <1>1, <1>2, <1>4, <2>1 DEF FollowsCurve, Raises, PolicyRaises, FanEntry
    <3>2. temp \in Int
      BY <1>1, <2>1, TempsAssumption
         DEF FollowsCurve, AtEntry, Walking, TypeOK, Readings, FanEntry
    <3>3. Interpolate(points, temp) \in Int
      BY <3>1, <3>2, InterpolateType
    <3>4. QED
      BY <2>1, <3>3 DEF PercentFor
  <2>2. CASE ~FollowsCurve(config, Entry, temps)
    BY <1>1, <1>2, <2>2 DEF PercentFor, FanEntry
  <2>3. QED
    BY <2>1, <2>2
<1>5. QED
  BY <1>1, <1>3, <1>4 DEF Percent

(* Both back ends write integers. *)
LEMMA HardwareValueType ==
  ASSUME NEW f, NEW percent \in Int
  PROVE  HardwareValue(f, percent) \in Int
<1>1. PwmValue(percent) \in Int
  BY PwmValueRange
<1>2. QED
  BY <1>1 DEF HardwareValue, Clamp

(* The entry of a takeover is a header, at the position where it is saved. *)
LEMMA TakeoverEntry ==
  ASSUME TypeOK, NeedsTakeover
  PROVE  /\ Entry.fan_id \in FanIds
         /\ PathOf(Entry.fan_id) # Gone =>
              /\ Entry.fan_id \in PwmFans
              /\ slot[Entry.fan_id] \in Slots
              /\ mode[Entry.fan_id] \in Modes
<1>1. Entry.fan_id \in FanIds
  BY PercentType DEF NeedsTakeover, FanEntry
<1>2. QED
  BY <1>1 DEF PathOf, TypeOK

(* The values a process starts with have their types. *)
LEMMA EmptyMemoryType ==
  /\ NothingApplied \in [FanIds -> Int \cup {None}]
  /\ NothingSaved \in [Slots -> Modes \cup {None}]
  /\ NoReadings \in Readings
BY DEF NothingApplied, NothingSaved, NoReadings, Readings

LEMMA InitType == Init => TypeOK
<1> SUFFICES ASSUME Init PROVE TypeOK
  OBVIOUS
<1>1. config \in Configs
  BY ConfigsAssumption DEF Init
<1>2. slot \in [PwmFans -> Slots \cup {Gone}]
  BY DEF Init
<1>3. mode \in [PwmFans -> Modes] /\ before \in [PwmFans -> Modes]
  BY ModesAssumption DEF Init
<1>4. /\ duty \in [FanIds -> Int \cup {None}] /\ lastApplied \in [FanIds -> Int \cup {None}]
      /\ original \in [Slots -> Modes \cup {None}] /\ temps \in Readings
  BY EmptyMemoryType DEF Init
<1>5. /\ takenOver \in SUBSET PwmFans /\ undisturbed \in SUBSET PwmFans
      /\ faulted \in SUBSET FanIds /\ toRestore \in SUBSET Slots
  BY DEF Init
<1>6. up \in BOOLEAN
  BY DEF Init
<1>7. pos \in Nat \ {0}
  BY DEF Init
<1>8. QED
  BY <1>1, <1>2, <1>3, <1>4, <1>5, <1>6, <1>7 DEF Init, TypeOK

(* Every step preserves the type invariant, given that only saved modes    *)
(* are restored.                                                           *)
LEMMA StepType ==
  ASSUME TypeOK, [Next]_vars, \A s \in toRestore : original[s] # None
  PROVE  TypeOK'
<1> USE DEF host, memory, history
<1>1. CASE Start
  <2>1. config' \in Configs
    BY <1>1, FixBackendsType, ConfigsAssumption DEF Start, TypeOK
  <2>2. QED
    BY <1>1, <2>1 DEF Start, TypeOK
<1>2. CASE ScanFails \/ AbortCycle
  BY <1>2, EmptyMemoryType DEF ScanFails, AbortCycle, AbandonJob, AtEntry, Walking, TypeOK
<1>3. CASE TakeOver
  <2>1. /\ Entry.fan_id \in PwmFans
        /\ slot[Entry.fan_id] \in Slots /\ mode[Entry.fan_id] \in Modes
    BY <1>3, TakeoverEntry DEF TakeOver
  <2>2. original' \in [Slots -> Modes \cup {None}]
    BY <1>3, <2>1 DEF TakeOver, SaveOriginal, TypeOK
  <2>3. mode' \in [PwmFans -> Modes]
    BY <1>3, <2>1, ModesAssumption DEF TakeOver, TypeOK
  <2>4. takenOver' \in SUBSET PwmFans
    BY <1>3, <2>1 DEF TakeOver, TypeOK
  <2>5. QED
    BY <1>3, <2>2, <2>3, <2>4 DEF TakeOver, TypeOK
<1>4. CASE TakeOverFails
  BY <1>4, TakeoverEntry DEF TakeOverFails, NextFanAfterFailure, TypeOK
<1>5. CASE TakeOverWriteFails
  BY <1>5, TakeoverEntry DEF TakeOverWriteFails, SaveOriginal, NextFanAfterFailure, TypeOK
<1>6. CASE WriteSpeed
  <2>1. Percent \in Int /\ Entry.fan_id \in FanIds
    BY <1>6, PercentType DEF WriteSpeed, ReadyToWrite, FanEntry
  <2>2. HardwareValue(Entry.fan_id, Percent) \in Int
    BY <2>1, HardwareValueType
  <2>3. QED
    BY <1>6, <2>1, <2>2 DEF WriteSpeed, RecordApplied, TypeOK
<1>7. CASE WriteSpeedFails
  <2>1. Entry.fan_id \in FanIds
    BY <1>7, PercentType DEF WriteSpeedFails, ReadyToWrite, FanEntry
  <2>2. QED
    BY <1>7, <2>1 DEF WriteSpeedFails, NextFanAfterFailure, TypeOK
<1>8. CASE WriteSpeedRaises
  BY <1>8, EmptyMemoryType DEF WriteSpeedRaises, ReadyToWrite, AtEntry, Walking, AbandonJob, TypeOK
<1>9. CASE FinishInitial
  BY <1>9 DEF FinishInitial, BeginCycle, TypeOK
<1>10. CASE FinishCycle
  BY <1>10, EmptyMemoryType DEF FinishCycle, AtEnd, Walking, AbandonJob, TypeOK
<1>11. ASSUME NEW s \in Slots, Restore(s) PROVE TypeOK'
  BY <1>11 DEF Restore, TypeOK
<1>12. ASSUME NEW s \in Slots, RestoreFails(s) PROVE TypeOK'
  BY <1>12 DEF RestoreFails, TypeOK
<1>13. ASSUME ProcessEnds, UNCHANGED host PROVE TypeOK'
  <2>1. /\ lastApplied' \in [FanIds -> Int \cup {None}]
        /\ original' \in [Slots -> Modes \cup {None}] /\ temps' \in Readings
    BY <1>13, EmptyMemoryType DEF ProcessEnds
  <2>2. before' \in [PwmFans -> Modes]
    BY <1>13, ModesAssumption DEF ProcessEnds
  <2>3. /\ takenOver' \in SUBSET PwmFans /\ undisturbed' \in SUBSET PwmFans
        /\ faulted' \in SUBSET FanIds /\ toRestore' \in SUBSET Slots
    BY <1>13 DEF ProcessEnds
  <2>4. up' \in BOOLEAN
    BY <1>13 DEF ProcessEnds
  <2>5. pos' \in Nat \ {0}
    BY <1>13 DEF ProcessEnds
  <2>6. QED
    BY <1>13, <2>1, <2>2, <2>3, <2>4, <2>5 DEF ProcessEnds, TypeOK
<1>14. CASE FinishShutdown \/ Crash
  BY <1>13, <1>14 DEF FinishShutdown, Crash
<1>15. CASE LoopWake
  BY <1>15 DEF LoopWake, BeginCycle, TypeOK
<1>16. CASE Apply
  BY <1>16 DEF Apply, BeginCycle, TypeOK
<1>17. CASE PostConfig
  BY <1>17, ConfigsAssumption DEF PostConfig, TypeOK
<1>18. CASE Shutdown
  BY <1>18 DEF Shutdown, ReleaseList, TypeOK
<1>19. ASSUME NEW f \in PwmFans, Unplug(f) PROVE TypeOK'
  BY <1>19 DEF Unplug, TypeOK, FanIds
<1>20. ASSUME NEW f \in PwmFans, NEW s \in Slots, Plug(f, s) PROVE TypeOK'
  BY <1>20, ModesAssumption DEF Plug, TypeOK
<1>21. ASSUME NEW f \in PwmFans, FirmwareReset(f) PROVE TypeOK'
  BY <1>21, ModesAssumption DEF FirmwareReset, TypeOK
<1>22. CASE UNCHANGED vars
  BY <1>22 DEF vars, TypeOK
<1>23. QED
  BY <1>1, <1>2, <1>3, <1>4, <1>5, <1>6, <1>7, <1>8, <1>9, <1>10, <1>11, <1>12,
     <1>14, <1>15, <1>16, <1>17, <1>18, <1>19, <1>20, <1>21, <1>22
     DEF Next, JobStep, Environment

----------------------------------------------------------------------------
(* What ties the remembered modes and percents to the host.                *)

LEMMA InitControl == Init => ControlInv
<1> SUFFICES ASSUME Init PROVE ControlInv
  OBVIOUS
<1>1. \A f \in LiquidFans : lastApplied[f] = None
  BY DEF Init, NothingApplied, FanIds
<1>2. QED
  BY <1>1 DEF Init, ControlInv, SavedModeIsOriginal, ControlledMeansManual,
              ReleaseReturnsControl, ReportMatchesHardware

(* A step that leaves the modes, the memory of the process and its last    *)
(* writes alone keeps the invariant, unless it begins a release or the     *)
(* initial speeds.                                                         *)
LEMMA QuietStep ==
  ASSUME ControlInv, up,
         UNCHANGED <<slot, mode, duty, up, takenOver, original, lastApplied,
                     toRestore, before, undisturbed>>,
         job' \in {job, "idle", "loop", "apply"}, job # "release"
  PROVE  ControlInv'
BY DEF ControlInv, Placement, SavedModeIsOriginal, ControlledMeansManual,
       ReleaseReturnsControl, ReportMatchesHardware, HardwareValue, PathOf

(* Taking over a header, or failing to after its mode was saved.           *)
LEMMA SaveKeepsOriginals ==
  ASSUME TypeOK, ControlInv, NeedsTakeover, PathOf(Entry.fan_id) # Gone,
         SaveOriginal(Entry.fan_id),
         mode' \in {mode, [mode EXCEPT ![Entry.fan_id] = Manual]},
         UNCHANGED <<slot, before, undisturbed>>
  PROVE  /\ SavedModeIsOriginal'
         /\ \A s \in toRestore : original'[s] # None
<1> DEFINE f == Entry.fan_id
<1>1. f \in PwmFans /\ slot[f] \in Slots /\ mode[f] \in Modes
  BY TakeoverEntry
<1>2. \A s \in Slots : s # slot[f] => original'[s] = original[s]
  BY DEF SaveOriginal, TypeOK
<1>3. original'[slot[f]] = IF original[slot[f]] = None THEN mode[f] ELSE original[slot[f]]
  BY <1>1 DEF SaveOriginal, TypeOK
<1>4. original'[slot[f]] # None
  BY <1>1, <1>3, ModesAssumption
<1>5. ASSUME NEW g \in undisturbed
      PROVE  LET saved == original'[slot[g]] IN
               IF saved = None THEN mode'[g] = before[g] ELSE saved = before[g]
  <2>1. CASE g = f
    BY <1>3, <1>4, <1>5, <2>1 DEF ControlInv, SavedModeIsOriginal
  <2>2. CASE g # f
    <3>1. g \in PwmFans /\ slot[g] # Gone /\ slot[g] \in Slots
      BY DEF ControlInv, TypeOK
    <3>2. slot[g] # slot[f]
      BY <1>1, <2>2, <3>1 DEF ControlInv, Placement
    <3>3. mode'[g] = mode[g]
      BY <2>2, <3>1 DEF TypeOK
    <3>4. QED
      BY <1>2, <1>5, <3>1, <3>2, <3>3 DEF ControlInv, SavedModeIsOriginal
  <2>3. QED
    BY <2>1, <2>2
<1>6. SavedModeIsOriginal'
  BY <1>5 DEF SavedModeIsOriginal
<1>7. \A s \in toRestore : original'[s] # None
  BY <1>2, <1>4 DEF ControlInv, TypeOK
<1>8. QED
  BY <1>6, <1>7

(* Every step preserves the invariant. *)
LEMMA StepControl ==
  ASSUME TypeOK, ControlInv, [Next]_vars
  PROVE  ControlInv'
<1> USE DEF host, memory, history
<1>0. ASSUME AtEntry \/ AtEnd PROVE up /\ job # "release" /\ job # "idle"
  BY <1>0 DEF AtEntry, AtEnd, Walking, ControlInv
<1>1. CASE Start
  <2>1. takenOver = {} /\ original = NothingSaved /\ lastApplied = NothingApplied
    BY <1>1 DEF Start, ControlInv
  <2>2. (\A s \in Slots : original[s] = None) /\ (\A f \in FanIds : lastApplied[f] = None)
    BY <2>1 DEF NothingSaved, NothingApplied
  <2>3. job' # "release" /\ up'
    BY <1>1 DEF Start
  <2>4. QED
    BY <1>1, <2>1, <2>2, <2>3
       DEF Start, ControlInv, Placement, SavedModeIsOriginal, ControlledMeansManual,
           ReleaseReturnsControl, ReportMatchesHardware, TypeOK, FanIds
<1>2. CASE ScanFails \/ AbortCycle
  <2>1. up /\ job # "release"
    BY <1>0, <1>2 DEF ScanFails, AbortCycle, ControlInv
  <2>2. QED
    BY <1>2, <2>1, QuietStep DEF ScanFails, AbortCycle, AbandonJob
<1>3. CASE TakeOver
  <2>1. up /\ job # "release" /\ AtEntry
    BY <1>0, <1>3 DEF TakeOver, NeedsTakeover
  <2>2. SavedModeIsOriginal' /\ \A s \in toRestore : original'[s] # None
    BY <1>3, SaveKeepsOriginals DEF TakeOver
  <2>3. ControlledMeansManual'
    BY <1>3, <2>1 DEF TakeOver, ControlInv, ControlledMeansManual, TypeOK
  <2>4. ReportMatchesHardware'
    BY <1>3 DEF TakeOver, ControlInv, ReportMatchesHardware, HardwareValue
  <2>5. QED
    BY <1>3, <2>1, <2>2, <2>3, <2>4
       DEF TakeOver, ControlInv, Placement, ReleaseReturnsControl
<1>4. CASE TakeOverFails
  BY <1>0, <1>4, QuietStep DEF TakeOverFails, NeedsTakeover, NextFanAfterFailure
<1>5. CASE TakeOverWriteFails
  <2>1. up /\ job # "release" /\ AtEntry
    BY <1>0, <1>5 DEF TakeOverWriteFails, NeedsTakeover
  <2>2. SavedModeIsOriginal' /\ \A s \in toRestore : original'[s] # None
    BY <1>5, SaveKeepsOriginals DEF TakeOverWriteFails
  <2>3. ReportMatchesHardware'
    BY <1>5 DEF TakeOverWriteFails, ControlInv, ReportMatchesHardware, HardwareValue
  <2>4. QED
    BY <1>5, <2>1, <2>2, <2>3
       DEF TakeOverWriteFails, NextFanAfterFailure, ControlInv, Placement,
           ControlledMeansManual, ReleaseReturnsControl
<1>6. CASE WriteSpeed
  <2>1. up /\ job # "release" /\ AtEntry /\ Entry.fan_id \in FanIds
    BY <1>0, <1>6, PercentType DEF WriteSpeed, ReadyToWrite, FanEntry
  <2>2. ReportMatchesHardware'
    <3>1. ASSUME NEW f \in LiquidFans \cup undisturbed, lastApplied'[f] # None
          PROVE  duty'[f] = HardwareValue(f, lastApplied'[f])
      <4>1. f \in FanIds
        BY DEF TypeOK, FanIds
      <4>2. CASE f = Entry.fan_id
        <5>1. job # "initial"
          BY <1>6, <2>1, <3>1, <4>1
             DEF WriteSpeed, RecordApplied, ControlInv, NothingApplied
        <5>2. QED
          BY <1>6, <4>1, <4>2, <5>1 DEF WriteSpeed, RecordApplied, TypeOK
      <4>3. CASE f # Entry.fan_id
        <5>1. lastApplied'[f] = lastApplied[f] /\ duty'[f] = duty[f]
          BY <1>6, <4>1, <4>3 DEF WriteSpeed, RecordApplied, TypeOK
        <5>2. QED
          BY <3>1, <5>1 DEF ControlInv, ReportMatchesHardware
      <4>4. QED
        BY <4>2, <4>3
    <3>2. undisturbed' = undisturbed
      BY <1>6 DEF WriteSpeed
    <3>3. QED
      BY <3>1, <3>2 DEF ReportMatchesHardware, HardwareValue
  <2>3. job' = "initial" => lastApplied' = NothingApplied
    BY <1>6 DEF WriteSpeed, RecordApplied, ControlInv
  <2>4. QED
    BY <1>6, <2>1, <2>2, <2>3
       DEF WriteSpeed, ControlInv, Placement, SavedModeIsOriginal,
           ControlledMeansManual, ReleaseReturnsControl
<1>7. CASE WriteSpeedFails
  BY <1>0, <1>7, QuietStep DEF WriteSpeedFails, ReadyToWrite, NextFanAfterFailure
<1>8. CASE WriteSpeedRaises
  BY <1>0, <1>8, QuietStep DEF WriteSpeedRaises, ReadyToWrite, AbandonJob
<1>9. CASE FinishInitial
  BY <1>0, <1>9, QuietStep DEF FinishInitial, BeginCycle
<1>10. CASE FinishCycle
  BY <1>0, <1>10, QuietStep DEF FinishCycle, AbandonJob
<1>11. ASSUME NEW s \in Slots, Restore(s) PROVE ControlInv'
  <2>1. job = "release" /\ up /\ job' = job
    BY <1>11 DEF Restore, ControlInv
  <2>2. ASSUME NEW f \in undisturbed
        PROVE  /\ f \in PwmFans
               /\ slot[f] = s => mode'[f] = original[s] /\ original[s] = before[f]
               /\ slot[f] # s => mode'[f] = mode[f]
    BY <1>11 DEF Restore, ControlInv, SavedModeIsOriginal, TypeOK
  <2>3. SavedModeIsOriginal'
    BY <1>11, <2>2 DEF Restore, ControlInv, SavedModeIsOriginal
  <2>4. ReleaseReturnsControl'
    BY <1>11, <2>2 DEF Restore, ControlInv, ReleaseReturnsControl
  <2>5. ReportMatchesHardware'
    BY <1>11 DEF Restore, ControlInv, ReportMatchesHardware, HardwareValue
  <2>6. QED
    BY <1>11, <2>1, <2>3, <2>4, <2>5
       DEF Restore, ControlInv, Placement, ControlledMeansManual
<1>12. ASSUME NEW s \in Slots, RestoreFails(s) PROVE ControlInv'
  <2>1. job = "release" /\ up /\ job' = job
    BY <1>12 DEF RestoreFails, ControlInv
  <2>2. QED
    BY <1>12, <2>1
       DEF RestoreFails, ControlInv, Placement, SavedModeIsOriginal,
           ControlledMeansManual, ReleaseReturnsControl, ReportMatchesHardware,
           HardwareValue
<1>13. ASSUME ProcessEnds, UNCHANGED host PROVE ControlInv'
  <2>1. \A f \in LiquidFans : lastApplied'[f] = None
    BY <1>13 DEF ProcessEnds, NothingApplied, FanIds
  <2>2. QED
    BY <1>13, <2>1
       DEF ProcessEnds, ControlInv, Placement, SavedModeIsOriginal,
           ControlledMeansManual, ReleaseReturnsControl, ReportMatchesHardware
<1>14. CASE FinishShutdown \/ Crash
  BY <1>13, <1>14 DEF FinishShutdown, Crash
<1>15. CASE LoopWake
  BY <1>15, QuietStep DEF LoopWake, BeginCycle
<1>16. CASE Apply
  BY <1>16, QuietStep DEF Apply, BeginCycle
<1>17. CASE PostConfig
  BY <1>17, QuietStep DEF PostConfig
<1>18. CASE Shutdown
  <2>1. \A f \in undisturbed : slot[f] \in Slots
    BY DEF ControlInv, TypeOK
  <2>2. ReleaseReturnsControl'
    BY <1>18, <2>1
       DEF Shutdown, ReleaseList, ControlInv, SavedModeIsOriginal, ReleaseReturnsControl
  <2>3. QED
    BY <1>18, <2>2
       DEF Shutdown, ReleaseList, ControlInv, Placement, SavedModeIsOriginal,
           ControlledMeansManual, ReportMatchesHardware, HardwareValue
<1>19. ASSUME NEW f \in PwmFans, Unplug(f) PROVE ControlInv'
  <2>1. \A g \in PwmFans \ {f} : slot'[g] = slot[g]
    BY <1>19 DEF Unplug, TypeOK
  <2>2. slot'[f] = Gone /\ undisturbed' = undisturbed \ {f} /\ undisturbed \subseteq PwmFans
    BY <1>19 DEF Unplug, TypeOK
  <2>3. \A g \in FanIds \ {f} : duty'[g] = duty[g]
    BY <1>19 DEF Unplug, TypeOK
  <2>4. Placement(slot)'
    BY <2>1, <2>2 DEF ControlInv, Placement
  <2>5. ReportMatchesHardware'
    BY <1>19, <2>2, <2>3, FansAreDistinct
       DEF Unplug, ControlInv, ReportMatchesHardware, HardwareValue, FanIds
  <2>6. QED
    BY <1>19, <2>1, <2>2, <2>4, <2>5
       DEF Unplug, ControlInv, SavedModeIsOriginal, ControlledMeansManual,
           ReleaseReturnsControl
<1>20. ASSUME NEW f \in PwmFans, NEW s \in Slots, Plug(f, s) PROVE ControlInv'
  <2>1. \A g \in PwmFans \ {f} : slot'[g] = slot[g] /\ mode'[g] = mode[g] /\ slot[g] # s
    BY <1>20 DEF Plug, TypeOK
  <2>2. slot'[f] = s /\ f \notin undisturbed /\ undisturbed \subseteq PwmFans
    BY <1>20 DEF Plug, TypeOK, ControlInv
  <2>3. Placement(slot)'
    BY <2>1, <2>2 DEF ControlInv, Placement
  <2>4. QED
    BY <1>20, <2>1, <2>2, <2>3
       DEF Plug, ControlInv, SavedModeIsOriginal, ControlledMeansManual,
           ReleaseReturnsControl, ReportMatchesHardware, HardwareValue
<1>21. ASSUME NEW f \in PwmFans, FirmwareReset(f) PROVE ControlInv'
  <2>1. \A g \in PwmFans \ {f} : mode'[g] = mode[g]
    BY <1>21 DEF FirmwareReset, TypeOK
  <2>2. undisturbed' = undisturbed \ {f} /\ undisturbed \subseteq PwmFans
    BY <1>21 DEF FirmwareReset, TypeOK
  <2>3. QED
    BY <1>21, <2>1, <2>2
       DEF FirmwareReset, ControlInv, Placement, SavedModeIsOriginal,
           ControlledMeansManual, ReleaseReturnsControl, ReportMatchesHardware,
           HardwareValue
<1>22. CASE UNCHANGED vars
  BY <1>22
     DEF vars, ControlInv, Placement, SavedModeIsOriginal, ControlledMeansManual,
         ReleaseReturnsControl, ReportMatchesHardware, HardwareValue
<1>23. QED
  BY <1>1, <1>2, <1>3, <1>4, <1>5, <1>6, <1>7, <1>8, <1>9, <1>10, <1>11, <1>12,
     <1>14, <1>15, <1>16, <1>17, <1>18, <1>19, <1>20, <1>21, <1>22
     DEF Next, JobStep, Environment

----------------------------------------------------------------------------
(* The theorems.                                                           *)

(* The inductive invariant holds in every reachable state. *)
THEOREM InductiveInvariant == Spec => []IInv
<1>1. Init => IInv
  BY InitType, InitControl DEF IInv
<1>2. IInv /\ [Next]_vars => IInv'
  BY StepType, StepControl DEF IInv, ControlInv
<1>3. QED
  BY <1>1, <1>2, PTL DEF Spec

(* Every variable keeps its type, for every set of constants. *)
THEOREM TypeCorrect == Spec => []TypeOK
<1>1. IInv => TypeOK
  BY DEF IInv
<1>2. QED
  BY <1>1, InductiveInvariant, PTL

(* What is remembered for an untouched header is the mode it had before. *)
THEOREM SavedModeTheorem == Spec => []SavedModeIsOriginal
<1>1. IInv => SavedModeIsOriginal
  BY DEF IInv, ControlInv
<1>2. QED
  BY <1>1, InductiveInvariant, PTL

(* An untouched header that counts as taken over is in manual mode. *)
THEOREM ControlledTheorem == Spec => []ControlledMeansManual
<1>1. IInv => ControlledMeansManual
  BY DEF IInv, ControlInv
<1>2. QED
  BY <1>1, InductiveInvariant, PTL

(* A completed release has given every untouched header its mode back. *)
THEOREM ReleaseTheorem == Spec => []ReleaseReturnsControl
<1>1. IInv => ReleaseReturnsControl
  BY DEF IInv, ControlInv
<1>2. QED
  BY <1>1, InductiveInvariant, PTL

(* The percent reported for a fan is the one its hardware was given. *)
THEOREM ReportTheorem == Spec => []ReportMatchesHardware
<1>1. IInv => ReportMatchesHardware
  BY DEF IInv, ControlInv
<1>2. QED
  BY <1>1, InductiveInvariant, PTL

(* Speeds reach an untouched header only while it is in manual mode. *)
THEOREM SpeedOnlyInManualTheorem == Spec => SpeedOnlyInManual
<1> DEFINE Step == \A f \in undisturbed \cap undisturbed' :
                      duty'[f] # duty[f] => mode[f] = Manual
<1>1. IInv /\ [Next]_vars => [Step]_vars
  <2> SUFFICES ASSUME IInv, [Next]_vars, NEW f \in undisturbed \cap undisturbed',
                      duty'[f] # duty[f]
               PROVE  mode[f] = Manual
    OBVIOUS
  <2> USE DEF host, memory, history
  <2>1. f \in PwmFans /\ duty \in [FanIds -> Int \cup {None}]
    BY DEF IInv, TypeOK
  <2>2. CASE WriteSpeed
    <3>1. f = Entry.fan_id
      BY <2>1, <2>2 DEF WriteSpeed, FanIds
    <3>2. f \in takenOver
      BY <2>1, <2>2, <3>1, FansAreDistinct DEF WriteSpeed, ReadyToWrite, CanSucceed
    <3>3. job # "release"
      BY <2>2 DEF WriteSpeed, ReadyToWrite, AtEntry, Walking
    <3>4. QED
      BY <3>2, <3>3 DEF IInv, ControlInv, ControlledMeansManual
  <2>3. CASE \E g \in PwmFans : Unplug(g)
    <3>1. PICK g \in PwmFans : Unplug(g)
      BY <2>3
    <3>2. f = g
      BY <2>1, <3>1 DEF Unplug, FanIds
    <3>3. QED
      BY <3>1, <3>2 DEF Unplug
  <2>4. CASE UNCHANGED duty
    BY <2>4
  <2>5. ASSUME ~WriteSpeed, \A g \in PwmFans : ~Unplug(g)
        PROVE  UNCHANGED duty
    BY <2>5
       DEF Next, JobStep, Environment, vars, Start, ScanFails, AbortCycle, TakeOver, TakeOverFails,
           TakeOverWriteFails, WriteSpeedFails, WriteSpeedRaises, FinishInitial,
           FinishCycle, BeginCycle, Restore, RestoreFails, FinishShutdown, LoopWake,
           Apply, PostConfig, Shutdown, Crash, Plug, FirmwareReset
  <2>6. QED
    BY <2>2, <2>3, <2>4, <2>5
<1>2. QED
  BY <1>1, InductiveInvariant, PTL DEF Spec, SpeedOnlyInManual
----------------------------------------------------------------------------
(* The walk of a cycle over its fans.                                      *)

(* A step that leaves the walk where it was, or starts a new one. *)
LEMMA SameWalk ==
  ASSUME CycleInv,
         \/ UNCHANGED <<config, job, pos, temps, lastApplied, faulted>>
         \/ job' \notin {"loop", "apply"}
         \/ config' \in Configs /\ pos' = 1
  PROVE  CycleInv'
<1>1. CASE UNCHANGED <<config, job, pos, temps, lastApplied, faulted>>
  BY <1>1 DEF CycleInv, ProcessedFansFollowPolicy
<1>2. CASE job' \notin {"loop", "apply"}
  BY <1>2 DEF CycleInv, ProcessedFansFollowPolicy
<1>3. CASE config' \in Configs /\ pos' = 1
  <2>1. Len(config'.fans) \in Nat
    BY <1>3 DEF Configs, Config
  <2>2. QED
    BY <1>3, <2>1 DEF CycleInv, ProcessedFansFollowPolicy
<1>4. QED
  BY <1>1, <1>2, <1>3

(* A failure is noted and costs no other fan its speed. *)
LEMMA FailureInWalk ==
  ASSUME TypeOK, CycleInv, AtEntry, NextFanAfterFailure,
         UNCHANGED <<config, temps, lastApplied>>
  PROVE  CycleInv'
<1>1. pos' = pos + 1 /\ pos <= Len(config.fans) /\ pos \in Nat \ {0} /\ job' = job
  BY DEF NextFanAfterFailure, AtEntry, TypeOK
<1>2. Len(config.fans) \in Nat
  BY DEF TypeOK, Configs, Config
<1>3. ASSUME job \in {"loop", "apply"}, NEW i \in 1 .. pos
      PROVE  LET fc == config.fans[i] IN
               \/ fc.fan_id \in faulted'
               \/ \E j \in i + 1 .. pos : config.fans[j].fan_id = fc.fan_id
               \/ /\ ~PolicyRaises(config, fc, temps)
                  /\ lastApplied[fc.fan_id] = PercentFor(config, fc, temps)
  <2>1. CASE i = pos
    BY <2>1 DEF NextFanAfterFailure, Entry
  <2>2. CASE i # pos
    <3>1. i \in 1 .. pos - 1
      BY <1>1, <1>3, <2>2
    <3>2. \A j \in i + 1 .. pos - 1 : j \in i + 1 .. pos
      BY <1>1, <1>3
    <3>3. QED
      BY <1>3, <3>1, <3>2 DEF CycleInv, ProcessedFansFollowPolicy, NextFanAfterFailure
  <2>3. QED
    BY <2>1, <2>2
<1>4. pos' - 1 = pos
  BY <1>1
<1>5. QED
  BY <1>1, <1>2, <1>3, <1>4 DEF CycleInv, ProcessedFansFollowPolicy

(* A speed that is written is the one asked for, and others keep theirs. *)
LEMMA SpeedInWalk ==
  ASSUME TypeOK, CycleInv, WriteSpeed
  PROVE  CycleInv'
<1>1. /\ pos' = pos + 1 /\ pos <= Len(config.fans) /\ pos \in Nat \ {0} /\ job' = job
      /\ UNCHANGED <<config, temps, faulted>>
  BY DEF WriteSpeed, ReadyToWrite, AtEntry, TypeOK, history
<1>2. Len(config.fans) \in Nat
  BY DEF TypeOK, Configs, Config
<1>3. Entry.fan_id \in FanIds
  BY PercentType DEF WriteSpeed, ReadyToWrite, FanEntry
<1>4. ASSUME job \in {"loop", "apply"}, NEW i \in 1 .. pos
      PROVE  LET fc == config.fans[i] IN
               \/ fc.fan_id \in faulted
               \/ \E j \in i + 1 .. pos : config.fans[j].fan_id = fc.fan_id
               \/ /\ ~PolicyRaises(config, fc, temps)
                  /\ lastApplied'[fc.fan_id] = PercentFor(config, fc, temps)
  <2>1. lastApplied' = [lastApplied EXCEPT ![Entry.fan_id] = PercentFor(config, Entry, temps)]
    BY <1>4 DEF WriteSpeed, RecordApplied, Percent
  <2>2. CASE i = pos
    <3>1. ~PolicyRaises(config, Entry, temps)
      BY <1>4 DEF WriteSpeed, ReadyToWrite, Raises
    <3>2. QED
      BY <1>3, <2>1, <2>2, <3>1 DEF Entry, TypeOK
  <2>3. CASE i # pos
    <3>1. i \in 1 .. pos - 1 /\ pos \in i + 1 .. pos
      BY <1>1, <1>4, <2>3
    <3>2. \A j \in i + 1 .. pos - 1 : j \in i + 1 .. pos
      BY <1>1, <1>4
    <3>3. CASE config.fans[i].fan_id = Entry.fan_id
      BY <3>1, <3>3 DEF Entry
    <3>4. CASE config.fans[i].fan_id # Entry.fan_id
      <4>1. lastApplied'[config.fans[i].fan_id] = lastApplied[config.fans[i].fan_id]
        BY <2>1, <3>4 DEF TypeOK
      <4>2. QED
        BY <1>4, <3>1, <3>2, <4>1 DEF CycleInv, ProcessedFansFollowPolicy
    <3>5. QED
      BY <3>3, <3>4
  <2>4. QED
    BY <2>2, <2>3
<1>5. pos' - 1 = pos
  BY <1>1
<1>6. QED
  BY <1>1, <1>2, <1>4, <1>5 DEF CycleInv, ProcessedFansFollowPolicy

LEMMA InitWalk == Init => CycleInv
BY DEF Init, CycleInv, ProcessedFansFollowPolicy

LEMMA StepWalk ==
  ASSUME TypeOK, ControlInv, CycleInv, [Next]_vars
  PROVE  CycleInv'
<1> USE DEF host, memory, history
<1>0. config \in Configs
  BY DEF TypeOK
<1>1. CASE Start
  BY <1>1, SameWalk DEF Start
<1>2. CASE ScanFails \/ AbortCycle \/ WriteSpeedRaises \/ FinishCycle
  BY <1>2, SameWalk DEF ScanFails, AbortCycle, WriteSpeedRaises, FinishCycle, AbandonJob
<1>3. CASE TakeOver
  BY <1>3, SameWalk DEF TakeOver
<1>4. CASE TakeOverFails \/ TakeOverWriteFails
  BY <1>4, FailureInWalk DEF TakeOverFails, TakeOverWriteFails, NeedsTakeover
<1>5. CASE WriteSpeed
  BY <1>5, SpeedInWalk
<1>6. CASE WriteSpeedFails
  BY <1>6, FailureInWalk DEF WriteSpeedFails, ReadyToWrite
<1>7. CASE FinishInitial \/ LoopWake \/ Apply
  BY <1>0, <1>7, SameWalk DEF FinishInitial, LoopWake, Apply, BeginCycle
<1>8. CASE PostConfig \/ Shutdown
  BY <1>8, SameWalk DEF PostConfig, Shutdown
<1>9. CASE \E s \in Slots : Restore(s) \/ RestoreFails(s)
  BY <1>9, SameWalk DEF Restore, RestoreFails
<1>10. CASE FinishShutdown \/ Crash
  BY <1>10, SameWalk DEF FinishShutdown, Crash, ProcessEnds
<1>11. CASE \E f \in PwmFans : Unplug(f) \/ (\E s \in Slots : Plug(f, s)) \/ FirmwareReset(f)
  BY <1>11, SameWalk DEF Unplug, Plug, FirmwareReset
<1>12. CASE UNCHANGED vars
  BY <1>12, SameWalk DEF vars
<1>13. QED
  BY <1>1, <1>2, <1>3, <1>4, <1>5, <1>6, <1>7, <1>8, <1>9, <1>10, <1>11, <1>12
     DEF Next, JobStep, Environment

(* Whatever fails, each fan a cycle has passed without a failure of its    *)
(* own has been given the speed its configuration asks for (run_once).     *)
THEOREM PolicyTheorem == Spec => []ProcessedFansFollowPolicy
<1>1. Spec => []CycleInv
  <2>1. IInv /\ CycleInv /\ [Next]_vars => CycleInv'
    BY StepWalk DEF IInv
  <2>2. QED
    BY <2>1, InitWalk, InductiveInvariant, PTL DEF Spec
<1>2. CycleInv => ProcessedFansFollowPolicy
  BY DEF CycleInv
<1>3. QED
  BY <1>1, <1>2, PTL

----------------------------------------------------------------------------
(* FanControl implements FanLoan.                                         *)

(* A step that leaves the headers and the notes alone is a stutter. *)
LEMMA SameLoan ==
  ASSUME UNCHANGED <<slot, mode, up, original, toRestore>>,
         job = "release" <=> job' = "release"
  PROVE  UNCHANGED Loan!vars
BY DEF Loan!vars, Phase, Owed

(* Noting the mode of the header at the cursor, with or without taking it. *)
LEMMA BorrowStep ==
  ASSUME TypeOK, ControlInv, NeedsTakeover, PathOf(Entry.fan_id) # Gone,
         SaveOriginal(Entry.fan_id),
         mode' \in {mode, [mode EXCEPT ![Entry.fan_id] = Manual]},
         UNCHANGED <<slot, up, job>>
  PROVE  \E f \in PwmFans : Loan!Borrow(f)
<1> DEFINE f == Entry.fan_id
<1>1. f \in PwmFans /\ slot[f] \in Slots /\ mode[f] \in Modes
  BY TakeoverEntry
<1>2. up /\ job # "release"
  BY DEF NeedsTakeover, AtEntry, Walking, ControlInv
<1>3. Owed = original /\ Owed' = original'
  <2>1. Owed = [s \in Slots |-> original[s]] /\ Owed' = [s \in Slots |-> original'[s]]
    BY <1>2 DEF Owed
  <2>2. original' \in [Slots -> Modes \cup {None}]
    BY <1>1 DEF SaveOriginal, TypeOK
  <2>3. QED
    BY <2>1, <2>2 DEF TypeOK
<1>4. Loan!Borrow(f)
  BY <1>1, <1>2, <1>3 DEF Loan!Borrow, SaveOriginal, Phase
<1>5. QED
  BY <1>1, <1>4

(* The initial states are initial states of the loan. *)
LEMMA InitLoan == Init => Loan!Init
BY DEF Init, Loan!Init, Loan!Settled, NothingSaved, Phase, Owed

(* Every step is a step of the loan or a stutter. *)
LEMMA StepLoan ==
  ASSUME TypeOK, ControlInv, [Next]_vars
  PROVE  [Loan!Next]_Loan!vars
<1> USE DEF host, memory, history
<1>0. ASSUME AtEntry \/ AtEnd PROVE up /\ job # "release" /\ job # "idle"
  BY <1>0 DEF AtEntry, AtEnd, Walking, ControlInv
<1>1. CASE Start
  <2>1. Loan!Open
    BY <1>1 DEF Start, ControlInv, Loan!Open, Phase, Owed
  <2>2. QED
    BY <2>1 DEF Loan!Next
<1>2. CASE ScanFails \/ AbortCycle \/ FinishInitial \/ FinishCycle
  BY <1>0, <1>2, SameLoan
     DEF ScanFails, AbortCycle, AbandonJob, FinishInitial, FinishCycle, BeginCycle
<1>3. CASE TakeOver
  <2>1. \E f \in PwmFans : Loan!Borrow(f)
    BY <1>3, BorrowStep DEF TakeOver
  <2>2. QED
    BY <2>1 DEF Loan!Next
<1>4. CASE TakeOverWriteFails
  <2>1. \E f \in PwmFans : Loan!Borrow(f)
    BY <1>4, BorrowStep DEF TakeOverWriteFails, NextFanAfterFailure
  <2>2. QED
    BY <2>1 DEF Loan!Next
<1>5. CASE TakeOverFails
  BY <1>0, <1>5, SameLoan DEF TakeOverFails, NextFanAfterFailure
<1>6. CASE WriteSpeed
  BY <1>0, <1>6, SameLoan DEF WriteSpeed
<1>7. CASE WriteSpeedFails
  BY <1>0, <1>7, SameLoan DEF WriteSpeedFails, NextFanAfterFailure
<1>8. CASE WriteSpeedRaises
  BY <1>0, <1>8, SameLoan DEF WriteSpeedRaises, ReadyToWrite, AbandonJob
<1>9. CASE LoopWake \/ Apply \/ PostConfig
  BY <1>9, SameLoan DEF LoopWake, Apply, PostConfig, BeginCycle
<1>10. CASE Shutdown
  <2>1. up /\ Phase = "serving" /\ Phase' = "settling"
    BY <1>10 DEF Shutdown, Phase
  <2>2. Owed' = Owed
    BY <1>10 DEF Shutdown, Owed, ReleaseList
  <2>3. Loan!Close
    BY <1>10, <2>1, <2>2 DEF Shutdown, Loan!Close
  <2>4. QED
    BY <2>3 DEF Loan!Next
<1>11. CASE \E s \in Slots : Restore(s)
  <2>1. PICK s \in Slots : Restore(s)
    BY <1>11
  <2>2. PICK f \in PwmFans : slot[f] = s
    BY <2>1 DEF Restore
  <2>3. up /\ job = "release" /\ s \in toRestore /\ original[s] # None
    BY <2>1 DEF Restore, ControlInv
  <2>4. Owed[s] = original[s] /\ Owed' = [Owed EXCEPT ![s] = None]
    BY <2>1, <2>3 DEF Restore, Owed
  <2>5. mode' = [mode EXCEPT ![f] = original[s]]
    <3>1. \A g \in PwmFans : slot[g] = s <=> g = f
      BY <2>2, GoneIsNoSlot DEF ControlInv, Placement
    <3>2. QED
      BY <2>1, <3>1 DEF Restore, TypeOK
  <2>6. Loan!GiveBack(f)
    BY <2>1, <2>2, <2>3, <2>4, <2>5 DEF Restore, Loan!GiveBack, Phase
  <2>7. QED
    BY <2>6 DEF Loan!Next
<1>12. CASE \E s \in Slots : RestoreFails(s)
  <2>1. PICK s \in Slots : RestoreFails(s)
    BY <1>12
  <2>2. up /\ job = "release" /\ s \in toRestore /\ original[s] # None
    BY <2>1 DEF RestoreFails, ControlInv
  <2>3. Owed[s] = original[s] /\ Owed' = [Owed EXCEPT ![s] = None]
    BY <2>1, <2>2 DEF RestoreFails, Owed
  <2>4. Loan!WriteOff(s)
    BY <2>1, <2>2, <2>3 DEF RestoreFails, Loan!WriteOff, Phase
  <2>5. QED
    BY <2>4 DEF Loan!Next
<1>13. CASE FinishShutdown
  <2>1. Phase = "settling" /\ Phase' = "stopped"
    BY <1>13 DEF FinishShutdown, ProcessEnds, ControlInv, Phase
  <2>2. Owed = Loan!Settled /\ Owed' = Loan!Settled
    BY <1>13 DEF FinishShutdown, ProcessEnds, Owed, NothingSaved, Loan!Settled
  <2>3. Loan!Stop
    BY <1>13, <2>1, <2>2 DEF FinishShutdown, Loan!Stop
  <2>4. QED
    BY <2>3 DEF Loan!Next
<1>14. CASE Crash
  <2>1. Phase # "stopped" /\ Phase' = "stopped"
    BY <1>14 DEF Crash, ProcessEnds, Phase
  <2>2. Owed' = Loan!Settled
    BY <1>14 DEF Crash, ProcessEnds, Owed, NothingSaved, Loan!Settled
  <2>3. Loan!Crash
    BY <1>14, <2>1, <2>2 DEF Crash, Loan!Crash
  <2>4. QED
    BY <2>3 DEF Loan!Next
<1>15. ASSUME NEW f \in PwmFans,
              Unplug(f) \/ (\E s \in Slots : Plug(f, s)) \/ FirmwareReset(f)
       PROVE  [Loan!Next]_Loan!vars
  <2>1. UNCHANGED <<Phase, Owed>>
    BY <1>15 DEF Unplug, Plug, FirmwareReset, Phase, Owed
  <2>2. Loan!Host(f)
    BY <1>15, <2>1 DEF Unplug, Plug, FirmwareReset, Loan!Host
  <2>3. QED
    BY <2>2 DEF Loan!Next
<1>16. CASE UNCHANGED vars
  BY <1>16, SameLoan DEF vars
<1>17. QED
  BY <1>1, <1>2, <1>3, <1>4, <1>5, <1>6, <1>7, <1>8, <1>9, <1>10, <1>11, <1>12,
     <1>13, <1>14, <1>15, <1>16 DEF Next, JobStep, Environment

(* Every behaviour of the service is one that the loan of the headers      *)
(* allows: nothing is taken that is not noted first, nothing is taken      *)
(* while the service stops, and it stops with every note settled.          *)
THEOREM LoanRefinement == Spec => ImplementsLoan
<1>1. Init => Loan!Init
  BY InitLoan
<1>2. IInv /\ [Next]_vars => [Loan!Next]_Loan!vars
  BY StepLoan DEF IInv
<1>3. QED
  BY <1>1, <1>2, InductiveInvariant, PTL DEF Spec, ImplementsLoan, Loan!Spec
=============================================================================
