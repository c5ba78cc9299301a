----------------------------- MODULE FanControl -----------------------------
(***************************************************************************)
(* The fan control loop and its life cycle: app/controller.py, the hwmon   *)
(* and liquidctl back ends it drives, and the lifespan of app/main.py.     *)
(*                                                                         *)
(* Everything runs on one asyncio event loop and no handler awaits between *)
(* its first and its last write, so one job runs at a time: the variable   *)
(* job.  A job is nevertheless several steps here, one per system call     *)
(* that changes something, because the process can be killed, and a kernel *)
(* driver can be reloaded, between any two of them.                        *)
(***************************************************************************)
EXTENDS FanPolicy

CONSTANTS
  PwmFans,        \* fan IDs "hwmon-pwm-<device>/pwmN": one header each
  LiquidFans,     \* fan IDs "fanN" of the USB controller
  Slots,          \* sysfs positions hwmonN/pwmM a header can have
  Gone,           \* the position of a header whose driver is not loaded
  Modes,          \* contents of a pwmN_enable file
  Manual,         \* "1"
  Firmware,       \* the mode in which the driver or the BIOS leaves a header
  CurveNames, SensorIds, Temps,
  SavedConfigs,   \* what POST /api/config accepts
  FileConfigs,    \* what a configuration file on disk may hold
  LiquidOutcomes  \* how a liquidctl command can end

FanIds == PwmFans \cup LiquidFans
Configs == Config(FanIds, CurveNames, SensorIds)
Readings == [SensorIds -> Temps \cup {None}]

ASSUME FansAreDistinct == PwmFans \cap LiquidFans = {}
ASSUME GoneIsNoSlot == Gone \notin Slots
ASSUME ModesAssumption ==
  Manual \in Modes /\ None \notin Modes /\ Firmware \in [PwmFans -> Modes]
ASSUME ConfigsAssumption ==
  SavedConfigs \subseteq Configs /\ FileConfigs \subseteq Configs
ASSUME TempsAssumption == Temps \subseteq Int

VARIABLES
  (* the host, which outlives the process *)
  slot,         \* slot[f]: where the kernel lists header f now
  mode,         \* mode[f]: the contents of its pwmN_enable
  duty,         \* duty[f]: the last speed written to fan f, if any
  config,       \* the configuration, in memory and in config.json
  (* the process *)
  up,
  loop,         \* the controller task: "off", "starting", "sleeping", "busy", "dead"
  job,          \* what the event loop is running
  pos,          \* the index in config.fans the job has reached
  temps,        \* the readings of the job's single scan, None if it raised
  takenOver,    \* _pwm_taken_over
  original,     \* _original_enable
  lastApplied,  \* _last_applied
  toRestore,    \* slots release_all has not written yet
  (* history variables *)
  before,       \* the mode each header had when this process started
  undisturbed,  \* headers nobody else has touched since then
  faulted       \* fans with a failed step in this cycle

host    == <<slot, mode, duty, config>>
memory  == <<takenOver, original, lastApplied>>
history == <<before, undisturbed, faulted>>
vars == <<host, up, loop, job, pos, temps, memory, toRestore, history>>

NoReadings == [s \in SensorIds |-> None]
NothingSaved == [s \in Slots |-> None]
NothingApplied == [f \in FanIds |-> None]

(* _resolve_paths(fan_id): an ID of another shape resolves to nothing. *)
PathOf(f) == IF f \in PwmFans THEN slot[f] ELSE Gone

(* What a back end writes for a percent: both clamp, hwmon also converts. *)
HardwareValue(f, percent) ==
  IF f \in PwmFans THEN PwmValue(percent) ELSE Clamp(percent)

(* load_config corrects the back end of every hwmon-pwm ID. *)
FixBackends(c) ==
  [c EXCEPT !.fans = [i \in DOMAIN c.fans |->
     IF c.fans[i].fan_id \in PwmFans
     THEN [c.fans[i] EXCEPT !.backend = "hwmon-pwm"] ELSE c.fans[i]]]

TypeOK ==
  /\ slot \in [PwmFans -> Slots \cup {Gone}]
  /\ mode \in [PwmFans -> Modes]
  /\ duty \in [FanIds -> Int \cup {None}]
  /\ config \in Configs
  /\ up \in BOOLEAN
  /\ loop \in {"off", "starting", "sleeping", "busy", "dead"}
  /\ job \in {"idle", "initial", "loop", "apply", "release"}
  /\ pos \in Nat \ {0}
  /\ temps \in Readings \cup {None}
  /\ takenOver \in SUBSET PwmFans
  /\ original \in [Slots -> Modes \cup {None}]
  /\ lastApplied \in [FanIds -> Int \cup {None}]
  /\ toRestore \in SUBSET Slots
  /\ before \in [PwmFans -> Modes]
  /\ undisturbed \in SUBSET PwmFans
  /\ faulted \in SUBSET FanIds

(* Two headers never share a position. *)
Placement(s) ==
  \A f, g \in PwmFans : f # g /\ s[f] = s[g] => s[f] = Gone

Init ==
  /\ slot \in [PwmFans -> Slots] /\ Placement(slot)
  /\ mode = Firmware
  /\ duty = NothingApplied
  /\ config \in FileConfigs
  /\ up = FALSE /\ loop = "off" /\ job = "idle" /\ pos = 1
  /\ temps = NoReadings
  /\ takenOver = {} /\ original = NothingSaved /\ lastApplied = NothingApplied
  /\ toRestore = {}
  /\ before = Firmware /\ undisturbed = {} /\ faulted = {}

----------------------------------------------------------------------------
(* Start-up.  load_config reads the file, which may have been edited by    *)
(* hand; the controller task then runs liquidctl initialize, whose failure *)
(* is survivable unless the command cannot be executed at all.             *)

Start ==
  /\ ~up
  /\ \E c \in FileConfigs \cup {config} : config' = FixBackends(c)
  /\ \E outcome \in LiquidOutcomes :
       IF outcome = "oserror"
       THEN loop' = "dead" /\ job' = "idle"
       ELSE loop' = "starting" /\ job' = "initial"
  /\ up' = TRUE
  /\ pos' = 1
  /\ before' = mode
  /\ undisturbed' = { f \in PwmFans : slot[f] # Gone }
  /\ UNCHANGED <<slot, mode, duty, temps, memory, toRestore, faulted>>

(* The steps of a job that walks config.fans. *)
Entry == config.fans[pos]
Walking == job \in {"initial", "loop", "apply"} /\ temps # None
AtEntry == Walking /\ pos <= Len(config.fans)
AtEnd   == Walking /\ pos > Len(config.fans)

Raises == job # "initial" /\ PolicyRaises(config, Entry, temps)

Percent ==
  IF job = "initial" THEN InitialPercent(config, Entry)
  ELSE PercentFor(config, Entry, temps)

\* Mutation: one failure ends the walk over the fans.
StopAfterFailure ==
  /\ faulted' = faulted \cup {Entry.fan_id}
  /\ pos' = Len(config.fans) + 1
  /\ UNCHANGED <<job, loop>>

(* _apply_fan_speed raised RuntimeError: log it and go on with the next fan. *)
NextFanAfterFailure ==
  /\ faulted' = faulted \cup {Entry.fan_id}
  /\ pos' = pos + 1
  /\ UNCHANGED <<job, loop>>

(* Any other exception ends the job: it is caught in the loop, answered    *)
(* with an error for an API request, and kills the task during start-up.   *)
AbandonJob ==
  /\ job' = "idle" /\ pos' = 1 /\ temps' = NoReadings /\ faulted' = {}
  /\ loop' = CASE job = "loop"    -> "sleeping"
               [] job = "initial" -> "dead"
               [] job = "apply"   -> loop

\* Mutation: the exception escapes the endless loop.
AbortKillsTask ==
  /\ AtEntry /\ Raises
  /\ job' = "idle" /\ loop' = "dead" /\ pos' = 1 /\ temps' = NoReadings
  /\ faulted' = {}
  /\ UNCHANGED <<host, up, memory, toRestore, before, undisturbed>>

AbortCycle ==
  /\ AtEntry
  /\ Raises
  /\ AbandonJob
  /\ UNCHANGED <<host, up, memory, toRestore, before, undisturbed>>

----------------------------------------------------------------------------
(* hwmon-pwm fans.                                                         *)

NeedsTakeover ==
  /\ AtEntry /\ ~Raises
  /\ Entry.backend = "hwmon-pwm" /\ Entry.fan_id \notin takenOver

\* Mutation: the mode is remembered after manual mode has been written.
SaveAfterWriting(f) ==
  IF original[slot[f]] = None
  THEN original' = [original EXCEPT ![slot[f]] = Manual]
  ELSE UNCHANGED original

(* takeover(): remember the mode once per path, then write manual mode. *)
SaveOriginal(f) ==
  IF original[slot[f]] = None
  THEN original' = [original EXCEPT ![slot[f]] = mode[f]]
  ELSE UNCHANGED original

TakeOver ==
  /\ NeedsTakeover
  /\ LET f == Entry.fan_id IN
       /\ PathOf(f) # Gone
       /\ SaveOriginal(f)
       /\ mode' = [mode EXCEPT ![f] = Manual]
       /\ takenOver' = takenOver \cup {f}
  /\ UNCHANGED <<slot, duty, config, up, loop, job, pos, temps, lastApplied,
                 toRestore, history>>

(* No path, or the mode cannot be read: nothing is remembered. *)
TakeOverFails ==
  /\ NeedsTakeover
  /\ NextFanAfterFailure
  /\ UNCHANGED <<host, up, temps, memory, toRestore, before, undisturbed>>

\* Mutation: the fan is marked before the write is known to have worked.
MarkBeforeWrite ==
  /\ NeedsTakeover
  /\ PathOf(Entry.fan_id) # Gone
  /\ SaveOriginal(Entry.fan_id)
  /\ takenOver' = takenOver \cup {Entry.fan_id}
  /\ NextFanAfterFailure
  /\ UNCHANGED <<host, up, temps, lastApplied, toRestore, before, undisturbed>>

(* The mode was read and remembered, but manual mode could not be written. *)
TakeOverWriteFails ==
  /\ NeedsTakeover
  /\ PathOf(Entry.fan_id) # Gone
  /\ SaveOriginal(Entry.fan_id)
  /\ NextFanAfterFailure
  /\ UNCHANGED <<host, up, temps, takenOver, lastApplied, toRestore, before,
                 undisturbed>>

----------------------------------------------------------------------------
(* Writing the speed, to either back end.                                  *)

\* Mutation: the speed is written whether or not the takeover succeeded.
ReadyWithoutTakeover == AtEntry /\ ~Raises

ReadyToWrite ==
  /\ AtEntry /\ ~Raises
  /\ Entry.backend = "hwmon-pwm" => Entry.fan_id \in takenOver

CanSucceed ==
  IF Entry.backend = "hwmon-pwm" THEN PathOf(Entry.fan_id) # Gone
  ELSE Entry.fan_id \in LiquidFans /\ "ok" \in LiquidOutcomes

(* The initial speeds are not recorded in _last_applied. *)
RecordApplied ==
  IF job = "initial" THEN UNCHANGED lastApplied
  ELSE lastApplied' = [lastApplied EXCEPT ![Entry.fan_id] = Percent]

WriteSpeed ==
  /\ ReadyToWrite
  /\ CanSucceed
  /\ duty' = [duty EXCEPT ![Entry.fan_id] = HardwareValue(Entry.fan_id, Percent)]
  /\ RecordApplied
  /\ pos' = pos + 1
  /\ UNCHANGED <<slot, mode, config, up, loop, job, temps, takenOver, original,
                 toRestore, history>>

\* Mutation: the percent is recorded before the command is known to have worked.
RecordedDespiteFailure ==
  /\ ReadyToWrite
  /\ Entry.backend = "liquidctl" => "error" \in LiquidOutcomes
  /\ NextFanAfterFailure
  /\ RecordApplied
  /\ UNCHANGED <<host, up, temps, takenOver, original, toRestore, before,
                 undisturbed>>

WriteSpeedFails ==
  /\ ReadyToWrite
  /\ Entry.backend = "liquidctl" => "error" \in LiquidOutcomes
  /\ NextFanAfterFailure
  /\ UNCHANGED <<host, up, temps, memory, toRestore, before, undisturbed>>

(* The liquidctl command could not be executed at all. *)
WriteSpeedRaises ==
  /\ ReadyToWrite
  /\ Entry.backend = "liquidctl" /\ "oserror" \in LiquidOutcomes
  /\ AbandonJob
  /\ UNCHANGED <<host, up, memory, toRestore, before, undisturbed>>

----------------------------------------------------------------------------
(* Cycles: run_once, called by the task and by POST /api/apply.            *)

(* detect_sensors runs first and may raise: an OSError other than "not     *)
(* found" when smartctl is started goes through every handler.             *)
BeginCycle(kind) ==
  /\ job' = kind /\ pos' = 1 /\ faulted' = {}
  /\ temps' \in Readings \cup {None}
  /\ UNCHANGED <<host, up, memory, toRestore, before, undisturbed>>

(* It has raised: the cycle ends before its first fan. *)
ScanFails ==
  /\ job \in {"loop", "apply"} /\ temps = None
  /\ AbandonJob
  /\ UNCHANGED <<host, up, memory, toRestore, before, undisturbed>>

(* The initial speeds are set; the task enters its endless loop. *)
FinishInitial ==
  /\ AtEnd /\ job = "initial"
  /\ loop' = "busy"
  /\ BeginCycle("loop")

LoopWake ==
  /\ up /\ job = "idle" /\ loop = "sleeping"
  /\ loop' = "busy"
  /\ BeginCycle("loop")

Apply ==
  /\ up /\ job = "idle"
  /\ BeginCycle("apply")
  /\ UNCHANGED loop

(* RPM collection and the history write end the cycle, whether they raise or not. *)
FinishCycle ==
  /\ AtEnd /\ job # "initial"
  /\ AbandonJob
  /\ UNCHANGED <<host, up, memory, toRestore, before, undisturbed>>

(* POST /api/config: saved and installed before any other job can run. *)
PostConfig ==
  /\ up /\ job = "idle"
  /\ config' \in SavedConfigs
  /\ UNCHANGED <<slot, mode, duty, up, loop, job, pos, temps, memory, toRestore,
                 history>>

----------------------------------------------------------------------------
(* Shutdown: release_all, then the task is cancelled and the process ends. *)

ProcessEnds ==
  /\ up' = FALSE /\ loop' = "off" /\ job' = "idle" /\ pos' = 1
  /\ temps' = NoReadings
  /\ takenOver' = {} /\ original' = NothingSaved /\ lastApplied' = NothingApplied
  /\ toRestore' = {}
  /\ before' = Firmware /\ undisturbed' = {} /\ faulted' = {}

\* Mutations: every slot is written; only the fans still configured are released.
ReleaseEverySlot == Slots

ReleaseConfigured ==
  { slot[f] : f \in PwmFans \cap { config.fans[i].fan_id : i \in DOMAIN config.fans } }
    \ {Gone}

ReleaseList == { s \in Slots : original[s] # None }

Shutdown ==
  /\ up /\ job = "idle"
  /\ job' = "release"
  /\ toRestore' = ReleaseList
  /\ UNCHANGED <<host, up, loop, pos, temps, memory, history>>

(* The write goes to the remembered path, whichever header is there now. *)
Restore(s) ==
  /\ job = "release" /\ s \in toRestore
  /\ \E f \in PwmFans : slot[f] = s
  /\ toRestore' = toRestore \ {s}
  /\ mode' = [f \in PwmFans |-> IF slot[f] = s THEN original[s] ELSE mode[f]]
  /\ UNCHANGED <<slot, duty, config, up, loop, job, pos, temps, memory, history>>

\* Mutation: a refused write is tried again until it succeeds.
RestoreRetried(s) ==
  /\ job = "release" /\ s \in toRestore
  /\ undisturbed' = { f \in undisturbed : slot[f] # s }
  /\ UNCHANGED <<host, up, loop, job, pos, temps, memory, toRestore, before, faulted>>

(* A refused write is logged and the slot is forgotten. *)
RestoreFails(s) ==
  /\ job = "release" /\ s \in toRestore
  /\ toRestore' = toRestore \ {s}
  /\ undisturbed' = { f \in undisturbed : slot[f] # s }
  /\ UNCHANGED <<host, up, loop, job, pos, temps, memory, before, faulted>>

FinishShutdown ==
  /\ job = "release" /\ toRestore = {}
  /\ ProcessEnds
  /\ UNCHANGED host

(* SIGKILL, out of memory, a crash: no clean-up of any kind. *)
Crash ==
  /\ up
  /\ ProcessEnds
  /\ UNCHANGED host

----------------------------------------------------------------------------
(* The rest of the host.                                                   *)

Unplug(f) ==      \* the driver is unloaded
  /\ slot[f] # Gone
  /\ slot' = [slot EXCEPT ![f] = Gone]
  /\ duty' = [duty EXCEPT ![f] = None]
  /\ undisturbed' = undisturbed \ {f}
  /\ UNCHANGED <<mode, config, up, loop, job, pos, temps, memory, toRestore,
                 before, faulted>>

Plug(f, s) ==     \* and loaded again, perhaps under another hwmonN
  /\ slot[f] = Gone
  /\ s \notin { slot[g] : g \in PwmFans }
  /\ slot' = [slot EXCEPT ![f] = s]
  /\ mode' = [mode EXCEPT ![f] = Firmware[f]]
  /\ UNCHANGED <<duty, config, up, loop, job, pos, temps, memory, toRestore,
                 history>>

FirmwareReset(f) ==   \* suspend and resume, or another tool
  /\ slot[f] # Gone
  /\ mode[f] # Firmware[f]
  /\ mode' = [mode EXCEPT ![f] = Firmware[f]]
  /\ undisturbed' = undisturbed \ {f}
  /\ UNCHANGED <<slot, duty, config, up, loop, job, pos, temps, memory, toRestore,
                 before, faulted>>

JobStep ==
  \/ ScanFails \/ AbortCycle
  \/ TakeOver \/ TakeOverFails \/ TakeOverWriteFails
  \/ WriteSpeed \/ WriteSpeedFails \/ WriteSpeedRaises
  \/ FinishInitial \/ FinishCycle
  \/ \E s \in Slots : Restore(s) \/ RestoreFails(s)
  \/ FinishShutdown

Environment ==
  \/ Crash
  \/ \E f \in PwmFans : \/ Unplug(f)
                        \/ \E s \in Slots : Plug(f, s)
                        \/ FirmwareReset(f)

Next ==
  \/ Start \/ JobStep
  \/ LoopWake \/ Apply \/ PostConfig \/ Shutdown
  \/ Environment

Spec == Init /\ [][Next]_vars

(* The event loop runs the job it has started, and a timer that is due is  *)
(* served in the end although API requests keep arriving (the ready queue  *)
(* of asyncio is first-in, first-out).  Nobody has to call, stop or crash. *)
Fairness == WF_vars(JobStep) /\ SF_vars(LoopWake)

FairSpec == Spec /\ Fairness
----------------------------------------------------------------------------
(* Properties.                                                             *)

(* The mode remembered for a header that nobody else has touched is the    *)
(* mode it had before this process wrote to it, whatever failed, was       *)
(* retried or was taken over in between (takeover, _original_enable).      *)
SavedModeIsOriginal ==
  \A f \in undisturbed :
    LET saved == original[slot[f]] IN
      IF saved = None THEN mode[f] = before[f] ELSE saved = before[f]

(* A header this process counts as taken over is in manual mode, and so    *)
(* the speed written to it takes effect, until it is released              *)
(* (_ensure_pwm_takeover).                                                 *)
ControlledMeansManual ==
  job # "release" => \A f \in undisturbed \cap takenOver : mode[f] = Manual

(* Once release_all has gone through its list, every untouched header is   *)
(* back in the mode it had before, also one whose takeover failed half way *)
(* or that was removed from the configuration since.                       *)
ReleaseReturnsControl ==
  job = "release" =>
    \A f \in undisturbed : slot[f] \in toRestore \/ mode[f] = before[f]

(* What /api/state reports as a fan's last percent is what its hardware    *)
(* was last given, over all failures, overrides and changes of the         *)
(* configuration (_last_applied).                                          *)
ReportMatchesHardware ==
  \A f \in LiquidFans \cup undisturbed :
    lastApplied[f] # None => duty[f] = HardwareValue(f, lastApplied[f])

(* The inductive invariant behind these four: positions are distinct, an   *)
(* untouched header has one, only saved modes are restored, and a process  *)
(* starts, and sets its initial speeds, with nothing remembered.           *)
ControlInv ==
  /\ Placement(slot)
  /\ \A f \in undisturbed : slot[f] # Gone
  /\ \A s \in toRestore : original[s] # None
  /\ ~up => /\ takenOver = {} /\ original = NothingSaved
            /\ lastApplied = NothingApplied /\ job = "idle"
  /\ job = "initial" => lastApplied = NothingApplied
  /\ SavedModeIsOriginal
  /\ ControlledMeansManual
  /\ ReleaseReturnsControl
  /\ ReportMatchesHardware

IInv == TypeOK /\ ControlInv

(* A failing fan never costs another one its speed: of the fans a cycle    *)
(* has passed, each one without a failure of its own has been given what   *)
(* its configuration and the cycle's readings ask for; a fan for which     *)
(* these yield no speed is never passed (run_once).                        *)
ProcessedFansFollowPolicy ==
  job \in {"loop", "apply"} =>
    \A i \in 1 .. pos - 1 :
      LET fc == config.fans[i] IN
        \/ fc.fan_id \in faulted
        \/ \E j \in i + 1 .. pos - 1 : config.fans[j].fan_id = fc.fan_id
        \/ /\ ~PolicyRaises(config, fc, temps)
           /\ lastApplied[fc.fan_id] = PercentFor(config, fc, temps)

(* The inductive invariant behind it: a cycle stays within its list. *)
CycleInv ==
  /\ job \in {"loop", "apply"} => pos <= Len(config.fans) + 1
  /\ ProcessedFansFollowPolicy

(* Brisa writes a speed to an untouched header only while that header is   *)
(* in manual mode: never before its takeover, never after its release      *)
(* (_apply_fan_speed; release_all comes last).                             *)
SpeedOnlyInManual ==
  [][\A f \in undisturbed \cap undisturbed' :
       duty'[f] # duty[f] => mode[f] = Manual]_vars

(* A configuration that is posted to a running service, and stays, is      *)
(* carried out to its last fan by the loop without any further call, once  *)
(* the sensor scans have stopped raising for good: whatever cycles they,   *)
(* an unusable curve or a command that cannot be executed ended before.    *)
ConfigTakesEffect ==
  <>[](temps # None) =>
    \A c \in SavedConfigs :
      (up /\ job = "idle" /\ config = c)
        ~> (~up \/ job = "release" \/ config # c \/ (job = "loop" /\ AtEnd))

(* Documented (README.md, "Known Limitations"; ARCHITECTURE.md, shutdown):  *)
(* a graceful shutdown gives each header that was taken over back to its   *)
(* firmware.  It does not when an earlier process was killed: the mode its *)
(* successor saves at its own takeover, and writes back, is "manual".      *)
ShutdownRestoresFirmware ==
  (job = "release" /\ toRestore = {}) =>
    \A f \in undisturbed \cap takenOver : mode[f] = Firmware[f]

(* The abstract service FanLoan: a note is open while its mode is remembered *)
(* and release_all has not dealt with its position yet.                     *)
Owed == [s \in Slots |->
          IF job = "release" /\ s \notin toRestore THEN None ELSE original[s]]

Phase == IF ~up THEN "stopped" ELSE IF job = "release" THEN "settling" ELSE "serving"

Loan == INSTANCE FanLoan WITH Headers <- PwmFans, phase <- Phase, owed <- Owed

(* Control of a header is borrowed, noted before it is taken, and settled   *)
(* before the service stops (hwmon_pwm.py, lifespan).                       *)
ImplementsLoan == Loan!Spec

(* A shutdown that has begun ends, however many writes are refused. *)
ShutdownCompletes == job = "release" ~> ~up

=============================================================================
