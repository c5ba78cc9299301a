# Brisa in TLA+

Brisa is a fan control service: one Python process that reads temperature
sensors, decides a speed for every configured fan and writes it to the
motherboard (`hwmon-pwm`) or to a USB controller (`liquidctl`); a web interface
edits its configuration. This directory holds TLA+ specifications of it, TLC
configurations that check them on small instances, and proofs that TLAPS checks.
`PROJECT.json` lists components, runs, hazards, theorems and, definition by
definition, the source lines a specification stands for.

Paths below are relative to `src/brisa/app/`.

## 1. Inventory

| Component | State | Operations | Talks to |
|---|---|---|---|
| fan policy (`controller.py`) | none | `interpolate`, choice of percent in `run_once`, conversion in `hwmon_pwm.set_fan_speed` | called by the controller |
| controller loop (`controller.py`, lifespan in `main.py`) | `_last_applied`, `_pwm_taken_over`, next prune time | `loop`, `run_once`, shutdown | both back ends, sensors, configuration, history |
| hwmon-pwm back end (`hwmon_pwm.py`) | `_original_enable`; `pwmN`, `pwmN_enable` in sysfs | `takeover`, `set_fan_speed`, `release_all`, detection | kernel |
| liquidctl back end (`liquidctl_wrapper.py`) | none (the device has its own) | `initialize`, `set_fan_speed`, status | the `liquidctl` command |
| virtual sensors (`controller.py`) | none | `resolve_virtual_sensors` | sensors, configuration |
| configuration (`config.py`, `models.py`, `api/routes.py`) | `config.json`, its temporary file, `main._config` | load, save, validate, migrate, GET and POST | everything reads it |
| drive identifiers (`sensor_ids.py`, `config.py`, `database.py`) | none | canonical form, migration of legacy forms | configuration, history |
| sensor detection (`sensors.py`) | caches of smartctl and drivetemp | three sources, deduplication | kernel, `smartctl` |
| history (`database.py`) | SQLite tables | write a cycle, query, prune, migrate | controller, API |
| authentication (`auth.py`, `api/auth_routes.py`) | password hash, sessions, failures per address, verification windows | login, logout, attach a session, refuse | every request |
| pages (`static/*.html`, `app.js`) | a copy of the configuration, edits, a dirty flag | load, edit, save, discard | API |
| state, devices, metrics (`api/routes.py`, `main.py`) | none | read only | all of the above |

How they interact. Everything but the password check runs on one asyncio event
loop. No handler of the controller or the configuration awaits between its
first and its last write, so handlers do not interleave with each other; they
do interleave with the kernel (drivers come and go, modes are reset), with
crashes, and with pages that hold an old copy of the configuration.

What is hard, and what correctness means, by component:

- *Controller and back ends.* Commands fail one by one; exceptions that are not
  `RuntimeError` end a cycle half way; headers move between sysfs positions; the
  process is killed at any moment. A healthy fan must get its speed whatever the
  others do; a header's mode must be remembered before it is changed, and given
  back; what `/api/state` reports must be what the hardware was given.
- *Curves.* Unsorted or doubled points reach the controller through a
  hand-edited file; rounding and steps at segment ends. The speed must stay
  within the curve, rise with the temperature, and follow the drawn line.
- *Virtual sensors.* Sources disappear one at a time.
- *Configuration.* A save can fail or be cut off at every system call; an
  answered change must survive restarts; memory and file must agree.
- *Pages.* Requests and answers are delayed, reordered and lost while the user
  goes on editing; whole documents are posted, so stale copies overwrite.
- *Authentication.* A login waits twice, and what it knew may be stale afterwards; the
  waiter of a running check can be cancelled; the table of failures is full. A block
  must last exactly as long as the rule says, and no check run beside another.
  A session serves exactly the requests that belong to it, although requests of one
  browser overtake each other while it logs in and out.
- *Drive identifiers.* One drive had several names in older versions; each reference in
  the configuration and each row of the history must end up under the one name, and
  none under another drive's.
- *History.* A failure or a kill at any statement must leave whole cycles, and old rows
  must go although prunings fail and clocks are set.
- *Detection.* Directories are renumbered in the middle of a scan, two back ends see the
  same disk, `smartctl` hangs or is missing; every reading must stay with its device.

## 2. Modules

| Module | Models | Extends or instantiates |
|---|---|---|
| `FanPolicy` | what speed a fan should have, as operators | |
| `VirtualSensors` | `resolve_virtual_sensors`, the merged sensor map | `FanPolicy` |
| `CurveEditor` | the points table of `curves.html`, the curve rules of `validate_config`, a hand-edited file, and the policy on the resulting curve | `VirtualSensors` |
| `FanControl` | controller, back ends, lifespan, and the host around them | `FanPolicy`, instance of `FanLoan` |
| `FanLoan` | abstract: control of a header is borrowed and settled | |
| `ConfigStore` | `config.json` and the copy in memory | instance of `ConfigRegister` |
| `ConfigRegister` | abstract: a register written in one step that survives restarts | |
| `ConfigPages` | `curves.html` and `fanconfig.html` over one service | |
| `LoginGate` | `POST /api/auth/login`: effective client, rate limiter, password verifier, login handler | |
| `Sessions` | session store, middleware, the other handlers of `auth_routes.py`, browsers with their cookies | |
| `SensorIds` | the identifiers of drives and the legacy forms of them | |
| `ConfigMigration` | documents with references to drives, and what loading makes of them | `ConfigStore`, `SensorIds` |
| `History` | the database: start-up, cycle, pruning, query | `SensorIds` |
| `Dashboard` | what `GET /api/state` makes of readings and configuration, as operators | `VirtualSensors` |
| `DeviceScan` | `detect_sensors`, header detection and resolution, on a changing host | `Dashboard`, `SensorIds` |
| `MC...` | constants of the TLC instances | |
| `...Proofs` | theorems; `FanControlProofs` also has those about `FanLoan` | |

How they compose. `FanPolicy` and `VirtualSensors` are the operators that `FanControl`,
`CurveEditor` and `Dashboard` share. `ConfigMigration` is `ConfigStore` with real
documents; it is what the run `config_store` checks. `DeviceScan` answers a request for the
state with `Dashboard` on top of the scan it has just finished. `History` uses the same
`SensorIds` as `ConfigMigration`, as database and configuration do. `FanControl` abstracts
from the scan (any reading) and from the database (a cycle ends silently), `Sessions` from
the password check (a login succeeds or fails after any time), which are the subjects
of `DeviceScan`, `History` and `LoginGate`.

**FanControl.** `slot`, `mode` and `duty` are the host: where the kernel lists a
header, what its `pwmN_enable` holds, and the last value written to a fan.
`takenOver`, `original` and `lastApplied` are the three module-level dictionaries
of the code; `loop` is the state of the controller task and `job` what the event
loop is running. A job walks `config.fans` with `pos`; every system call that
changes something is a step of its own (`TakeOver`, `WriteSpeed`, `Restore`),
because a kill (`Crash`) or a driver (`Unplug`, `Plug`, `FirmwareReset`) can come
between two of them. Everything a step does without a system call belongs to
that step: the bookkeeping of `_last_applied` is part of `WriteSpeed`, the cached
answer of `_ensure_pwm_takeover` is the guard of `NeedsTakeover`. The three
outcomes of a command are success, `RuntimeError` (`NextFanAfterFailure`) and any
other exception (`AbandonJob`). `config` is one variable: `loop` fetches it at
the start of a cycle and no handler can replace it before the cycle ends, and
`ConfigStore` shows that the store behaves as a register. The readings of a
cycle (`temps`) are chosen freely when it begins; they stand for the merged map
of `VirtualSensors.SensorMap`, and `None` for a scan that has raised
(`ScanFails`: the cycle ends before its first fan). What the hardware gets of a percent
is `HardwareValue`, which clamps as the code does: an override of 150 is reported as 150 while
the hardware has 100, and `ReportMatchesHardware` takes these for equal. `before`, `undisturbed` and `faulted` are history
variables that the properties need and no action reads. An identifier of a header means
one position at a time (`slot`), which supposes that no two chips of one platform device
have the same `pwmN` (see the list at the end of part 3).

**FanPolicy and VirtualSensors.** Python's `round` on a float quotient is
round-half-even on the exact quotient. The two differ only where a float
quotient is not exact *and* the exact value lies within one unit in the last
place of a tie; no property here distinguishes these. The percent-to-register
conversion is modelled as it is computed, with its clamp. Temperatures are
integers of one fixed unit. The mean of a virtual sensor is an integer division:
readings in the instances are chosen so that it is exact.

**ConfigStore.** `saving` and `step` walk through `save_config`: temporary file,
replace, then the return to the caller (`Install`), which sets `main._config` and
answers. `Fail` is an `OSError` at either call, `Stop` a kill or stop at any
moment. `Start` is `load_config` with its three ways: no file, a document that
migration changes and so is written back, one that is used as it is. A damaged
file stops the start. Documents are model values; migration and the back-end
correction are functions on them, assumed idempotent as the code is. Not
modelled: loss of power (nothing is synced, so a completed rename may be lost by
the file system) and hand edits while the service runs (they are overwritten by
the next save).

**ConfigPages.** Each page keeps its own copy; `requests` are the POSTs under way,
with the document as it was when sent, and the answer once there is one. `Handle`
is the service (`ConfigStore` collapsed to one step), `Lose` a lost request or
answer. After an error `fanconfig.html` fetches the configuration again
(`FansAnswered`, `FansReloaded`); serving that GET and sending it are one step,
since nothing the page does in between depends on it. Reloading a page leaves its
requests under way (`Closed`). Of a fan entry only the curve is kept.
`modal` is the list of curves that the dialog of `fanconfig.html` was filled with. The dialog
stays open after an error while the page replaces its document, so `SaveEntry` can name a curve that
the document no longer has, and may put its entry in another one's place. What it then posts
has a dangling reference, and `validate_config` refuses it. Two entries of one fan, and
an index behind the end of the list, are refused as well and appear in the model as a lost request.
The dialog does not keep the rest of the page from being used, so `DeleteEntry` is possible under it.
The service starts from any document, also a hand-edited one with dangling references, and
runs through. `unresolved` is a history variable: the references that were dangling when the curves
page was loaded. `CurvesPageBreaksNothing` says that this page adds none to them.

**CurveEditor.** The page's table, Save and Discard, then the stored curve judged at
every readable temperature. A refused save leaves everything as it was and is
the guard of `Save`; `EditFile` is a restart on a hand-edited file, which
`load_config` does not check against the curve rules. Properties judge the stored
curve while the page is clean, as it is right after every change of it, which
keeps the state space small and loses nothing.

**LoginGate.** A login runs alone except where it waits: for its body (`phase =
"body"`) and for the Argon2 check (`"verify"`). `records` is the rate limiter's table,
`starts` and `busy` are the verifier's, `executor` lists the checks handed to the
thread with the request that waits for each, `None` once that one is cancelled.
When the thread is done, `release` frees the slot at once and the waiter is woken
for later, so other logins can run in between; since wake-ups are served in their
order, it has run before the next check is done (the guard of `Done`). Every
operation that looks at a record also cleans it (`Checked`), and `Failed` makes
room when the table is full. `ready` is the state READY of `AuthManager`, lost for
good when a check raises. `counted` and `begun` are history variables: the failures
counted since the last success and the checks begun in the last window; the
properties compare the program's bookkeeping with rules over these. A wrong user name is checked against
a dummy hash and is a mismatch like any other. `EffectiveClient` is the walk over
`X-Forwarded-For`: a login comes from a sender through a path of trusted proxies, each
of which appends whom it has it from, behind whatever the sender wrote there itself.
`sender` is a history field that no action reads. Addresses are names; networks are the
set `Proxies`.

**Sessions.** A token is the number of its session, so the order of the store is the order
of numbers. A request takes the browser's cookie of the time it is sent and, when it
writes, the CSRF token its page has learnt. The middleware decides in one step
(`Refuse`, `Admit`, `TurnAway`, `AttachLogin`, ...); what then waits for a body, a thread
or the password check is `"inside"` and may be overtaken. `Answer` sends the new cookie
with the response and `Deliver` brings it in, in any order. `Me` and `Logout` do not wait
between middleware and handler, so they are one step. `mode` is the state of
`AuthManager`; `Restart` is a new process, whose configuration may disable
authentication or leave it out of order. `ended` is a history variable. `OnlyLiveSessionsServe` is about
the moment of admission: a request that is inside is served to its end although its session
ends meanwhile, as in the code.

**SensorIds and ConfigMigration.** A WWID or serial is a name and its capitals; some names
are ambiguous in the old spelling (they hold an underscore), and an old identifier may
have a slash in the model name. `Migrated` is `migrate_legacy_drive_sensor_id`.
A document keeps what refers to sensors: aliases, one virtual sensor, one group, one
fan (`IsDocument`). Card colours are migrated by the same function as aliases. `StartKeepsReferences`
compares what a start has loaded with the file, by the meaning of the identifiers; a current
identifier in capitals, which only a hand-edited file can have, means what it says.

**History.** Every SQL statement is a step; `tx` is what the open transaction sees and
`db` what is committed. `CycleFails` and `Crash` are possible between any two steps. Rows carry the
time of day (`wall`), pruning follows the monotonic clock (`mono`), and the two part when
the time is set (`SetClock`). Pruning is due once an hour, as the code, `CHANGELOG.md` and the tests
say, though not `ARCHITECTURE.md` (end of part 3). The retention changes between cycles (`SetDays`), since no
await is inside of one. `was` in a row, `written`, `horizon`, `steady` and `fresh` are
history variables. A day is one tick.

**Dashboard and DeviceScan.** `bound` is sysfs: which device is behind `hwmonN`. A scan takes
one disk or one directory at a time (`MapDisk`, `ReadHwmon`, then one action for each
way `smartctl` can end), and drivers bind and unbind between the steps. Each of the directories a
scan goes by may fail to be listed: `/sys/class/block` when the map is built
(`BlocksUnreadable`, the map stays empty) and when `smartctl` is to be asked (`DisksUnreadable`, no
disk is), `/sys/class/hwmon` (`HwmonUnreadable`, the scan ends there), and the
directory below a disk (`MapFails`; in the last part such a disk is asked although
it has a driver). A `hwmonN` directory that cannot be listed gives no temperature (`silent`).
`found` is the list of sensors in the order of the code, `smartctl` its memory of the program.
`picked` is a fan taken from `GET /api/devices`, kept with the header it had then. `spoilt` is a
history variable: the disks that a scan may rightly lack. The
assumptions say what the code relies on and TLC evaluates: a device has one hwmon directory of a
driver when the process starts (`OneDirectoryEach`); no drive has the identifier of a virtual sensor
(`DrivesAreNotVirtual`); every device has a
temperature of its own (`OwnTemperature`, which only lets the model tell readings apart);
and a drivetemp disk without identity in sysfs has none in `smartctl` either
(`BackendsAgree`: without it one disk has two identifiers, one per back end).
Nothing is assumed of the identifiers of fans: they may be those of sensors, which `validate_config`
does not forbid, and two hwmon devices of one platform device may have the same
`pwmN`. The run `device_scan` has a configuration of the first kind on a host of the second. What `get_state` makes of a shared identifier is in `CardsAreComplete`: its set `seen` goes on from
the sensors to the fans, so that such a fan is on the card of the sensor alone. `FanIdMeansHeader` says where a shared fan
identifier leads: to either header that has it, never elsewhere.

## 3. Runs

| Run | Shows | Instance |
|---|---|---|
| `speeds` | every healthy fan of a cycle gets its speed; reports match the hardware | one header, one USB fan, two positions, two temperatures, an override of 150 %, a wrong back end, a curve without points, all outcomes of a command |
| `control` | modes are saved first, restored last, never written over; `FanControl` implements `FanLoan` | two headers, two positions, configurations with both, one and none |
| `liveness` | a posted configuration reaches the last fan; a shutdown ends | as `speeds`, with two accepted configurations, scans that raise, `liquidctl` executable |
| `curve_editor` | five properties of curves and virtual sensors | up to three points, temperatures up to 50 for added points, five readings, two sensors |
| `config_store` | durability, canonical identifiers, refinement of `ConfigRegister`, every reference kept by a start | documents with current, legacy, ambiguous and collapsing references, a refused one |
| `config_pages` | the curves page makes no dangling reference, and its saves take no fan its curve | two curves, one fan, a request of each page under way; 1.6 million states |
| `login_gate` | blocks, starts and the slot are exactly what the rules say; failures count against their sender | two senders and a proxy, up to two hops, room for one record, two logins, two failures in 2 ticks block for 3, two starts in 2 ticks, four ticks |
| `sessions` | the store holds exactly the live sessions, only they serve, a changed cookie ends the old one | one browser, two requests under way, three logins, room for two sessions, lifetime 2, three ticks; 2.7 million states |
| `history` | whole cycles, retention, rows that follow their drive | three old identifiers of one drive and of an unclear one, three cycles, a retention of one or two days, pruning every tick, three ticks, the time set forth and back by one |
| `device_scan` | readings, listing, fan headers and dashboard cards on a changing host; a slow disk returns | two disks (WWID, serial), two hwmon devices behind one adapter, both with a `pwm1`, three `hwmonN`, three dashboards; 549 thousand states |
| `firmware`, `badge` | documented statements that the code does not keep, see below | |

Why these bounds suffice. Two headers are enough for one to take another's
position, two positions for a header to move; a third header adds only another
copy of either. A cycle treats its fans one after another, so two fans give
every pair of a failing and a later healthy one. A curve of three points has an
inner point, hence two segments that meet, and (through the files) reversed,
doubled and missing ones; the scan looks at neighbours only. Two requests are
enough for an answer to be overtaken, and two names for a rename to reuse one.
`config_pages` has one request of each page, which is how they get in each other's way.
Two saves of the curves page under way at once are in `badge`, and in the theorems about
`ConfigPages`, which hold for any numbers of requests, fans and curves.
In `config_pages` all drawn points are acceptable: a refused document only
produces an error answer, which `Lose` produces too; `badge`
includes unacceptable points. In `login_gate` the clock runs long enough for a block to
be earned, to end and to be earned again, and a failure window is shorter than a
block, as in the code; with room for one record, every second client needs another
one's place; with one proxy and headers of two hops a made-up entry can stand left of the
real one, be of no use, or make the list too long. In `sessions` every login beyond the
second evicts one, and to the server a browser that has lost its cookie is as good as
another one. In `history` a cycle can be written, expire and be pruned, with each of
these failing first. In `device_scan` one directory can be freed and taken by another
device within a scan, which is what renumbering is; a third disk would add another copy.

**Fairness** (run `liveness`). Weak fairness of `JobStep`: a handler that has begun
runs on, since nothing else can run on the loop. Strong fairness of `LoopWake`:
asyncio's ready queue is first-in first-out, so a timer that is due is served
although API requests keep arriving, and between two of them no job is running.
Nothing is assumed of users, of the kernel or of crashes. The task can die during
start-up when `liquidctl` cannot be executed (`loop = "dead"`): then no
configuration takes effect by itself, so this run assumes that it can. A scan that raises ends its
cycle before the first fan (`smartctl` is installed but cannot be executed), so while every scan
raises no configuration reaches a fan: `ConfigTakesEffect` supposes that this stops
for good at some time, and that the cycles that were lost until then have left nothing behind.
The run `device_scan` assumes weak fairness of `ScanStep`: the loop and the pages ask again and
again, and every call of `smartctl` ends, by its limit of 10 seconds if need be. That a
slow disk is listed again (`SlowDisksReturn`) supposes that `smartctl` itself stays, since
its absence is remembered for the life of the process, that drivers and the disk settle, and that
directories do not go on failing to be listed.
Deadlock is checked in every run.

Type invariants are checked by the runs `control`, `sessions`, `history` and `device_scan`; those of
`CurveEditor` and `ConfigPages` are proved and not run.

**Deviations found.**

1. `firmware`: after a kill, `pwmN_enable` is `1`; the next process takes the header over, saves
   `1` as the original (`hwmon_pwm.py:215`), and its graceful shutdown writes that back.
   README and ARCHITECTURE promise the firmware mode for fans that were taken over.
2. `badge`: an edit made while a save is under way loses its "unsaved changes"
   badge (`curves.html:454`).

Seen while modelling, without a run of their own:

- `ARCHITECTURE.md` (lines 236 and 486) says that each iteration of the loop prunes old rows.
  The code prunes when an hour has passed (`controller.py:139`), as `CHANGELOG.md:7` and a test
  say; a cycle in between keeps rows that have become too old. `OldRowsGo` states the schedule
  of the code.
- `ARCHITECTURE.md:276` says that duplicate observations of a drive use one identifier. A disk
  that drivetemp reads while its directory is not in the map (a driver that binds after the map was
  built, or a listing that failed) gets the name of its `hwmonN` (`sensors.py:318`), and when
  `smartctl` reads it too it is listed twice, since only equal identifiers that begin with
  `drive-` are merged. A disk without WWID and serial is listed twice likewise. What the
  merging does achieve is `IdentifiersAreListedOnce`.
- Two chips behind one adapter (`i2c_designware.0`) have the same `driver.N` in their paths, so
  their fans of one number share an identifier, which leads to whichever header the directory listing
  names first (`hwmon_pwm.py:184`), also one that may not be written. `ARCHITECTURE.md:300`
  has the identifier derived from the device's physical address. `FanIdMeansHeader` says what remains true.
- A comment in `get_state` (`api/routes.py:132`) says that ungrouped fans are listed; one whose
  identifier is a sensor's, in a document written by hand or by a program, is not, since the two
  loops share the set `seen` (`api/routes.py:142`). `CardsAreComplete` says what remains true.
- `_ensure_pwm_takeover` answers from its cache although a driver reload or another tool
  has put the header back in firmware mode (`controller.py:90`). This is why
  `ControlledMeansManual` and `SpeedOnlyInManual` are about undisturbed headers.
- POST accepts a `hwmon-pwm` fan under the `liquidctl` back end, which `load_config` says must
  not be and corrects at the next start (`config.py:138`).
- "Delete blocked if curve is assigned to any fan config" holds for the page's own copy,
  which may be older than the assignment (`curves.html:385`). `CurvesKeepAssignments` says
  what remains true.
- A migrated virtual sensor whose two sources were two names of one drive is left with one
  source; `load_config` accepts it, the next POST of the document is refused
  (`config.py:202`).
- `smartctl` that is installed but cannot be executed raises an error that no part of the scan
  catches, so that no sensor at all is read (`sensors.py:110`; `ScanRaises`, and `ScanFails` in `FanControl`).
- The answer of a request that was sent with an older cookie and refused clears the
  browser's newer cookie; the session it belonged to lives on until it expires or
  is evicted. `CookieChangeEndsSession` is about the session of the request's own cookie.

## 4. Proofs

| Module | Theorems |
|---|---|
| `FanControlProofs` | `TypeCorrect`, `SavedModeTheorem`, `ControlledTheorem`, `ReleaseTheorem`, `ReportTheorem`, `SpeedOnlyInManualTheorem`, `PolicyTheorem`; `LoanRefinement`: `FanControl` implements `FanLoan` |
| `CurveEditorProofs` | about the policy: the scan of `interpolate` finds a segment of positive width between the end temperatures, in whatever order the points are (`ScanFindsProperSegment`); the result is an integer (`InterpolateType`) within the speeds of the points (`InterpolateStaysWithin`); on points in order it does not fall when the speeds do not (`InterpolateIsMonotone`) and meets each point (`InterpolateMeetsPoints`); register values fit (`PwmValueRange`). About the stored curve: `TypeCorrect`, `WithinCurveTheorem`, `AcceptedInvariant`, `MonotoneTheorem`, `NeighboursTheorem`, `PointsTheorem`, `VirtualTheorem` |
| `ConfigStoreProofs` | `StoreInvariant`, `DurableTheorem`, `CanonicalTheorem`, `RegisterRefinement`, `ReferencesTheorem` |
| `ConfigPagesProofs` | `PagesInvariant`, `TypeCorrect`, `ReferencesTheorem`, `AssignmentTheorem` |
| `LoginGateProofs` | `TypeCorrect`; `SlotTheorem`: one password check at a time, and the slot is never lost; `SenderTheorem`: failures count against their sender, for any proxies and headers; `StartsTheorem`, `BlockTheorem`: the limits, for any numbers and windows |
| `SessionsProofs` | `SessionsInvariant`, `TypeCorrect`, `StoreTheorem`, `CookieTheorem`, `ServingTheorem` |
| `HistoryProofs` | `HistoryInvariant`, `TypeCorrect`, `FollowsDrive`, `WholeCycles`, `PruningTheorem` |
| `DeviceScanProofs` | `TypeCorrect`, `ListedTheorem`, `ReadingsTheorem`, `OnceTheorem`, `CardsTheorem` |

*Control of a header.* `SavedModeIsOriginal` is not inductive: that a restored mode
is the original one needs that only remembered positions are restored, that two
headers never share a position, and that a process starts with nothing
remembered. `ControlInv` states these beside the four properties, `IInv` adds the
types, and `FanControlProofs` has one lemma for each of `Init`, the actions and
stuttering. The report theorem additionally needs that the initial speeds, which
are not recorded, are set while nothing is recorded yet. `SpeedOnlyInManual` and
the refinement follow from `IInv` step by step: a `TakeOver` is a `Borrow`, a
`Restore` a `GiveBack`, everything else a stutter or a move of the host.

`PolicyTheorem` adds `CycleInv`: the position in the list never runs past its end, so every step of
a cycle extends the passed fans by the one it has just treated and leaves the others.

*Curves.* The scan argument uses the least index, above the first, whose point is
not below the temperature: its predecessor is below, so a segment with positive
width exists; the first index the scan finds has the same form. A rounded
quotient between two integers stays between them (`RoundStaysBetween`), so the
chord stays between its ends. Monotony splits by the segments of the two temperatures: in
one segment the numerators of the two quotients are in order and rounding keeps the
order; in two, the end of the left lies below the beginning of the right. That an
accepted curve is in order is the invariant `IInv` of `CurveEditor`, which `Save` keeps
because it is the rule of `validate_config`. `FanControlProofs` has its own copies of the lemmas
about the policy it needs: names of `FanControl` and `CurveEditor` clash in one module.

*Virtual sensors.* The mean of a set of readings lies between its extremes because the sum over the
set lies between size times the least and size times the greatest (`SumBounds`). The rest is
`InterpolateIsMonotone` on the curve that `AcceptedInvariant` says is in order.

*Store.* The invariant says what each step of a save may rely on: before the
replace the temporary file holds the document, after it the file does.

*Migration.* `MigratedListHolds` says of every prefix of a list that what has been kept of it has
the meanings of the first mentions, in their order. It rests on `MeaningIsMigrated`: two identifiers
mean the same exactly if they migrate to the same, for the identifiers that are still clear
as well as for those that are left alone. `ReferencesTheorem` needs no invariant beside the
guard of `Start`: it is about what that one step makes of any file.

*Pages.* `IInv` of `ConfigPages` says of the curves page's working and saved copy and of whatever it
has sent that no more references dangle than when the page was loaded, and that they
have entries for the same fans (`SameAssignments`): only then can a rename in it not lose one.
Nothing is said of the fan page, whose documents may have dangling references.

*Logins.* That the slot belongs to a running check is inductive with the types of slot and
executor. That a login counts against its sender needs the walk from the right: everything
right of the sender's own entry was appended by proxies, all of them trusted, and the
sender is none, so the walk ends there (`WalkEndsAtSender`); the invariant `SenderInv` carries
it through the waits.

The two limits compare lists of times that the code trims when it looks at them with lists kept
for the properties: the failures since the last success, and the checks begun within the window of
now. `Keeps` says that one list is a suffix of another and that what it lacks is older than the
window; it survives appending, trimming and the clock. With it `StartsInv` bounds the checks
begun by the starts that the verifier remembers. `BlockInv` is harder, since a record may be cleaned away and
begun anew while the failures go on being counted: `Known` says that what a record remembers is what
the failures of the client say, and that a client without a record, or with an expired one,
has no burst of failures (`Burst`) that still blocks it.

*Sessions.* `StoreInv` ties the store to the numbers issued: a live session is in it, or
MaxSessions later ones have been issued. `GoodRequest` says what a waiting request and an
answer under way may rely on: a login waits with the session of its own cookie or with
none, and an answer that changes the cookie was sent after that session had ended.

*History.* `FiledInv` says that rows keep the meaning they were recorded with and are canonical
outside of the migration; `WrittenInv` that of a committed cycle all rows are there or all were
old; `CommittingInv` what the open transaction holds at each step. `PruningInv` bounds the
age of rows by the next time of pruning, under the offset of the two clocks.

*Devices.* `ScanInv` has the types, that a device is bound to one directory at most, that an entry of
the drivetemp map was made for the device whose path it has, that each sensor found is one that some
device can give (`Sensors`), and for each disk that was left alone how far the scan has got
with it (`Accounted`; a failed listing leaves alone the disks that do not depend on it): mapped, then listed from its directory, or else still to be asked by
`smartctl`. `BasisStep` proves the conjuncts about the lists, `AccountStep` the last one, each
action by action. `DeduplicatedHolds` describes the fold of the last step over any list: no
identifier of a drive twice, none lost, the better back end kept. The cards need that the k-th
of a set of indices exists for every k up to its size (`PlaceOfRank`), so that a chosen
sublist has every chosen entry once.

*Folds and sums.* The induction theorems of the library cannot be used (they take an operator as
a parameter), so what `FoldLeft`, `MapThenSumSet` or a cardinality gives is proved by a least counterexample:
of the lengths or sizes for which a claim about this particular fold fails there would be a least one,
and the one before it leads to a contradiction. `MergeExists`, `MentionExists` and `SumExists` begin this way: they show
first that the function that the fold `CHOOSE`s does exist.

The assumptions are those of the modules (`ASSUME`, each named), which TLC
evaluates on the instances: fans, positions, logins and tokens are distinct from their
sentinels, configurations are well typed, migration is idempotent and leaves the
defaults alone, paths consist of proxies, limits are positive. `MigrationAssumption` says that the
functions on documents that `ConfigStore` leaves open are those of `ConfigMigration`, and
`OneDirectoryEach`, `BackendsAgree` and `DrivesAreNotVirtual` are explained above.

Checked by TLC only: the liveness properties `ConfigTakesEffect`, `ShutdownCompletes` and
`SlowDisksReturn`, which rest on fairness, hence on `ENABLED`, which is beyond the prover; and
`FanIdMeansHeader`, which follows a stored identifier through the changes of one host. Every other
property of the passing runs has a theorem.

## 5. Not modelled, and why

- Drawing, formatting, labels and logging; the output parsers of `liquidctl` and `smartctl`: what
  they yield is an input of the models, and no state depends on their details.
- The text of `GET /api/metrics`: it renders, line by line, what `Dashboard` already has.
- `parse_auth_settings` and the reading of the password hash: they run once, before anything
  else, and decide which of the states of `AuthManager` the process starts in;
  `Restart` of `Sessions` starts it in each of them.
- The checks of Host and Origin and the encoding of cookies: each is a function of one
  request, covered by the tests of the repository; their outcome is one of the refusals
  of `Sessions` and `LoginGate`.
- The devices, settings, history and dashboard pages: they post whole documents like the two
  pages of `ConfigPages`, in other fields, or only display.
- Loss of power during a save, and several processes on one configuration directory.
- Packaging.
