# Verification of minyad-core

TLA+ models of minyad-core, the TLC runs that check them on small instances and
the TLAPS proofs of what holds for every instance. Paths are relative to the
repository. `PROJECT.json` lists the components, the runs, the source lines each
definition stands for, the hazards and the theorems.

    tlc -workers 2 -config MCTimers.cfg MCTimers             # one run
    tlapm Hysteresis_proofs.tla                              # the proofs

## 1. The system

minyad-core steers a home battery by the meter's net power. Its processes talk
through one MQTT broker and share one PostgreSQL database.

    DSMR meter -> dsmr_bridge --\                    /--> goodwe_bridge -> inverter
    panels -> enphase_bridge ----> MQTT -> control -/         (Modbus, SEMS API)
    forecast ------------------/     \-> minyad-strategy (v2), ingestion, api
                         PostgreSQL: settings, overrides, plans, telemetry

| Component | State it keeps | What is hard | What makes it correct | Modules |
|---|---|---|---|---|
| `control/hysteresis.py` | state, four timers, cooling direction, override | any mixture of samples, overrides and time | starts are sustained, cooldowns kept, timers agree with the state, lasting surplus is followed | `HysteresisFsm`, `Hysteresis` |
| `control/main.py` | controller, SoC, last samples, bridge status and heartbeat, setpoint, last published limits | handlers suspended in the database, callbacks that run after the code that caused them, a replaced controller | published limits belong to the state or override that withdraws them, SoC limits are respected and enforced, an outage stops the controller | `ControlApp` |
| `minyad/strategy/v2/service.py` | plan, executor state, last decision, guard, floor schedule, override | a tick awaits the database while inputs and overrides arrive; failure after publication; restart | the setpoint on the wire is the last decision and one that the guard allows | `StrategyService`, `SetpointPromise` |
| `.../v2/executor.py`, `soc_guard.py`, `floor_schedule.py`, `planner.py`, `consumption_profile.py` | ramp, export block, latch, schedule | order of masks, jitter, clamps that cross | the floor of a night only falls, an export never deepens | `StrategyExecutor`, `SoCGuard`, `FloorSchedule`, `DayPlanner` |
| `.../v2/override.py`, `api/routers/battery.py` | an override in three copies: row, strategy, controller | commit and publish are two steps, lost messages, restarts, expiry | the copies agree once nothing is on its way; settings stay in order | `Overrides`, `OverrideDesk` |
| `minyad/strategy/charge_controller.py` (v1) | mode, ramp, last command | decide now, apply later, expiry, debounce, acknowledgement | no command breaks the limits of its decision, an override ends (it does not, see 3) | `ChargeController` |
| `host-services/goodwe_bridge.py`, `backends/` | targets, last write, last API command, status, heartbeat | targets read before awaits, rate limits, two write paths, locks; polls that race | the inverter ends with the last command; a live bridge looks alive | `GoodWeBridge`, `BridgeReports` |
| `host-services/dsmr_bridge.py` | readings, connections, status | status computed under the lock and published outside it | a loss is told in the end | `DsmrBridge` |
| `host-services/enphase_bridge.py`, `enphase_token_refresh.py` | back-off, last production, status; token and its file | two loops and one status topic; a renewal cut short | a shutdown ends and is told; the newest token is used | `EnphaseBridge`, `TokenRefresh` |
| `ingestion/` | readings collected | a task created outside the loop | every sample is processed (it is not, see 3) | `Ingestion` |
| `shared/mqtt_client.py` | topics written down, connection | subscription during connect | every subscription is in force after connect | `MqttClient` |
| `api/mqtt_handlers.py` | status cache | a one-shot client writes over what the network thread wrote | the cache shows what the broker retains | `StatusCache` |
| `api/routers/agent.py` | mailbox | concurrent replies and deletions | threads are whole | `AgentMailbox` |
| `api/routers/settings.py`, `health.py`, `state.py` | settings, log level | several rows in one transaction, effects before the commit | no deadlock, nothing out of its limits or form, broker and log level follow | `SettingsRoutes` |
| `api/routers/settings.py`, `.../v2/setpoint_log.py` | `setpoint_log` | rows appear behind newer ones | pages miss nothing | `ControlLog` |
| `api/payload_helpers.py`, `routers/dashboard.py`, `dryad.py` | caches, curves and their rolled up averages | two programs compute one thing, from rows that several pages store; answers overtake each other | they agree, an answer is recent | `EnergyViews`, `PlanViews`, `DryadViews` |
| `shared/db.py`, `forecast`, `reporting`, `deadman`, `monitoring`, frontends, migrations, scripts | none of interest | I/O only | - | - |

## 2. What is modelled

### `HysteresisFsm.tla` - the state machine as operators

One record `Fsm` for the fields of `HysteresisController` and one operator per
method: `Ticked` (`tick`), `Overridden`, `Cleared`, with `TickedIdle`,
`TickedActive`, `TickedCooldown`, `Bypassed`, `Reevaluated` for its parts and
`Entered` for `_transition`; `Forced` is what `control/main.py` does to the
private fields. The class holds its lock during a whole method, so a method is
one step. Two modules use these operators: `Hysteresis` alone and `ControlApp`
as one field of its object.

Time: the code keeps `monotonic()` instants and only compares `now - instant`
with a duration. The model keeps these distances, cut off at the duration they
are compared with, and `Aged` advances all of them by one unit. A unit may be
any length, so every duration of the configuration is a number of units.

### `Hysteresis.tla` - the controller and its clients

Samples, overrides, clears and the clock in every order. Three history
variables say what the properties need: for how long every *evaluated* sample
(`evaluated`) and every *reported* sample (`reported`) has asked for a
direction, and the time since a direction began to cool down (`rested`). A
fourth variable, `sampled`, says whether the meter reported within the current
unit of time; it keeps a sample that changes nothing else from being a
stuttering step, so that the weak fairness of `AnySample` says "the meter
reports" and not "the meter reports when that changes something".

### `ControlApp.tla` - the control service

`app` is the `ControlApp` object; `charge` and `discharge` are the limits last
published. `ready` is the ready queue of the asyncio loop and `waiting` the tasks
in a database call. A task is a tuple: the statement it goes on at, and the
locals it still needs. The model keeps the loop's order:

* a handler is atomic up to an `await` that suspends it: `asyncio.sleep(0)`
  (end of the queue) or a database call (`DatabaseAnswers`, any time later, or
  `DatabaseRaises`, which ends the task there);
* a callback of the controller goes through `run_coroutine_threadsafe`: it is
  scheduled, one turn later becomes a task (`CreateTask`), and `stop_charging`
  gives up one more turn before it stops anything;
* a message arrives as `_on_mqtt` hands it to the loop, at any point of the
  queue's life.

Every MQTT handler of `handle_message` is there whole: grid samples with guard,
adoption of an untracked discharge, tick, publication and slow balance; SoC and
power reports; overrides; reload; bridge status and heartbeat; the state loop's
stale-heartbeat branch. `STRATEGY_V2_PRIMARY` is false: the local state machine
decides.

Free choices where the data does not matter: whether `CONTROL_INTERVAL_SEC` has
passed since the last balance, whether an unchanged target is due for a refresh
and an ineffective one for a retry.

### `GoodWeBridge.tla` - the inverter bridge

`bridge` is the `GoodWeBridge` object, `modbus` the `ModbusBackend`, and
`inverter` the device: two limit registers (Modbus) and two forced percentages
(SEMS API). Every setpoint message starts a coroutine that reads both targets
and then works with what it read:

* up to its first `await` a coroutine is one step (`Setpoint`): it sets its
  target, clears the other one if its own is positive, and decides whether to
  skip the registers (`BridgeSkips`, and `BackendSkips` if the lock is free);
* both locks are `asyncio.Lock`s, first come, first served. `writes` is the
  queue of `ModbusBackend._write_lock` and `requests` that of
  `GoodWeBackend._request_lock`; the head holds the lock. `TakeLock` is the next
  one's look at what it finds then;
* the two register writes, the pause after them (`Settled`), the two requests of
  a command and the answer of a poll are steps of their own, and each write or
  request may fail before or after it reached the device;
* `_call_first_available` asks for methods the goodwe library does not have on
  this inverter family, so every command is two requests, charge first.

Ages count units of time up to the refresh interval. `torn` is history: whether
the last pair of writes or of requests was cut short, or is under way. `Faults`
says which things go wrong: writes, requests, restarts. Left out here: metrics,
`dry_run`; publications and polls are in `BridgeReports`, the log in `ControlLog`.

### `StrategyService.tla` - strategy v2

One action per MQTT topic, and a tick in as many actions as it has awaits:
`tick` holds what a tick has read and where it is (`expiring` and `cycled` while the
row of an override that ended is deleted, `logging` while the setpoint is
logged), `waiting` counts the ticks queued at `tick_lock`. `writes` are the writes of
an override's row outside a tick, `recalculation` the nightly one between its
two awaits, `reloading` the read of the settings. Everything else may happen in
these gaps; each ends with the database's answer or its error, and `Restart` is
always possible: it keeps the retained setpoint (`wire`), the row and the plans.

The pure parts are operators of their own modules, one per method:
`StrategyExecutor` (candidate of a sample, ramp, export block, jitter), `SoCGuard` (stop,
latch), `FloorSchedule` (the glide of the floor along a usual night's consumption),
`DayPlanner` (irradiation and prices to limits and windows), `Overrides` (what an override
makes of the candidate, when it ends). `SetpointPromise` is the abstract
specification: a strategy learns, or publishes a setpoint its knowledge allows.
`KeepsPromise` is the refinement, by `INSTANCE SetpointPromise WITH setpoint <- wire,
known <- Known`.

`ChargeController.tla` is the first strategy, which tests describe and no service
runs: a caller evaluates (`Evaluate`), later applies (`Apply`) and waits for the
acknowledgement or its timeout, while telemetry, overrides and the daily
recalculation arrive. `ActiveMode` is `get_active_mode`: the mode in memory while its time lasts, else
the stored one whatever its time.

### The bridges and clients

* `DsmrBridge.tla`: the network threads of the two clients, the status thread, which
  computes (`StatusDue`) and then publishes (`StatusTold`), and the main thread's
  three steps of a shutdown. The will is published when the bridge vanishes.
* `EnphaseBridge.tla`: `Poll` starts a request of one of two loops, its answer is one of
  `ProductionRead`, `InvertersRead`, `RequestFails` and `OtherwiseFails`; `LoopEnds`, `Left` and
  `Closed` are the shutdown.
* `TokenRefresh.tla`: the timed renewal, step by step (log in, fetch, write beside,
  replace, restart), which may be cut short at each, and the starts of the bridge.
* `BridgeReports.tla`: what the inverter bridge tells: its polls, the extra poll on a
  start of the control service, heartbeat, connection, the stored interval and
  how the listeners judge the heartbeat's age (`LooksAlive`).
* `MqttClient.tla`: `Register` and `Request` are the two halves of a subscription,
  `Accepted` and `Resubscribe` the callback of a connection; `HandlerRaises` ends the
  network thread (paho does not suppress what a callback raises).
* `Ingestion.tla`: the collection of a sample (`OnMessage`) up to the task that cannot be
  created (`Emit`). `meter` is what the meter said last, which the network thread no
  longer hears once it has ended; `sampled` is what the gauge of the last sample stands for.

### The API

* `OverrideDesk.tla`: requests as coroutines with the database in their middle
  (`SetBatteryOverride`, `CommitOverride`, ...), QoS 0 messages to two services that may
  lose them, and what these services do with an override and at a start.
* `StatusCache.tla`: the network thread's messages and the request that collects
  retained values with a client of its own and writes them over the cache.
* `SettingsRoutes.tla`: an update writes its rows one after the other in the
  order of the group's model, waits for rows others hold, may be refused half
  way, applies the log level before the commit, and for the trade group reads the
  settings back (`ReadBack`) and publishes them when the answer has come (`AnswerUpdate`), so
  that an older answer may be published after a newer one. `Null` is an explicit null,
  refused for a number and stored as a word in the place of a text (`Storable`).
* `ControlLog.tla`: two writers whose transactions begin and commit, one reader of
  pages or of windows of time.
* `AgentMailbox.tla`: one statement per request, with the foreign key's refusals.
* `EnergyViews.tla`, `PlanViews.tla`, `DryadViews.tla`: what the API computes, as operators with the
  code's names, next to the state that makes them interesting: the rows of the curves
  that the pages store and the rolled up average, the plans that replace each other
  while slots go by, the requests that race for the cache.
  In `EnergyViews` the pages (`GridStatus`, `BatteryStatus`, `HouseholdStatus`) store rows while telemetry and
  minutes go by, and `ComputeAutarky` goes through them minute by minute, taking the
  household's row for the load or, without one, what the other rows leave
  (`CurveLoad`). Its answer is the exact fraction. In `DryadViews` the hours of the penalty are weighted
  with what was imported in them.

Numbers in the views are integers, as the code's are after rounding; a share is a
fraction of integers, and the penalty is told in whole percents. Dryad rounds ages to
whole seconds, which an instant of the model is too long to tell: its bounds on an
age are half a second wider in the code.

## 3. The runs

Modules without common state are checked in one run, one *scene* per module: the
initial state chooses the scene, and only its actions move. The scenes of a
run share nothing, so that the reachable states are the sum of theirs and a
property says of its scene what it would say alone. A definition of the MC
module binds properties to scenes where several modules contribute.

| Run | Question | Instance | Result |
|---|---|---|---|
| `hysteresis` | `TypeOK`, `TimersMatchState`, `StartsAreSustained`, `NoRestartWhileResting`, `NoDirectReversal`, `SurplusIsFollowed`, `PauseEnds`, `CooldownEnds`; the meter bridge's `LossIsTold`; the solar bridge's `ShutdownEnds` | start after 2 units, stop after 1, cooldown 5, pauses of 1 and 2 units or endless, five samples below, at and between the thresholds; three meter fields, four seconds; two loops, four moments; 154 000 states | holds |
| `hysteresis_reported` | is a start sustained by the flow the meter *reported*? | same | violated |
| `control` | `TypeOK`, `RaisesRespectSoc`, `ControllerConsistent`, `OwnersAreKept` | two tasks, adoption, four overrides, settings that put 3 % at the floor or the ceiling, Fridays and other days, outages; one concern at a time, below; 890 000 states | holds |
| `drive` | control service: `LimitsAreEnforced`, `StaleBridgeStops`; GoodWe bridge: `BridgeTypeOK`, `CopiesAgree`, `RegistersAreOnePair`, `AcceptedCommandIsInForce`, `NeverForcedBothWays`, `CommandsFollowTargets` | scenes control, faults, polls, below; 466 000 states | holds |
| `control_reload` | does a reload stop what its new limits forbid? | two tasks | violated |
| `control_forced` | does an accepted forced discharge stand? | two tasks | violated |
| `goodwe_stop` | do two zero targets end the forced mode? | two coroutines and polls, the same watts, no faults | violated |
| `strategy` | `TypeOK`, `WireIsTheDecision`, `RowFollowsOverride`, `ScheduleIsForThePlan`, `ExportNeverDeepens`, the refinement `KeepsPromise`, `FloorGlides`, `ExemptionIsForOverrides` | scenes telemetry, overrides, reload, night; three instants around the recalculation, one waiting tick, one write, two or three rare events | holds |
| `field` | one property or two per scene, below | 13 scenes; 880 000 states | holds |
| `override_reload` | can the control service start with what is stored? | scene desk | violated |
| `ingestion_stops` | is what the meter says processed? | scene ingestion | violated |
| `override_expires` | does an override that is over stop governing? | scene controller | violated |

The properties of `field`: `LimitsAreObeyed` (controller),
`RegisteredIsSubscribed` (client), `OverridesAgree` (desk), `SettingsAreKept` (desk, settings),
`StatusesAreCurrent` (status, reports), `RecordsAreWhole` (mailbox, log), `TokenIsUsed`
(tokens), `HouseholdIsAccounted` (views), `ViewsAreRecent` (plans, dryad).

The run `control` meets one concern at a time (`OneConcern`): overrides (`pause` without an end
stands for `force_off` too, the same branch of `apply_override`); the state of charge, with the
settings and days that matter to it; or a bridge that goes, by word, by an old heartbeat or by
silence, which happens while the battery's power is unknown. Samples, reloads and time
come with each. The proofs know no such parting.

The scenes of `drive`: in `control` the service must get on, with messages that arrive between
complete handlers (`MaxTasks = 1`), SoC below and at the ceiling, online and offline, stale
heartbeats, three overrides and reloads in any mixture. In `faults` and `polls` the GoodWe bridge runs with
two coroutines, charge -100, 0 or 1000 W and discharge 0 or 100 W: first with all faults,
then with polls.

Bounds. `MaxTasks` bounds the tasks alive when a message arrives; the callbacks
and continuations a task leaves behind come on top, so with two a handler in a
database call meets a second handler with its callbacks and stops. `Fridays` is the
set of days that occur. Watts are 0 and 1 (a flow either passes its threshold
or not), so that a target is all or nothing; the arithmetic of targets is not
what the properties are about, except that a limit is never negative (`TypeOK`).
In `hysteresis` the cooldown is longer than the start duration, so that the
bypass (`_cooldown_bypass_transition`) fires before the cooldown is over, and
longer than a pause.

`OwnersAreKept` deserves a word: a published limit should belong to the state
or override that will withdraw it. `Orphaning` lists the steps of the code that
break this, each of them necessary for the property to hold (dropping one
makes TLC find it):

* a reload (the new controller is IDLE, the limit stays),
* an outage (`mark_bridge_unavailable` publishes nothing),
* clearing an override (`setpoint_w = 0`, nothing published),
* an adoption or a callback that publishes for a state that has ended,
* anything run while the bridge is not available (`stop_charging` then keeps quiet),
* an override whose command is within `MIN_TARGET_CHANGE_W` of both published
  limits: it is not sent, so a small limit of the other direction stays. The
  proof of `OnlyTheseOrphan` found this one (`SmallLimit`); with a change
  threshold of 1 W, as in the runs, there is no such limit.

In the GoodWe scenes the discharge of 100 W is below `MIN_TARGET_CHANGE_W` (150), so that
skipping the registers and overtaking a coroutine that waits for them both
happen; the battery power of 200 W is above the settling threshold; an
interval of 1 and a refresh of 2 units give each rate limit a fresh, an
intermediate and a due age. Two coroutines are one in the lock and one behind
it, or one in a request and one that decides meanwhile, which are the pairs the
code can confuse.

`CommandsFollowTargets` says that the last command under way (or accepted, when
none is) is the one the targets ask for, and stays so. `LosesCommand` lists the
steps that break it, each necessary like those of `Orphaning`:

* a coroutine that skips the registers sends its command ahead of an older one
  that still waits for them (`Overtakes`): the older command comes last,
* a command that equals the last accepted one is not sent although another is
  on its way (`ComparesTooEarly`),
* a request fails, or the bridge restarts.

Each lasts until the next changed target: an equal setpoint returns early
(`goodwe_bridge.py:460` and `:473`).

In `strategy` a day has four hours and the clock goes from the hour of the
recalculation (3) through midnight to 5, so that a tick, a recalculation, a
night and the next day's plan meet; two settings
differ in floor, discharge limit and grid target; the SoC is below, at or above
what matters. `MaxRare` bounds the events that need no repetition to do harm
(failures, restarts, reloads): two of them, three with overrides, are one fault
in the handling of another. Scenes keep, for example, a reload from multiplying
with every price table.

In `field`, the bounds are the fewest that let two actors meet with something
between them: two pending requests and two messages per queue (`desk`), two
publications in flight, two reconnections (`status`), three messages (`mailbox`), three rows
of two writers and pages of one or two (`log`), two requests over three keys (a text and a
number of the trade group, the log level) with a refused value, a null and an overlap (`settings`),
five telemetries that know both directions of the meter, the net power or nothing, one change of
them, two minutes and three samples in a bucket (`views`), two requests and
three instants with an import in some of them (`dryad`), three connections (`client`), three tokens (`tokens`), an interval that
grows, shrinks and exceeds a fixed limit (`reports`). In `views` the rows of one source and
minute are of one telemetry (`Alone`), so that the average the query takes of them is that
row, and the clock stays within the hour Dryad looks back. Clocks stop at their `Last*` bound, so
deadlock is not checked there.

### Disagreements between the code and what it says

Shown by a run:

* `control/hysteresis.py:111`: an override blocks the sample and not the start timer;
  the flow of a start need not be sustained (`ReportedFlowSustained`).
* `control/main.py:246`: a reload replaces the controller before the guard looks for an active
  state (`ReloadStopsForbidden`).
* `control/main.py:489`: the stop of the direction that `force_discharge` ends withdraws
  the forced discharge (`ForcedDischargeStands`).
* `host-services/goodwe_bridge.py:546`: a stop is compared with the last accepted
  command and not with the one being sent, so charge, then stop while the charge is
  under way, leaves the inverter charging (`StopStops`). A test
  (`tests/test_goodwe_bridge.py:639-648`) expects a zero target to stop.
* `minyad/strategy/v2/override.py:52`: the strategy takes the message `reload_settings`, which saving
  the battery settings publishes, for an override and stores it; the control
  service cannot start with that row (`ControlStarts`).
* `ingestion/main.py:146`: the task that stores a sample is created in a thread without an
  event loop; the thread ends after the first sample, while `docs/monitoring.md:30` and the alert
  in `prometheus/minyad-alerts.yml:24` expect samples to go on (`SamplesGoOn`).
* `minyad/strategy/charge_controller.py:238`: an override that is over is read back from its store without a
  look at its `valid_until`, which the mode in memory is checked for, and governs until the next
  daily calculation (`ExpiredOverridesEnd`).

Met while modelling, and written into the models as the code has them:

* `control/main.py:493`: a pause schedules a stop and leaves the controller `CHARGING`, so that the slow
  balance raises the limit again while the pause stands.
* `api/routers/settings.py:334` (and `:172`, `:219`): an explicit null passes the checks of a text and is
  stored as the word `None`, although `settings.py:116` says "poll_time_local must use HH:MM
  format". `RowsAreInLimits` excepts it (`Storable`). The strategy cannot start with such a time of its
  daily recalculation (`service.py:100`).
* The control service (`control/main.py:37`) and the API (`api/payload_helpers.py:273`, `:298`) allow the
  heartbeat an age of 60 or 90 s; the strategy and Dryad allow the stored
  interval plus its grace (`tests/strategy/v2/test_soc_guard.py:49`). With an interval above the
  fixed limits the bridge looks stale between two polls: hence `promised` in `HeartbeatsKeepUp`.
  A lowered interval does the same until the wait that began before it ends.
* `backends/composite_goodwe_backend.py:27` answers with an empty reading when neither source can be
  read, so the inverter's status stays "ok" and the heartbeat fresh.
* Nothing publishes `minyad/strategy/reload`; the strategy learns of saved settings at a
  restart or a signal.
* The forecast publishes `solar_power_w` (`forecast/main.py:125`), the strategy listens to
  `minyad/forecast/power_w` (`service.py:89`).
* `force_charge`, `force_discharge` and `force_off` given for a time: only the API's row has the end, and
  the strategy's copy, which has none, replaces it (`OverrideDesk`).
* `goodwe_bridge.py:653`: the difference in the log counts from a setpoint that may never
  have been written (`broken` in `ControlLog`); a window of time misses a row whose
  transaction began in it and ended after it was read (`late`).
* `health.py:128`: the log level is applied before it is committed, and the refresh
  may apply an overtaken one (`amiss` in `SettingsRoutes`).
* `settings.py:337`: trade settings that were read back before another commit may be
  published, retained, after those of that commit (`overtaken` in `SettingsRoutes`).
* A page of the API writes retained values over newer ones of the network thread (`older` in `StatusCache`).
* Dryad blames the whole price of an import at a price below zero and nothing once
  tomorrow's prices replace today's (`DryadViews`); a minute without a row of the grid imports
  nothing for it, and rows of one minute that tell different moments give another share
  (`Whole` in `EnergyViews`).

## 4. Fairness

`Hysteresis!FairSpec`: the meter reports about once a second and time passes.
Nothing obliges anyone to set or clear an override, and the properties that
need its absence say so.

`ControlApp!LiveSpec`: the loop runs what is ready (asyncio), the state loop's
sleep ends, a database call returns or raises, and the bridge goes on
reporting the state of charge (its poll loop). That is strong fairness since
the arrival is bounded by `MaxTasks`, a bound of the model and not of the code.
`MCDrive` assumes it in its scene `control`, as `MCFairness`; the bridge's scenes need none.

`MCTimers` gives each scene the fairness of its module. `DsmrFairness`: the status
thread's loop goes on (its wait has a timeout) and its publication returns.
`EnphaseFairness`: a request ends (it has a timeout), a loop that is told to end
does, and so do the two steps of the main coroutine. Nothing is fair about the
environment: no connection is ever made by obligation. `StatusDue` and `StatusTold` are
one thread, so that weak fairness is enough.

All other modules have safety and action properties only, and need none.

## 5. What is proved

`HysteresisFsm_proofs` has the lemmas about the operators: each keeps the type
`Fsm` and the invariant `FsmInv` (`TickedOK`, `OverriddenOK`, `ForcedOK`, ...).
`Hysteresis_proofs` lifts them to the specification, for every choice of the
thresholds, durations, pauses and samples that satisfies the two assumptions of
`HysteresisFsm` (integers, natural numbers) and that of `Hysteresis`:

| Theorem | Says |
|---|---|
| `TypeCorrect` | `Spec => []TypeOK` |
| `TimersAgree` | `Spec => []TimersMatchState` |
| `SustainedStarts` | `Spec => StartsAreSustained` |
| `RestsBeforeRestart` | `Spec => NoRestartWhileResting` |
| `NeverReverses` | `Spec => NoDirectReversal` |

The inductive invariant `IInv` adds to type and `FsmInv` what ties the timers to
the histories: a running start timer is never older than the run of evaluated
samples for its direction, and the time still left of a cooldown plus the time its
direction has rested is the whole cooldown. Without the first, a start from
IDLE could rest on a timer the history knows nothing of; without the second,
`cooldownLeft = 0` would say nothing about how long the direction rested.

`ControlApp_proofs` proves the safety properties of the control service for every set of samples, limits and overrides, every
change threshold, cap and step, and any number of tasks in flight (`MaxTasks` is
any natural number):

| Theorem | Says |
|---|---|
| `AppTypeCorrect` | `Spec => []TypeOK` |
| `ControllerStaysConsistent` | `Spec => []ControllerConsistent` |
| `RaisesAreSafe` | `Spec => RaisesRespectSoc` |
| `OnlyTheseOrphan` | `Spec => OwnersAreKept` |

The inductive invariant is the conjunction of the first two. Its state half rests
on the lemmas of `HysteresisFsm_proofs`; the other half is that whatever task a
handler leaves behind is a task some continuation accepts, so each lemma about
an operator speaks of the object it returns and of the tasks it appends.
`RaisesRespectSoc` and `OwnersAreKept` are about single steps: under the
invariant every action is shown either to keep the limits, to withdraw them, or
to raise one that the guard lets through; what is left are the disjuncts of
`Orphaning`.

`GoodWeBridge_proofs` proves every property of the GoodWe scenes of `drive`, for all watts,
intervals and battery powers, any subset of the faults and any number of
coroutines at the two locks:

| Theorem | Says |
|---|---|
| `BridgeInvariance` | `BridgeSpec => []BridgeTypeOK` |
| `CopiesStayEqual` | `BridgeSpec => []CopiesAgree` |
| `RegistersStayPaired` | `BridgeSpec => []RegistersAreOnePair` |
| `CommandStaysInForce` | `BridgeSpec => []AcceptedCommandIsInForce` |
| `OneWayForced` | `BridgeSpec => []NeverForcedBothWays` |
| `LostOnlyThere` | `BridgeSpec => CommandsFollowTargets` |

Its `IInv` adds what the coroutine in a lock has done so far:
`WriterConsistent` (after the first write its register is set, during the pause
the backend remembers its pair) and `RequesterConsistent` (between the two
requests the charge percentage is that of its command). Without them nothing is
known at the second write or request. `LostOnlyThere` goes over the steps with
`InStep` rewritten as a fact about the queue of requests (`LastIs`), which the
lemmas `LastAppended`, `LastPolled` and `LastRemoved` follow through every change
of the queue.

`StrategyService_proofs` proves every property of the run `strategy`, for all
settings, samples, commands, profiles, prices and times, and any number of
waiting ticks and writes:

| Theorem | Says |
|---|---|
| `ServiceTypesHold` | `Spec => []TypeOK` |
| `WireStaysTheDecision` | `Spec => []WireIsTheDecision` |
| `RowStaysTheOverride` | `Spec => []RowFollowsOverride` |
| `ScheduleStaysForThePlan` | `Spec => []ScheduleIsForThePlan` |
| `ExportsNeverDeepen` | `Spec => []ExportNeverDeepens` |
| `PromiseIsKept` | `Spec => KeepsPromise`: the service implements `SetpointPromise` |
| `ExemptionStaysForOverrides` | `Spec => ExemptionIsForOverrides` |
| `FloorsGlide` | `Spec => FloorGlides` |

The inductive invariant `ServiceInv` adds to these properties what is true of a
tick that waits for the database: the setpoint it has published is the one on the
wire (`WireInv`), the override it ends is no longer in memory, and until then every
pending write carries the override in force (`RowInv`), and its raw
setpoint lies between the limits it began with or no farther out than the
setpoint then in force (`RawInv`). `Numbers` says which attributes are integers.

The refinement rests on `AppliedWithin` and `GuardedAllows`: whatever plan,
settings and telemetry a setpoint is made from, the guard of the moment of
publication lets it through. `ExemptionStaysForOverrides` takes from the same lemmas that
a setpoint no bare guard allows was made by an override and is a function of
that override and the settings alone (`AppliedExempt`). For the floor,
`ExpectedBetween` walks through the segments of a day until the end of the
night; `SegmentMovesOn` says that every segment ends later than it begins and
`WalkExists` from it that the walk is a function. That is an induction over the time left, done by hand on
a least counterexample, since the library's takes an operator.

Assumed are integers where the code calculates with watts, percents and
prices, limits that are not negative (the API refuses others, `BATTERY_KEYS`), a gain
that is a fraction with a positive denominator, profiles with a number for every
slot, and a plan horizon that lies before the first instant.

`Field_proofs` has the bridges' reports and logs, the first strategy, the MQTT
client and the token; `Api_proofs` the HTTP API. Each has its own
specification, and nothing bounds the number of requests, messages, rows,
publications or reconnections but the constant that is a parameter:

| Theorem | Says | Inductive invariant |
|---|---|---|
| `CommandsStayInLimits` | `ControllerSpec => []CommandsObeyTheLimits` | a decision obeys its own mode and the limits of the battery (`GoodDecision`), a floor is below its ceiling (`GoodMode`), the command is that of the decision applied last |
| `SubscriptionsHold` | `MqttSpec => []RegisteredIsSubscribed` | while the session is open a registered topic is with the broker, in the service's thread or in the callback |
| `HeartbeatsStayFresh` | `ReportSpec => []HeartbeatsKeepUp` | the heartbeat is no older than what passed since the wait or the read began, and during a read the wait before it (`HeartbeatInv`) |
| `NewestTokenIsUsed` | `TokenSpec => []TokenIsUsed` | what a run has issued, written and replaced by the step it is at |
| `LogStaysWhole` | `LogSpec => []LogsAreWhole` | ids have no gaps (`RowsInv`); a writer remembers what its newest row set, unless one could not be written (`NotedInv`) |
| `CopiesCatchUp` | `DeskSpec => []OverridesAgree` | the last message in a queue settles what its reader will have, and the two agree from the moment one message reached both (`CopiesInv`) |
| `SettingsStayInOrder` | `DeskSpec => []SettingsInOrder` | with one update at a time, what it validated and derived is from what is stored (`SettingsInv`) |
| `SettingsStaySettled` | `SettingSpec => []SettingsAreSettled` | every row held is below every row still to be written; a row is held by one request, with a value that may be stored; with no answer to come the broker has the table's trade settings, unless the last publication was lost or overtaken; the applied level is that of its holder |
| `CacheCatchesUp` | `CacheSpec => []StatusIsCurrent` | what is on its way ends with what the broker retains; nothing is newer than that |
| `ThreadsStayWhole` | `MailSpec => []ThreadsAreWhole` | what a message answers is there, and no id is given away twice |
| `HouseholdAddsUp` | `ViewSpec => []HouseholdIsAccounted` | the rows are of moments that can be (`RowsAreOfMoments`); one more sample moves an average from its mean by half a watt at most |
| `PlansStayAgreed` | `PlanSpec => []PlanViewsAgree` | no plan begins after the present slot, and its numbers are integers |
| `DryadStaysRecent` | `DryadSpec => []DryadIsRecent` | what is kept was recent when the answer that kept it began |

`HouseholdAddsUp` is for any set of telemetries and any number of rows and samples. A battery
said to be idle moves nothing; when the rows of each minute tell one moment, Dryad's share is
that of the imports and loads the API showed, because what the rows leave is the load
(`MinuteIsReadAlike`) whether the household's row is there or not; and the rolled up average stays near the
mean. `SettingsStaySettled` shows that updates cannot deadlock in the database: `WaitingGoesUp`
says that whoever is waited for will need a greater row than the one waited
for, so that no circle closes. `PlansStayAgreed` is for plans of any length: the sums over
the curves are folds, shown not to depend on the order and to telescope from slot to slot.
The constants are integers, limits and amperes natural numbers, and the first
stored settings in order (they are the defaults of the code). The query for the newest
plan is a filter in the code; the model says it as a set, because the prover cannot look into
`SelectSeq`.

`MCField_proofs` carries these to what the run `field` checks. A scene moves the variables
of one program and leaves the others alone (`FieldStep`, `ApiStep`, `BridgeStep`, `AnswerStep`), so
that a behaviour of the scenes is one of every program (`SceneIsAllPrograms`):
`LimitsStayObeyed`, `SettingsStayKept`, `StatusesStayCurrent`, `RecordsStayWhole` and `ViewsStayRecent` prove
the invariants of that run from the theorems above, for all constants.

Only model-checked: what needs fairness (`SurplusIsFollowed`, `PauseEnds`, `CooldownEnds`,
`LimitsAreEnforced`, `StaleBridgeStops`, `LossIsTold`, `ShutdownEnds`). Liveness and `ENABLED` are out of
the provers' reach. Every invariant and every action property of the runs that pass is proved. Of ingestion there is only the
run that refutes it.

## 6. Not modelled, and why

* Control service: the pass-through of strategy setpoints (`STRATEGY_V2_PRIMARY`), the periodic
  publications and its restarts. They hand values on; the values are what
  `StrategyService` promises.
* GoodWe bridge: metrics, the check whether a charge limit shows an effect (it
  only warns), `dry_run` and configurations with one backend.
* API: the remaining queries, summaries and health reports: each is one read
  of the database, put into words.
* `shared/db.py`: an engine and a session; its calls are the suspensions of the other
  modules.
* `forecast`, `reporting`, `deadman`, `monitoring`: a timer, a request and a row or a message; no
  state that two steps share.
* Frontends, migrations, scripts: presentation and schema.

What would be worth doing next: the control service and the inverter bridge with
the messages between them in one module, with an abstract actuator that follows
the last command; and the strategy-primary path of the control service as a
second environment of `GoodWeBridge`.
