----------------------------- MODULE ControlApp -----------------------------
(***************************************************************************)
(* The control service (control/main.py): one asyncio event loop that runs *)
(* a task for every MQTT message, the coroutines the controller's          *)
(* callbacks schedule, and the 10-second state loop.                       *)
(*                                                                         *)
(* A task runs without interruption up to an await that suspends it:       *)
(* asyncio.sleep(0), which puts it at the end of the loop's ready queue,   *)
(* or a database call, after which it comes back at any later time.  ready *)
(* is that queue and waiting holds the tasks in a database call; a task is *)
(* a tuple naming the statement it continues at and the local variables it *)
(* still needs.                                                            *)
(*                                                                         *)
(* STRATEGY_V2_PRIMARY is false here: the local state machine decides.     *)
(***************************************************************************)
EXTENDS HysteresisFsm, Sequences, FiniteSets

CONSTANTS
    GridSamples,        \* values of minyad/grid/net_power_w, import positive
    BatteryPowers,      \* values of minyad/battery/power_w, discharge positive
    SocLevels,          \* values of minyad/battery/soc
    SocLimits,          \* the [floor, ceiling] settings a reload can read
    FullCycleCeiling,   \* LIFEPO4_FULL_CYCLE_CEILING
    Fridays,            \* the days that can come: Fridays {TRUE}, others {FALSE}
    Overrides,          \* the commands of minyad/control/override
    Statuses,           \* values of minyad/bridge/status
    Heartbeats,         \* values of minyad/bridge/last_seen, by how they parse
    MaxChargeW,         \* the effective charge cap
    MaxDischargeW,      \* the effective discharge cap
    MinTargetChangeW,   \* MIN_TARGET_CHANGE_W
    GridDeadbandW,      \* GRID_DEADBAND_W
    BalanceStepW,       \* BALANCE_STEP_W
    MaxBalanceStepW,    \* the 500 W ceiling of one adjustment
    GainDivisor,        \* 1 / BALANCE_GAIN
    MaxTasks            \* a bound on the tasks alive at one time

ASSUME WattsAreIntegers ==
    /\ GridSamples \subseteq Int
    /\ BatteryPowers \subseteq Int
    /\ SocLevels \subseteq Nat
    /\ {MaxChargeW, MaxDischargeW, MinTargetChangeW, GridDeadbandW,
        BalanceStepW, MaxBalanceStepW, FullCycleCeiling} \subseteq Nat
    /\ GainDivisor \in Nat \ {0}
    /\ MaxTasks \in Nat

ASSUME CommandsAreWellFormed ==
    /\ SocLimits \subseteq [floor : Nat, ceiling : Nat]
    /\ SocLimits # {}
    /\ Overrides \subseteq [mode : Modes, watts : Nat, pause : Pauses]
    /\ Fridays \subseteq BOOLEAN
    /\ Statuses \subseteq {"online", "offline"}
    /\ Heartbeats \subseteq {"fresh", "stale", "invalid"}

UnknownSoc == -1                 \* no report yet

VARIABLES
    app,        \* the ControlApp object and its controller
    fullCycle,  \* is it Friday in Amsterdam?
    ready,      \* the event loop's ready queue
    waiting     \* tasks suspended in a database call

vars == <<app, fullCycle, ready, waiting>>

\* charge and discharge are the limits last published on control/charge_w and
\* control/discharge_w; seen is the age of bridge_last_seen as the code sees
\* it.  bridge_last_seen_error needs no field: it is read only together with
\* that age, and is set exactly when no fresh instant was ever accepted.
App == [fsm       : Fsm,
        soc       : SocLevels \cup {UnknownSoc},
        limits    : SocLimits,
        grid      : GridSamples \cup {0},
        power     : BatteryPowers \cup {0},
        status    : Statuses \cup {"offline"},
        seen      : {"never", "fresh", "stale"},
        setpoint  : Nat,
        charge    : Nat,
        discharge : Nat]

Init ==
    /\ \E l \in SocLimits :
         app = [fsm |-> NewFsm, soc |-> UnknownSoc, limits |-> l,
                grid |-> 0, power |-> 0,
                status |-> "offline", seen |-> "never",
                setpoint |-> 0, charge |-> 0, discharge |-> 0]
    /\ fullCycle \in Fridays
    /\ ready = <<>>
    /\ waiting = <<>>

-----------------------------------------------------------------------------
(* Reading the state *)

Positive(w) == IF w > 0 THEN w ELSE 0
AtMost(w, cap) == IF w < cap THEN w ELSE cap
Distance(v, w) == IF v < w THEN w - v ELSE v - w

\* bridge_is_available: without any heartbeat the status alone decides.
Available(a) == a.status # "offline" /\ a.seen # "stale"

\* effective_soc_ceiling
SocCeiling(a) == IF fullCycle THEN FullCycleCeiling ELSE a.limits.ceiling

AtFloor(a) == a.soc # UnknownSoc /\ a.soc <= a.limits.floor
AtCeiling(a) == a.soc # UnknownSoc /\ a.soc >= SocCeiling(a)

ChargeTarget(a) ==
    IF a.power < 0 THEN Positive(-a.power - a.grid) ELSE Positive(-a.grid)

DischargeTarget(a) ==
    IF a.power > 0 THEN Positive(a.power + a.grid) ELSE Positive(a.grid)

\* Mutant: only the charging callbacks are wired.
CallbacksOfCharging(f, g) ==
    IF g.state = "CHARGING" /\ f.state # "CHARGING"
    THEN << <<"schedule", "startCharging">> >>
    ELSE IF f.state = "CHARGING" /\ g.state # "CHARGING"
    THEN << <<"schedule", "stopCharging">> >>
    ELSE <<>>

\* The coroutines _transition schedules through the on_... callbacks; the loop
\* first makes a task of each (_schedule_start_charging and its likes).
Callbacks(f, g) ==
    (IF Starts(f.state, g.state)
     THEN << <<"schedule", IF g.state = "CHARGING" THEN "startCharging"
                                                   ELSE "startDischarging">> >>
     ELSE <<>>)
    \o (IF Stops(f.state, g.state) THEN << <<"schedule", "stopCharging">> >> ELSE <<>>)

-----------------------------------------------------------------------------
(* Writing the state: what a method makes of the object *)

Idled(a) == [a EXCEPT !.fsm = Forced(@, "IDLE")]

\* publish_battery_limits
Published(a, charge, discharge, changed) ==
    IF ~changed /\ Distance(charge, a.charge) < MinTargetChangeW
                /\ Distance(discharge, a.discharge) < MinTargetChangeW
    THEN a
    ELSE [a EXCEPT !.charge = charge, !.discharge = discharge]

\* stop_charging after its sleep(0)
Stopped(a) ==
    LET b == [a EXCEPT !.setpoint = 0]
    IN  IF Available(a) THEN Published(b, 0, 0, TRUE) ELSE b

\* publish_setpoint refuses to charge a full battery: it forces the controller
\* idle and goes on to stop_charging.
ChargeRefused(a, watts) == Available(a) /\ watts > 0 /\ AtCeiling(a)

ChargeSet(a, watts, changed) ==
    LET w == AtMost(watts, MaxChargeW)
    IN  CASE ~Available(a) -> [a EXCEPT !.setpoint = 0]
          [] ChargeRefused(a, watts) ->
               IF a.fsm.state = "CHARGING" THEN Idled(a) ELSE a
          [] OTHER -> Published([a EXCEPT !.setpoint = w], w, 0, changed)

\* Mutant: the refusal is bound to the state it has to undo.
DischargeRefusedWhenActive(a, watts) ==
    Available(a) /\ watts > 0 /\ AtFloor(a) /\ a.fsm.state = "DISCHARGING"

\* publish_discharge_setpoint likewise refuses to discharge an empty one.
DischargeRefused(a, watts) == Available(a) /\ watts > 0 /\ AtFloor(a)

DischargeSet(a, watts, changed) ==
    LET w == AtMost(watts, MaxDischargeW)
    IN  CASE ~Available(a) -> [a EXCEPT !.setpoint = 0]
          [] DischargeRefused(a, watts) ->
               IF a.fsm.state = "DISCHARGING" THEN Idled(a) ELSE a
          [] OTHER -> Published([a EXCEPT !.setpoint = w], 0, w, changed)

\* Mutant: an outage suppresses the setpoint and leaves the controller running.
UnreachableKeepsState(a) == [a EXCEPT !.setpoint = 0]

\* mark_bridge_unavailable
Unreachable(a) == [Idled(a) EXCEPT !.setpoint = 0]

\* _apply_soc_guard returns early when it masks a discharge trigger.
DischargeMasked(a, surplus) == AtFloor(a) /\ surplus <= DischargeStartW
ChargeMasked(a, surplus) ==
    ~DischargeMasked(a, surplus) /\ AtCeiling(a) /\ surplus >= StartW

\* Mutant: the guard masks the triggers and leaves the running state.
GuardedOnlyMasks(a, surplus) == a

\* Its effect on the controller ...
Guarded(a, surplus) ==
    IF \/ AtFloor(a) /\ a.fsm.state = "DISCHARGING"
       \/ AtCeiling(a) /\ a.fsm.state = "CHARGING" /\ ~DischargeMasked(a, surplus)
    THEN Idled(a)
    ELSE a

\* ... and the surplus it returns.
Masked(a, surplus) ==
    CASE DischargeMasked(a, surplus) -> DischargeStartW + 1
      [] ChargeMasked(a, surplus)    -> StartW - 1
      [] OTHER                       -> surplus

-----------------------------------------------------------------------------
(* The event loop *)

Callback == {"startCharging", "startDischarging", "stopCharging"}

\* The tasks: messages, coroutines of the callbacks, and continuations with
\* their locals (a surplus, a grid sample, a target, rebalanced, a status).
Task ==
    {<<"reload">>, <<"reloaded">>, <<"stop">>, <<"socStop">>, <<"telemetryStored">>,
     <<"statusStored">>, <<"lastSeenStored">>, <<"loop">>, <<"loopStale">>}
    \cup {<<c>> : c \in Callback}
    \cup {"schedule"} \X Callback
    \cup {"grid"} \X GridSamples
    \cup {"gridStop", "gridStopped"} \X Int \X GridSamples
    \cup {"gridAdopted"} \X Int \X Nat
    \cup {"adoptionRefused"} \X Int
    \cup {"chargeRefused"} \X BOOLEAN
    \cup {"power"} \X BatteryPowers
    \cup {"soc"} \X SocLevels
    \cup {"status"} \X Statuses
    \cup {"lastSeen"} \X Heartbeats
    \cup {"override"} \X Overrides

Running(name) == ready # <<>> /\ Head(ready)[1] = name
Local(i) == Head(ready)[i]

\* The running task leaves object a behind, puts tasks in the ready queue, and
\* waits for the database as task w (if it does).
Leaves(a, tasks, w) ==
    /\ app' = a
    /\ ready' = Tail(ready) \o tasks
    /\ waiting' = waiting \o w
    /\ UNCHANGED fullCycle

Tasks == Len(ready) + Len(waiting)

\* _on_mqtt: paho's thread hands a message to the loop.
Arrive(message) ==
    /\ Tasks < MaxTasks
    /\ ready' = Append(ready, message)
    /\ UNCHANGED <<app, fullCycle, waiting>>

\* A database call returns, and its task is ready again.
DatabaseAnswers(i) ==
    /\ ready' = Append(ready, waiting[i])
    /\ waiting' = SubSeq(waiting, 1, i - 1) \o SubSeq(waiting, i + 1, Len(waiting))
    /\ UNCHANGED <<app, fullCycle>>

\* A database call raises: the task dies where it is.  (The state loop's own
\* calls are not among these: when they raise, the service ends.)
DatabaseRaises(i) ==
    /\ waiting[i][1] # "loopStale"
    /\ waiting' = SubSeq(waiting, 1, i - 1) \o SubSeq(waiting, i + 1, Len(waiting))
    /\ UNCHANGED <<app, fullCycle, ready>>

-----------------------------------------------------------------------------
(* Grid samples: handle_grid_power_topic *)

\* apply_slow_balance: the new target from the residual import or export.
Adjustment(residual) ==
    LET a == residual \div GainDivisor
    IN  AtMost(IF a < BalanceStepW THEN BalanceStepW ELSE a, MaxBalanceStepW)

\* Mutant: the target is capped and not kept positive.
BalancedBelowZero(a, direction) ==
    LET step == Adjustment(IF a.grid < 0 THEN -a.grid ELSE a.grid)
    IN  IF (direction = "CHARGING") <=> (a.grid < 0) THEN AtMost(a.setpoint + step, MaxChargeW)
        ELSE a.setpoint - step

Balanced(a, direction) ==
    LET export == Positive(-a.grid - GridDeadbandW)
        import == Positive(a.grid - GridDeadbandW)
        more   == IF direction = "CHARGING" THEN export ELSE import
        less   == IF direction = "CHARGING" THEN import ELSE export
        cap    == IF direction = "CHARGING" THEN MaxChargeW ELSE MaxDischargeW
        raw    == CASE more > 0 -> a.setpoint + Adjustment(more)
                    [] more <= 0 /\ less > 0 -> a.setpoint - Adjustment(less)
                    [] OTHER -> a.setpoint
    IN  IF (direction = "CHARGING" /\ AtCeiling(a)) \/ (direction = "DISCHARGING" /\ AtFloor(a))
        THEN 0
        ELSE Positive(AtMost(raw, cap))

\* _active_command_looks_ineffective
Ineffective(a, direction, target) ==
    /\ target > 0
    /\ IF direction = "CHARGING"
       THEN a.grid < -GridDeadbandW /\ a.power >= -GridDeadbandW
       ELSE a.grid > GridDeadbandW /\ a.power <= GridDeadbandW

\* The instants of the last balance and of the last command are not modelled:
\* CONTROL_INTERVAL_SEC may or may not have passed, an unchanged target may or
\* may not be due for a refresh, an ineffective one for a retry.
SlowBalance(a, direction, tasks) ==
    LET target == Balanced(a, direction)
        Written(retry) == IF direction = "CHARGING" THEN ChargeSet(a, target, retry)
                                                    ELSE DischargeSet(a, target, retry)
    IN  \/ Leaves(a, tasks, <<>>)
        \/ \E retry \in {FALSE, Ineffective(a, direction, target)} :
             Leaves(Written(retry), tasks, <<>>)

\* From the controller's tick to the end of the handler.
TickAndPublish(a, surplus, rebalanced) ==
    LET f == Ticked(a.fsm, surplus)
        b == [a EXCEPT !.fsm = f]
        calls == Callbacks(a.fsm, f)
        started(d) == a.fsm.state # d /\ f.state = d
    IN  CASE started("CHARGING") ->
               Leaves(ChargeSet(b, ChargeTarget(b), TRUE),
                      calls \o IF ChargeRefused(b, ChargeTarget(b))
                               THEN << <<"chargeRefused", rebalanced>> >> ELSE <<>>,
                      <<>>)
          [] f.state = "CHARGING" /\ ~started("CHARGING") ->
               SlowBalance(b, "CHARGING", calls)
          [] started("DISCHARGING") /\ ~rebalanced ->
               Leaves(DischargeSet(b, DischargeTarget(b), TRUE),
                      calls \o IF DischargeRefused(b, DischargeTarget(b))
                               THEN << <<"stop">> >> ELSE <<>>,
                      <<>>)
          [] f.state = "DISCHARGING" /\ ~started("DISCHARGING") /\ ~rebalanced ->
               SlowBalance(b, "DISCHARGING", calls)
          [] OTHER -> Leaves(b, calls, <<>>)

\* _rebalance_untracked_idle_discharge, then the tick.  The adoption writes
\* the state to the database before it publishes the discharge.
RebalanceAndTick(a, surplus, grid) ==
    IF a.fsm.state = "IDLE" /\ ~AtFloor(a) /\ a.power > 0
    THEN Leaves([a EXCEPT !.fsm = Forced(@, "DISCHARGING")], <<>>,
                << <<"gridAdopted", surplus, Positive(a.power + grid)>> >>)
    ELSE TickAndPublish(a, surplus, FALSE)

GridSample ==
    /\ Running("grid")
    /\ LET a == [app EXCEPT !.grid = Local(2)]
           b == Guarded(a, -Local(2))
           surplus == Masked(a, -Local(2))
       IN  CASE ~Available(a) -> Leaves(a, <<>>, <<>>)
             [] Available(a) /\ b # a ->
                  Leaves(b, << <<"gridStop", surplus, Local(2)>> >>, <<>>)
             [] OTHER -> RebalanceAndTick(a, surplus, Local(2))

\* The guard forced the controller idle: the stop goes out, then the state is
\* stored, and only then is the sample evaluated.
GridStop ==
    /\ Running("gridStop")
    /\ Leaves(Stopped(app), <<>>, << <<"gridStopped", Local(2), Local(3)>> >>)

GridStopped ==
    /\ Running("gridStopped")
    /\ RebalanceAndTick(app, Local(2), Local(3))

GridAdopted ==
    /\ Running("gridAdopted")
    /\ IF DischargeRefused(app, Local(3))
       THEN Leaves(DischargeSet(app, Local(3), FALSE),
                   << <<"adoptionRefused", Local(2)>> >>, <<>>)
       ELSE TickAndPublish(DischargeSet(app, Local(3), FALSE), Local(2), TRUE)

AdoptionRefused ==
    /\ Running("adoptionRefused")
    /\ TickAndPublish(Stopped(app), Local(2), TRUE)

\* A charge start that was refused: after the stop the handler still looks at
\* the controller's state.
ChargeRefusedStop ==
    /\ Running("chargeRefused")
    /\ IF app.fsm.state = "DISCHARGING" /\ ~Local(2)
       THEN SlowBalance(Stopped(app), "DISCHARGING", <<>>)
       ELSE Leaves(Stopped(app), <<>>, <<>>)

-----------------------------------------------------------------------------
(* Coroutines the controller's callbacks scheduled *)

CreateTask ==
    /\ Running("schedule")
    /\ Leaves(app, << <<Local(2)>> >>, <<>>)

StartCharging ==
    /\ Running("startCharging")
    /\ Leaves(ChargeSet(app, ChargeTarget(app), FALSE),
              IF ChargeRefused(app, ChargeTarget(app)) THEN << <<"stop">> >> ELSE <<>>,
              <<>>)

StartDischarging ==
    /\ Running("startDischarging")
    /\ Leaves(DischargeSet(app, DischargeTarget(app), FALSE),
              IF DischargeRefused(app, DischargeTarget(app)) THEN << <<"stop">> >> ELSE <<>>,
              <<>>)

\* stop_charging first gives up its turn.
StopCharging ==
    /\ Running("stopCharging")
    /\ Leaves(app, << <<"stop">> >>, <<>>)

Stop ==
    /\ Running("stop")
    /\ Leaves(Stopped(app), <<>>, <<>>)

-----------------------------------------------------------------------------
(* Overrides and settings *)

\* apply_override
ApplyOverride ==
    /\ Running("override")
    /\ LET o == Local(2)
           f == Overridden(app.fsm, o.mode, o.pause)
           a == [app EXCEPT !.fsm = f]
           calls == Callbacks(app.fsm, f)
           refused == << <<"stop">> >>
       IN  CASE o.mode = "none" ->
                  Leaves([app EXCEPT !.fsm = Cleared(@), !.setpoint = 0], <<>>, <<>>)
             [] o.mode = "force_on" ->
                  Leaves(ChargeSet(a, o.watts, FALSE),
                         calls \o IF ChargeRefused(a, o.watts) THEN refused ELSE <<>>,
                         <<>>)
             [] o.mode = "force_discharge" ->
                  Leaves(DischargeSet(a, o.watts, FALSE),
                         calls \o IF DischargeRefused(a, o.watts) THEN refused ELSE <<>>,
                         <<>>)
             [] o.mode \in {"force_off", "pause"} ->
                  Leaves(a, calls \o << <<"stop">> >>, <<>>)

\* reload_settings reads the settings ...
Reload ==
    /\ Running("reload")
    /\ Leaves(app, <<>>, << <<"reloaded">> >>)

\* ... and builds a new controller, which is IDLE and has no override, so that
\* enforce_soc_guard_now finds nothing to stop.
Reloaded ==
    /\ Running("reloaded")
    /\ \E l \in SocLimits :
         Leaves(Guarded([app EXCEPT !.limits = l, !.fsm = NewFsm], 0), <<>>, <<>>)

-----------------------------------------------------------------------------
(* Battery telemetry and bridge health *)

\* handle_battery_topic for soc: enforce_soc_guard_now, then the database.
SocReport ==
    /\ Running("soc")
    /\ LET a == [app EXCEPT !.soc = Local(2)]
           b == Guarded(a, 0)
       IN  IF b # a THEN Leaves(b, << <<"socStop">> >>, <<>>)
                    ELSE Leaves(a, <<>>, << <<"telemetryStored">> >>)

SocStop ==
    /\ Running("socStop")
    /\ Leaves(Stopped(app), <<>>, << <<"telemetryStored">> >>)

PowerReport ==
    /\ Running("power")
    /\ Leaves([app EXCEPT !.power = Local(2)], <<>>, << <<"telemetryStored">> >>)

\* refresh_bridge_last_seen_from_battery_telemetry
TelemetryStored ==
    /\ Running("telemetryStored")
    /\ Leaves(IF app.status # "offline" THEN [app EXCEPT !.seen = "fresh"] ELSE app,
              <<>>, <<>>)

\* handle_bridge_status: the status is set before the database call, and an
\* outage acted on after it.
BridgeStatus ==
    /\ Running("status")
    /\ Leaves([app EXCEPT !.status = Local(2)], <<>>,
              IF Local(2) = "offline" THEN << <<"statusStored">> >> ELSE <<>>)

StatusStored ==
    /\ Running("statusStored")
    /\ Leaves(Unreachable(app), <<>>, <<>>)

\* handle_bridge_last_seen
BridgeHeartbeat ==
    /\ Running("lastSeen")
    /\ Leaves([app EXCEPT !.seen = IF Local(2) = "invalid" THEN "never" ELSE Local(2)],
              <<>>, << <<"lastSeenStored">> >>)

LastSeenStored ==
    /\ Running("lastSeenStored")
    /\ Leaves(IF Available(app) THEN app ELSE Unreachable(app), <<>>, <<>>)

\* publish_state_loop: a heartbeat that grew stale while the status still says
\* online is an outage too.  Only such a round of the loop changes anything.
LoopTask(t) == t[1] \in {"loop", "loopStale"}

GrewStale == app.seen = "stale" /\ app.status # "offline"

LoopWakes ==
    /\ \A i \in DOMAIN ready : ~LoopTask(ready[i])
    /\ \A i \in DOMAIN waiting : ~LoopTask(waiting[i])
    /\ GrewStale
    /\ ready' = Append(ready, <<"loop">>)
    /\ UNCHANGED <<app, fullCycle, waiting>>

StateLoop ==
    /\ Running("loop")
    /\ IF GrewStale
       THEN Leaves(app, <<>>, << <<"loopStale">> >>)
       ELSE Leaves(app, <<>>, <<>>)

LoopStale ==
    /\ Running("loopStale")
    /\ Leaves(Unreachable(app), <<>>, <<>>)

-----------------------------------------------------------------------------
(* Time.  A unit of it is long for the loop: nothing is ready when it passes. *)

Elapse ==
    /\ ready = <<>>
    /\ app' = [app EXCEPT !.fsm = Aged(@)]
    /\ UNCHANGED <<fullCycle, ready, waiting>>

\* BRIDGE_LAST_SEEN_STALE_SECONDS pass without a heartbeat.
HeartbeatGrowsStale ==
    /\ ready = <<>>
    /\ app.seen = "fresh"
    /\ app' = [app EXCEPT !.seen = "stale"]
    /\ UNCHANGED <<fullCycle, ready, waiting>>

Midnight ==
    /\ ready = <<>>
    /\ fullCycle' \in Fridays \ {fullCycle}
    /\ UNCHANGED <<app, ready, waiting>>

-----------------------------------------------------------------------------

Messages ==
    \/ \E w \in GridSamples : Arrive(<<"grid", w>>)
    \/ \E w \in BatteryPowers : Arrive(<<"power", w>>)
    \/ \E s \in SocLevels : Arrive(<<"soc", s>>)
    \/ \E s \in Statuses : Arrive(<<"status", s>>)
    \/ \E h \in Heartbeats : Arrive(<<"lastSeen", h>>)
    \/ \E o \in Overrides : Arrive(<<"override", o>>)
    \/ Arrive(<<"reload">>)

RunTask ==
    \/ GridSample \/ GridStop \/ GridStopped \/ GridAdopted
    \/ AdoptionRefused \/ ChargeRefusedStop
    \/ CreateTask \/ StartCharging \/ StartDischarging \/ StopCharging \/ Stop
    \/ ApplyOverride \/ Reload \/ Reloaded
    \/ SocReport \/ SocStop \/ PowerReport \/ TelemetryStored
    \/ BridgeStatus \/ StatusStored \/ BridgeHeartbeat \/ LastSeenStored
    \/ StateLoop \/ LoopStale

Database ==
    \E i \in DOMAIN waiting : DatabaseAnswers(i) \/ DatabaseRaises(i)

Next ==
    \/ Messages
    \/ RunTask
    \/ Database
    \/ LoopWakes
    \/ Elapse
    \/ HeartbeatGrowsStale
    \/ Midnight

Spec == Init /\ [][Next]_vars

\* The loop runs what is ready, a database call returns or raises, the state
\* loop's sleep ends, and the bridge goes on reporting the state of charge.
LiveSpec ==
    /\ Spec
    /\ WF_vars(RunTask)
    /\ WF_vars(LoopWakes)
    /\ WF_vars(waiting # <<>> /\ (DatabaseAnswers(1) \/ DatabaseRaises(1)))
    /\ SF_vars(\E s \in SocLevels : Arrive(<<"soc", s>>))


-----------------------------------------------------------------------------
(* Properties *)

\* The state has its type; a limit or a setpoint is never negative.
TypeOK ==
    /\ app \in App
    /\ fullCycle \in Fridays
    /\ ready \in Seq(Task)
    /\ waiting \in Seq(Task)

\* main.py writes the controller's private fields from outside
\* (_force_controller_idle, _force_controller_discharging) and replaces the
\* whole controller on a reload: what it leaves behind is always a controller
\* whose own methods could have left it.
ControllerConsistent == FsmInv(app.fsm)

StoppingTasks == {"gridStop", "socStop", "stopCharging", "stop",
                  "chargeRefused", "adoptionRefused"}

StopPending ==
    \E i \in DOMAIN ready :
        \/ ready[i][1] \in StoppingTasks
        \/ ready[i][1] = "schedule" /\ ready[i][2] = "stopCharging"

\* A published limit has an owner: the state or the override that will withdraw
\* it, or a stop on its way.  The SoC guard, the stop threshold and the outage
\* handling look at the controller and never at the limits, so a limit nobody
\* owns stays with the inverter.
LimitsOwned ==
    /\ app.charge > 0 => \/ app.fsm.state = "CHARGING"
                         \/ app.fsm.mode = "force_on"
                         \/ StopPending
    /\ app.discharge > 0 => \/ app.fsm.state = "DISCHARGING"
                            \/ app.fsm.mode = "force_discharge"
                            \/ StopPending

\* A limit is out that the next one may be too near to replace.
SmallLimit ==
    \E w \in {app.charge, app.discharge} : 0 < w /\ w < MinTargetChangeW

\* The steps of the code that do leave a limit without an owner: a new
\* controller, an outage, the end of an override, an override whose command is
\* too near the published one to be sent, and a command sent for a decision
\* that no longer stands.
Orphaning ==
    \/ Reloaded
    \/ StatusStored \/ LastSeenStored \/ LoopStale
    \/ ApplyOverride /\ Local(2).mode = "none"
    \/ ApplyOverride /\ SmallLimit
    \/ GridAdopted /\ app.fsm.state # "DISCHARGING"
    \/ StartCharging /\ app.fsm.state # "CHARGING"
    \/ StartDischarging /\ app.fsm.state # "DISCHARGING"
    \/ RunTask /\ ~Available(app)

\* These are the only ones: grid samples, SoC reports, stops, callbacks in
\* whatever order, and the other overrides withdraw every limit they disown.
OwnersAreKept == [][LimitsOwned => LimitsOwned' \/ Orphaning]_vars

\* No limit is raised for a battery that is full or empty, whatever was awaited
\* between the decision and the command (publish_setpoint and
\* publish_discharge_setpoint are reached from seven places).
RaisesRespectSoc ==
    [][/\ app'.charge > app.charge => ~AtCeiling(app')
       /\ app'.discharge > app.discharge => ~AtFloor(app')]_vars

\* A settings change, a command or an outage takes the controller over.
TakenOver ==
    \/ ~Available(app)
    \/ \E i \in DOMAIN ready :
         ready[i][1] \in {"reload", "reloaded", "override",
                         "statusStored", "lastSeenStored", "loopStale"}

\* A battery that reaches its limit in the hands of an active controller is
\* stopped (_apply_soc_guard): the published limit goes to 0 unless the battery
\* leaves the limit or something else takes over.
LimitsAreEnforced ==
    /\ (app.fsm.state = "CHARGING" /\ AtCeiling(app))
          ~> (app.charge = 0 \/ ~AtCeiling(app) \/ TakenOver)
    /\ (app.fsm.state = "DISCHARGING" /\ AtFloor(app))
          ~> (app.discharge = 0 \/ ~AtFloor(app) \/ TakenOver)

\* A bridge that falls silent without saying "offline" stops the controller
\* (publish_state_loop; a grid sample that finds the bridge gone does nothing).
StaleBridgeStops ==
    (app.fsm.state \in Directions /\ GrewStale) ~> (app.fsm.state = "IDLE" \/ ~GrewStale)

\* "A settings reload can move the floor or ceiling across the current battery
\* SoC without a new grid sample, so enforce the same guard immediately to stop
\* any now-forbidden active charge/discharge state" (enforce_soc_guard_now).
ReloadStopsForbidden ==
    [][Reloaded /\ Available(app) =>
         /\ app.fsm.state = "CHARGING" /\ app.charge > 0 /\ AtCeiling(app') => StopPending'
         /\ app.fsm.state = "DISCHARGING" /\ app.discharge > 0 /\ AtFloor(app') => StopPending']_vars

\* An accepted force_discharge commands a discharge
\* (test_apply_override_force_discharge_publishes_discharge_setpoint): no stop
\* of what the override ended takes the command back.
ForcedDischargeStands ==
    [][Stop /\ app.fsm.mode = "force_discharge" /\ ~AtFloor(app) /\ Available(app)
       /\ app.discharge > 0 => app'.discharge > 0]_vars
=============================================================================
