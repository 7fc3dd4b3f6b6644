-------------------------- MODULE ChargeController --------------------------
(***************************************************************************)
(* The first strategy (strategy/charge_controller.py), which no service    *)
(* runs any more but which the package exports and its tests describe: a   *)
(* caller's thread evaluates and applies, the MQTT thread brings telemetry *)
(* and wakes the caller, which waits for it after every command.           *)
(*                                                                         *)
(* A positive setpoint discharges here, a positive battery power too.      *)
(* The lock is held for single accesses only and is left out.              *)
(***************************************************************************)
EXTENDS Integers, FiniteSetsExt

CONSTANTS
    Settings,          \* the settings, one field per key that is read
    SocLevels, BatteryPowers, GridPowers,   \* what telemetry says
    Overrides,         \* the manual overrides [floor, ceiling, lasts]
    Irradiations,      \* the forecasts of the next day
    Day,               \* the longest override, and the length of a mode
    LastTime           \* bound of the clock

\* What the settings, the telemetry and an override have are whole numbers,
\* and the limits of the battery and the jitter are not negative.
ASSUME ControllerConstants ==
    /\ {Settings.gridTarget, Settings.rampCeiling, Settings.floor, Settings.ceiling} \subseteq Int
    /\ {Settings.maxCharge, Settings.maxDischarge, Settings.jitter} \subseteq Nat
    /\ SocLevels \cup BatteryPowers \cup GridPowers \subseteq Int
    /\ \A o \in Overrides : {o.floor, o.ceiling} \subseteq Int

VARIABLES
    now,
    soc, power, grid,          \* _battery_state, _grid_power_w
    mode, stored,              \* _last_mode; the active mode in the database
    ramp,                      \* _ramp_candidate
    lastSetpoint, lastApply,   \* _last_setpoint_w, _last_apply_monotonic
    decision,                  \* the decision evaluated and not yet applied
    waiting,                   \* the decision that waits for its acknowledgement
    command                    \* the two command topics [charge, discharge]

telemetry == <<soc, power, grid>>
modes == <<mode, stored>>
applied == <<lastSetpoint, lastApply, waiting, command>>
controllerVars == <<now, telemetry, modes, ramp, decision, applied>>

Unknown == -1
Never == -1
NoMode == [name |-> "none", floor |-> 0, ceiling |-> 0, until |-> Never]
NoRamp == [direction |-> 0, since |-> Never]
NoDecision == [made |-> FALSE, setpoint |-> 0, allowed |-> FALSE, soc |-> Unknown, grid |-> 0, mode |-> NoMode]

Magnitude(n) == IF n < 0 THEN -n ELSE n
Within(low, high, n) == Max({low, Min({high, n})})

(***************************************************************************)
(* Modes.                                                                  *)
(***************************************************************************)
DefaultFloor == 20
DefaultCeiling == 90

\* Limits that cross are replaced by the defaults.
ClampMode(m) ==
    LET floor == Max({0, m.floor})
        ceiling == Min({100, m.ceiling})
    IN  IF floor >= ceiling THEN [m EXCEPT !.floor = DefaultFloor, !.ceiling = DefaultCeiling]
        ELSE [m EXCEPT !.floor = floor, !.ceiling = ceiling]

EndOfNextDay == ((now \div Day) + 2) * Day - 1

Daily(name) == [name |-> name, floor |-> Settings.floor, ceiling |-> Settings.ceiling, until |-> EndOfNextDay]

\* A mode that ended is looked up again, and found, however old it is.
ActiveMode ==
    IF mode # NoMode /\ mode.until > now THEN mode
    ELSE ClampMode(IF stored # NoMode THEN stored ELSE Daily("NORMAL"))

(***************************************************************************)
(* The decision.                                                           *)
(***************************************************************************)
Offset == grid - Settings.gridTarget
Capped(n) == Within(-Max({1, Settings.rampCeiling}), Max({1, Settings.rampCeiling}), n)
Direction == IF Offset > 0 THEN 1 ELSE -1
InRampFloor == Magnitude(Offset) < Settings.rampFloor
Held == ramp.direction = Direction /\ now - ramp.since >= Settings.rampHold

RampDelta == IF ~InRampFloor /\ (Settings.rampHold <= 0 \/ Held) THEN Capped(Offset) ELSE 0

NextRamp ==
    IF InRampFloor THEN NoRamp
    ELSE IF Settings.rampHold > 0 /\ (Held \/ ramp.direction # Direction)
         THEN [direction |-> Direction, since |-> now]
    ELSE ramp

Exporting == grid <= Settings.gridTarget
AtFloor(m) == soc # Unknown /\ soc <= m.floor
AtCeiling(m) == soc # Unknown /\ ~AtFloor(m) /\ soc >= m.ceiling

Requested == Within(-Settings.maxCharge, Settings.maxDischarge, power + RampDelta)

\* Mutant: an export is stored whatever the ceiling.
LimitedExceptExport(m) ==
    IF (Requested > 0 /\ (Exporting \/ AtFloor(m))) \/ (Requested < 0 /\ AtCeiling(m) /\ ~Exporting) THEN 0
    ELSE Requested

Limited(m) ==
    IF (Requested > 0 /\ (Exporting \/ AtFloor(m))) \/ (Requested < 0 /\ AtCeiling(m)) THEN 0
    ELSE Requested

Suppressed(w) == IF Magnitude(w - lastSetpoint) <= Settings.jitter THEN lastSetpoint ELSE w

Evaluation(m) ==
    [made |-> TRUE, setpoint |-> Suppressed(Limited(m)),
     allowed |-> ~AtFloor(m) /\ ~(Exporting /\ Requested > 0),
     soc |-> soc, grid |-> grid, mode |-> m]

Evaluate ==
    /\ ~waiting.made /\ ~decision.made
    /\ decision' = Evaluation(ActiveMode)
    /\ mode' = ActiveMode
    /\ ramp' = NextRamp
    /\ UNCHANGED <<now, telemetry, stored, applied>>

(***************************************************************************)
(* Applying it: a decision inside the debounce time is dropped.            *)
(***************************************************************************)
Debounced == lastApply # Never /\ now - lastApply < Settings.debounce

Commands(d) ==
    [charge |-> IF d.setpoint < 0 THEN -d.setpoint ELSE 0,
     discharge |-> IF d.allowed /\ d.setpoint > 0 THEN d.setpoint ELSE 0]

Drop ==
    /\ decision.made /\ Debounced
    /\ decision' = NoDecision
    /\ UNCHANGED <<now, telemetry, modes, ramp, applied>>

Apply ==
    /\ decision.made /\ ~Debounced
    /\ command' = Commands(decision)
    /\ waiting' = decision /\ decision' = NoDecision
    /\ lastApply' = now
    /\ UNCHANGED <<now, telemetry, modes, ramp, lastSetpoint>>

\* The wait ends with any telemetry of the battery (_ack_event), or without.
Applied ==
    /\ waiting.made
    /\ lastSetpoint' = waiting.setpoint
    /\ waiting' = NoDecision
    /\ UNCHANGED <<now, telemetry, modes, ramp, decision, lastApply, command>>

(***************************************************************************)
(* Telemetry, overrides and the daily recalculation.                       *)
(***************************************************************************)
BatteryState ==
    /\ \/ soc' \in SocLevels /\ UNCHANGED power
       \/ power' \in BatteryPowers /\ UNCHANGED soc
    /\ UNCHANGED <<now, grid, modes, ramp, decision, applied>>

GridReading ==
    /\ grid' \in GridPowers
    /\ UNCHANGED <<now, soc, power, modes, ramp, decision, applied>>

\* The mode is in force before the database has it, or refuses it.
Adopt(m) ==
    /\ mode' = m
    /\ stored' \in {m, stored}
    /\ UNCHANGED <<now, telemetry, ramp, decision, applied>>

Override ==
    \E o \in Overrides :
        /\ Max({0, o.floor}) < Min({100, o.ceiling})
        /\ Adopt([name |-> "MANUAL_OVERRIDE", floor |-> Max({0, o.floor}), ceiling |-> Min({100, o.ceiling}),
                  until |-> now + Min({Day, o.lasts})])

Selected(ghi) ==
    IF ghi > Settings.richGhi THEN "SOLAR_RICH" ELSE IF ghi < Settings.poorGhi THEN "SOLAR_POOR" ELSE "NORMAL"

RecalculateDaily == \E ghi \in Irradiations : Adopt(ClampMode(Daily(Selected(ghi))))

Elapse ==
    /\ now < LastTime
    /\ now' = now + 1
    /\ UNCHANGED <<telemetry, modes, ramp, decision, applied>>

ControllerInit ==
    /\ now = 0
    /\ soc = Unknown /\ power = 0 /\ grid = 0
    /\ mode = NoMode /\ stored = NoMode /\ ramp = NoRamp
    /\ lastSetpoint = 0 /\ lastApply = Never
    /\ decision = NoDecision /\ waiting = NoDecision
    /\ command = [charge |-> 0, discharge |-> 0]

ControllerNext ==
    \/ Evaluate \/ Drop \/ Apply \/ Applied
    \/ BatteryState \/ GridReading \/ Override \/ RecalculateDaily \/ Elapse

ControllerSpec == ControllerInit /\ [][ControllerNext]_controllerVars

(***************************************************************************)
(* Properties.                                                             *)
(***************************************************************************)

\* What is commanded obeys the limits its decision was made under
\* (charge_controller.py:177): no discharge at the floor, and into an export
\* or at the ceiling no more of it than the jitter suppression, which comes
\* after the limits, keeps alive.
CommandsObeyTheLimits ==
    waiting.made =>
        /\ waiting.soc # Unknown /\ waiting.soc <= waiting.mode.floor => command.discharge = 0
        /\ waiting.grid <= Settings.gridTarget => command.discharge <= Settings.jitter
        /\ waiting.soc # Unknown /\ waiting.soc >= waiting.mode.ceiling => command.charge <= Settings.jitter
        /\ command.charge = 0 \/ command.discharge = 0
        /\ command.charge <= Settings.maxCharge /\ command.discharge <= Settings.maxDischarge

\* A decision is made under a manual override only before that is over:
\* charge_controller.py:246 has an override end within 24 hours
\* of now, and :234 takes a mode for the active one before its end only.
ExpiredOverridesEnd ==
    [][decision' # decision /\ decision'.made /\ decision'.mode.name = "MANUAL_OVERRIDE"
        => now < decision'.mode.until]_controllerVars
=============================================================================
