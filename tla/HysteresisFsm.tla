--------------------------- MODULE HysteresisFsm ---------------------------
(***************************************************************************)
(* The charge/discharge state machine of control/hysteresis.py as          *)
(* operators on one record.  Each operator is what a method of             *)
(* HysteresisController makes of the controller's fields; the caller holds *)
(* the controller's lock for the whole method, so a method is one step.    *)
(*                                                                         *)
(* Time.  The code stores monotonic() instants and only ever compares      *)
(* their distance from now with a duration.  The record keeps those        *)
(* distances: chargeAge is now - _charge_since, cut off at the duration it *)
(* is compared with, and cooldownLeft is _cooldown_until - now, cut off at *)
(* 0.  Unset stands for None.  Aged lets one unit of time pass.            *)
(***************************************************************************)
EXTENDS Integers

CONSTANTS
    StartW,             \* battery.start_w
    StopW,              \* battery.stop_w
    DischargeStartW,    \* battery.discharge_start_w
    DischargeStopW,     \* battery.discharge_stop_w
    StartDuration,      \* battery.start_duration
    StopDuration,       \* battery.stop_duration
    Cooldown,           \* battery.cooldown
    PauseDurations      \* the durations a pause can be asked for

ASSUME ThresholdsAreWatts ==
    {StartW, StopW, DischargeStartW, DischargeStopW} \subseteq Int

ASSUME DurationsAreNaturals ==
    /\ StartDuration \in Nat
    /\ StopDuration \in Nat
    /\ Cooldown \in Nat
    /\ PauseDurations \subseteq Nat \ {0}

Unset == -1                      \* Python's None in a timer

States == {"IDLE", "CHARGING", "DISCHARGING", "COOLDOWN"}
Directions == {"CHARGING", "DISCHARGING"}
NoDirection == "none"
Modes == {"none", "force_on", "force_off", "force_discharge", "pause"}

\* A pause without a duration has no end (Unset).
Pauses == PauseDurations \cup {Unset}

\* Without a bound on the pause the record would not be finite for TLC.
PauseLengths == {Unset} \cup UNION {0 .. d : d \in PauseDurations}

Fsm == [state        : States,
        chargeAge    : Unset .. StartDuration,
        dischargeAge : Unset .. StartDuration,
        stopAge      : Unset .. StopDuration,
        cooldownLeft : Unset .. Cooldown,
        direction    : Directions \cup {NoDirection},
        mode         : Modes,
        pauseLeft    : PauseLengths]

\* A controller just built by reload_settings.
NewFsm == [state        |-> "IDLE",
           chargeAge    |-> Unset,
           dischargeAge |-> Unset,
           stopAge      |-> Unset,
           cooldownLeft |-> Unset,
           direction    |-> NoDirection,
           mode         |-> "none",
           pauseLeft    |-> Unset]

-----------------------------------------------------------------------------
(* Timers *)

Older(age, limit) == IF age = Unset \/ age >= limit THEN age ELSE age + 1
\* Mutant: subtracts from None.
NearerUnchecked(left) == left - 1
Nearer(left) == IF left <= 0 THEN left ELSE left - 1

\* One unit of time passes.
Aged(f) ==
    [f EXCEPT !.chargeAge    = Older(@, StartDuration),
              !.dischargeAge = Older(@, StartDuration),
              !.stopAge      = Older(@, StopDuration),
              !.cooldownLeft = Nearer(@),
              !.pauseLeft    = Nearer(@)]

\* "if since is None: since = now"
Started(age) == IF age = Unset THEN 0 ELSE age

\* "now - since >= duration" once since has been set
Sustained(age, duration) == Started(age) >= duration

-----------------------------------------------------------------------------
(* The transitions *)

\* _transition: every transition forgets the three running timers, and the
\* direction that is cooling down unless a cooldown begins.
Entered(f, s) ==
    [f EXCEPT !.state        = s,
              !.chargeAge    = Unset,
              !.dischargeAge = Unset,
              !.stopAge      = Unset,
              !.direction    = IF s = "COOLDOWN" THEN @ ELSE NoDirection]

\* Mutant: _cooldown_until is not set.
CoolingDownWithoutEnd(f) == Entered([f EXCEPT !.direction = f.state], "COOLDOWN")
CoolingDown(f) ==
    Entered([f EXCEPT !.cooldownLeft = Cooldown, !.direction = f.state], "COOLDOWN")

\* Mutant: a sample for one direction leaves the other direction's timer.
TickedIdleKeepsOther(f, surplus) ==
    IF surplus >= StartW
    THEN IF Sustained(f.chargeAge, StartDuration)
         THEN Entered(f, "CHARGING")
         ELSE [f EXCEPT !.chargeAge = Started(@)]
    ELSE IF surplus <= DischargeStartW /\ Sustained(f.dischargeAge, StartDuration)
    THEN Entered(f, "DISCHARGING")
    ELSE [f EXCEPT !.dischargeAge = IF surplus <= DischargeStartW
                                    THEN Started(@) ELSE Unset]

\* Mutant: every sample restarts the timer.
TickedIdleRestarts(f, surplus) ==
    IF surplus >= StartW THEN [f EXCEPT !.chargeAge = 0, !.dischargeAge = Unset]
    ELSE [f EXCEPT !.chargeAge = Unset, !.dischargeAge = Unset]

\* _evaluate_idle_sample(immediate=False)
TickedIdle(f, surplus) ==
    IF surplus >= StartW
    THEN IF Sustained(f.chargeAge, StartDuration)
         THEN Entered(f, "CHARGING")
         ELSE [f EXCEPT !.chargeAge = Started(@), !.dischargeAge = Unset]
    ELSE IF surplus <= DischargeStartW
    THEN IF Sustained(f.dischargeAge, StartDuration)
         THEN Entered(f, "DISCHARGING")
         ELSE [f EXCEPT !.dischargeAge = Started(@), !.chargeAge = Unset]
    ELSE [f EXCEPT !.chargeAge = Unset, !.dischargeAge = Unset]

\* _evaluate_idle_sample(immediate=True), right after the cooldown elapsed
Reevaluated(f, surplus) ==
    IF surplus >= StartW THEN Entered(f, "CHARGING")
    ELSE IF surplus <= DischargeStartW THEN Entered(f, "DISCHARGING")
    ELSE Entered(f, "IDLE")

\* Mutant: the bypass does not ask which direction is cooling down.
BypassedEitherWay(f, surplus) ==
    IF surplus >= StartW
    THEN IF Sustained(f.chargeAge, StartDuration)
         THEN Entered(f, "CHARGING")
         ELSE [f EXCEPT !.chargeAge = Started(@)]
    ELSE [f EXCEPT !.chargeAge = Unset, !.dischargeAge = Unset]

\* _cooldown_bypass_transition: only the direction that is NOT cooling down
\* may start before the cooldown is over.
Bypassed(f, surplus) ==
    IF f.direction = "DISCHARGING" /\ surplus >= StartW
    THEN IF Sustained(f.chargeAge, StartDuration)
         THEN Entered(f, "CHARGING")
         ELSE [f EXCEPT !.chargeAge = Started(@)]
    ELSE IF f.direction = "CHARGING" /\ surplus <= DischargeStartW
    THEN IF Sustained(f.dischargeAge, StartDuration)
         THEN Entered(f, "DISCHARGING")
         ELSE [f EXCEPT !.dischargeAge = Started(@)]
    ELSE [f EXCEPT !.chargeAge = Unset, !.dischargeAge = Unset]

TickedCooldown(f, surplus) ==
    IF f.cooldownLeft = 0
    THEN Reevaluated(Entered(f, "IDLE"), surplus)
    ELSE Bypassed(f, surplus)

\* _tick_charging and _tick_discharging differ in what makes them stop.
TickedActive(f, mustStop) ==
    IF ~mustStop THEN [f EXCEPT !.stopAge = Unset]
    ELSE IF Sustained(f.stopAge, StopDuration) THEN CoolingDown(f)
    ELSE [f EXCEPT !.stopAge = Started(@)]

\* clear_override
Cleared(f) == [f EXCEPT !.mode = "none", !.pauseLeft = Unset]

\* Mutant: a pause is never cleared, since the override already blocks the tick.
ResumedNever(f) == f

\* The first thing a tick does: a pause whose end has passed is cleared.
Resumed(f) == IF f.mode = "pause" /\ f.pauseLeft = 0 THEN Cleared(f) ELSE f

\* The tick of a controller that no override blocks.
Evaluated(f, surplus) ==
    CASE f.state = "COOLDOWN"    -> TickedCooldown(f, surplus)
      [] f.state = "IDLE"        -> TickedIdle(f, surplus)
      [] f.state = "CHARGING"    -> TickedActive(f, surplus < StopW)
      [] f.state = "DISCHARGING" -> TickedActive(f, surplus > DischargeStopW)

Ticked(f, surplus) ==
    IF Resumed(f).mode # "none"
    THEN Resumed(f)
    ELSE Evaluated(Resumed(f), surplus)

\* Mutant: force_discharge starts the discharge itself.
OverriddenReverses(f, mode, pause) ==
    LET g == [f EXCEPT !.mode = mode, !.pauseLeft = Unset]
    IN  IF mode = "force_discharge" THEN Entered(g, "DISCHARGING") ELSE g

\* set_override: only force_off and force_discharge end what is running.
Overridden(f, mode, pause) ==
    LET g == [f EXCEPT !.mode = mode,
                       !.pauseLeft = IF mode = "pause" THEN pause ELSE Unset]
    IN  IF mode \in {"force_off", "force_discharge"} /\ f.state \in Directions
        THEN Entered(g, "IDLE")
        ELSE g

-----------------------------------------------------------------------------
(* The invariant of the record *)

\* A timer runs only in a state whose tick reads it, the two start timers never
\* run together, a cooldown knows its direction and its end (_tick_cooldown
\* would never leave a COOLDOWN without an end), and only a pause has an end.
FsmInv(f) ==
    /\ f.chargeAge # Unset =>
         \/ f.state = "IDLE"
         \/ f.state = "COOLDOWN" /\ f.direction = "DISCHARGING"
    /\ f.dischargeAge # Unset =>
         \/ f.state = "IDLE"
         \/ f.state = "COOLDOWN" /\ f.direction = "CHARGING"
    /\ f.chargeAge = Unset \/ f.dischargeAge = Unset
    /\ f.stopAge # Unset => f.state \in Directions
    /\ f.state = "COOLDOWN" <=> f.direction # NoDirection
    /\ f.state = "COOLDOWN" => f.cooldownLeft # Unset
    /\ f.pauseLeft # Unset => f.mode = "pause"

-----------------------------------------------------------------------------
(* What control/main.py does to the controller's private fields *)

\* Mutant: the state is written and the timers are not.
ForcedKeepsTimers(f, s) == [f EXCEPT !.state = s]

\* _force_controller_idle and _force_controller_discharging: no callback
\* fires and the override is left alone.
Forced(f, s) == [Entered(f, s) EXCEPT !.cooldownLeft = Unset]

\* The callbacks _transition fires between two states.
Starts(s, t) == t \in Directions /\ t # s
Stops(s, t) == s \in Directions /\ t # s
=============================================================================
