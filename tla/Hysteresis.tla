----------------------------- MODULE Hysteresis -----------------------------
(***************************************************************************)
(* HysteresisController driven by its clients: grid samples (tick), manual *)
(* overrides (set_override, clear_override) and the clock.  The methods    *)
(* hold the controller's re-entrant lock from their first to their last    *)
(* line, so each is one action, whichever thread calls it.                 *)
(***************************************************************************)
EXTENDS HysteresisFsm

CONSTANT Surpluses      \* the surplus samples the meter may report, in watts

ASSUME SurplusesAreWatts == Surpluses \subseteq Int

VARIABLES
    fsm,        \* the controller's fields
    sampled,    \* has the meter reported since the clock last advanced?
    evaluated,  \* for each direction, how long every sample the controller
                \* EVALUATED has asked for it (a history, cut off like fsm)
    reported,   \* the same for every sample the meter REPORTED
    rested      \* for each direction, the time since its last cooldown began

vars == <<fsm, sampled, evaluated, reported, rested>>
history == <<evaluated, reported, rested>>

\* What a sample asks for.
Asks(surplus) ==
    [d \in Directions |-> IF d = "CHARGING" THEN surplus >= StartW
                                            ELSE surplus <= DischargeStartW]

Extended(run, surplus) ==
    [d \in Directions |-> IF Asks(surplus)[d] THEN Started(run[d]) ELSE Unset]

NoRun == [d \in Directions |-> Unset]

TypeOK ==
    /\ fsm \in Fsm
    /\ sampled \in BOOLEAN
    /\ evaluated \in [Directions -> Unset .. StartDuration]
    /\ reported \in [Directions -> Unset .. StartDuration]
    /\ rested \in [Directions -> Unset .. Cooldown]

Init ==
    /\ fsm = NewFsm
    /\ sampled = FALSE
    /\ evaluated = NoRun
    /\ reported = NoRun
    /\ rested = NoRun

-----------------------------------------------------------------------------
(* tick: a sample arrives *)

Sample(surplus) ==
    /\ fsm' = Ticked(fsm, surplus)
    /\ sampled' = TRUE
    /\ reported' = Extended(reported, surplus)
    /\ evaluated' = IF fsm'.mode = "none" THEN Extended(evaluated, surplus)
                                          ELSE evaluated
    /\ rested' = [d \in Directions |->
                    IF fsm'.state = "COOLDOWN" /\ fsm.state = d THEN 0
                    ELSE rested[d]]

SetOverride(mode, pause) ==
    /\ mode # "none"
    /\ fsm' = Overridden(fsm, mode, pause)
    /\ UNCHANGED <<sampled, history>>

ClearOverride ==
    /\ fsm' = Cleared(fsm)
    /\ UNCHANGED <<sampled, history>>

\* monotonic() advances by one unit.
Elapse ==
    /\ fsm' = Aged(fsm)
    /\ sampled' = FALSE
    /\ evaluated' = [d \in Directions |-> Older(evaluated[d], StartDuration)]
    /\ reported' = [d \in Directions |-> Older(reported[d], StartDuration)]
    /\ rested' = [d \in Directions |-> Older(rested[d], Cooldown)]

AnySample == \E surplus \in Surpluses : Sample(surplus)

Next ==
    \/ AnySample
    \/ \E mode \in Modes, pause \in Pauses : SetOverride(mode, pause)
    \/ ClearOverride
    \/ Elapse

Spec == Init /\ [][Next]_vars

\* The meter reports about once a second and time does not stop.  Nobody has
\* to set or clear an override.
FairSpec == Spec /\ WF_vars(AnySample) /\ WF_vars(Elapse)

-----------------------------------------------------------------------------
(* Safety *)

\* Every transition, both branches of every sampler, and every override leave
\* the timers in agreement with the state (see FsmInv).
TimersMatchState == FsmInv(fsm)

\* The step that starts direction d.
Start(d) == fsm.state # d /\ fsm'.state = d

\* A direction starts from IDLE, or before its opposite's cooldown is over,
\* only when every sample the controller evaluated over the whole start
\* duration asked for it: no sample for the other direction, and none in
\* between, was bridged by a timer that kept running.
StartsAreSustained ==
    [][\A d \in Directions :
         Start(d) /\ (fsm.state = "IDLE" \/ fsm.cooldownLeft > 0)
            => evaluated'[d] = StartDuration]_vars

\* The direction that is cooling down does not start again before the whole
\* cooldown has passed, whatever overrides come and go meanwhile.
NoRestartWhileResting ==
    [][\A d \in Directions :
         Start(d) /\ fsm.state = "COOLDOWN" /\ fsm.direction = d
            => rested[d] = Cooldown]_vars

\* Charging and discharging never turn into one another in one step, by
\* whatever mixture of samples and overrides.
NoDirectReversal ==
    [][~(fsm.state \in Directions /\ fsm'.state \in Directions
            /\ fsm.state # fsm'.state)]_vars

-----------------------------------------------------------------------------
(* Liveness, under FairSpec *)

\* Surplus that lasts makes the battery charge in the end, from every state
\* the controller can be in when it begins, and likewise for import: no timer
\* or cooldown is ever left in a condition that keeps the direction out.
SurplusIsFollowed ==
    \A d \in Directions :
        <>[](reported[d] # Unset /\ fsm.mode = "none") => <>[](fsm.state = d)

\* A pause that was given an end does end, unless the operator keeps asking
\* for new ones: the sample that ends it is not itself blocked by it.
PauseEnds ==
    <>[][fsm'.pauseLeft <= fsm.pauseLeft]_vars
        => []<>(fsm.mode = "pause" => fsm.pauseLeft = Unset)

\* A controller that is left alone does not stay in COOLDOWN.
CooldownEnds ==
    <>[](fsm.mode = "none") => []<>(fsm.state # "COOLDOWN")

-----------------------------------------------------------------------------
(* What the source says and the code does not do *)

\* control/hysteresis.py:29: the controller decides "based on sustained grid
\* flow".  A start timer survives the samples an override blocks, so the
\* flow the meter REPORTED need not have been sustained.
ReportedFlowSustained ==
    [][\A d \in Directions :
         Start(d) /\ fsm.state = "IDLE" => reported'[d] = StartDuration]_vars
=============================================================================
