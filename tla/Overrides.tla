------------------------------ MODULE Overrides ------------------------------
(***************************************************************************)
(* Manual overrides of strategy v2 (strategy/v2/override.py): what an      *)
(* override makes of the executor's candidate.  An override is a record    *)
(* [mode, watts, expires, exempt]; no watts are 0, which the code treats   *)
(* alike (watts or maximum), exempt is override_soc_limits.                *)
(***************************************************************************)
EXTENDS StrategyExecutor

NoOverride == [mode |-> "none", watts |-> 0, expires |-> Never, exempt |-> FALSE]

Normalized(mode) ==
    CASE mode = "force_on" -> "force_charge"
      [] mode = "force_off" -> "force_idle"
      [] OTHER -> mode

Charging == {"force_charge", "grid_charge_now"}
Idling == {"force_idle", "pause"}

ModeDirection(mode) ==
    IF mode \in Charging THEN 1 ELSE IF mode = "force_discharge" THEN -1 ELSE 0

PowerDirection(power, jitter) ==
    IF power < -jitter THEN 1 ELSE IF power > jitter THEN -1 ELSE 0

Expired(ov, now) == ov.expires # Never /\ now >= ov.expires

\* The SoC limits are lifted only for a forced direction.
BypassesSocLimits(ov) == ov.exempt /\ ModeDirection(Normalized(ov.mode)) # 0

(***************************************************************************)
(* An exempt override lasts one cycle: the battery starts to follow it,    *)
(* then no longer does.                                                    *)
(***************************************************************************)
Follows(ov, s, st) ==
    LET commanded == ModeDirection(Normalized(ov.mode))
    IN  commanded # 0 /\ PowerDirection(st.power, s.jitterW) = commanded

CycleStarts(ov, s, st) == ov.exempt /\ Follows(ov, s, st)

CycleComplete(ov, started, s, st) ==
    BypassesSocLimits(ov) /\ started /\ ~Follows(ov, s, st)

(***************************************************************************)
(* The setpoint under an override that stands.                             *)
(***************************************************************************)
AtMost(watts, most) ==
    LET asked == Magnitude(IF watts = 0 THEN most ELSE watts) IN IF asked < most THEN asked ELSE most

ForcedCharge(ov, s, p, st) ==
    IF ~ov.exempt /\ st.soc # Unknown /\ st.soc >= p.ceiling THEN 0
    ELSE AtMost(ov.watts, EffectiveMaxChargeW(s))

ForcedDischarge(ov, s, p, st) ==
    IF ~ov.exempt /\ st.soc # Unknown /\ st.soc <= p.floor THEN 0
    ELSE -AtMost(ov.watts, s.maxDischargeW)

Applied(ov, s, p, st, candidate) ==
    CASE Normalized(ov.mode) \in Idling -> 0
      [] Normalized(ov.mode) \in Charging -> ForcedCharge(ov, s, p, st)
      [] Normalized(ov.mode) = "force_discharge" -> ForcedDischarge(ov, s, p, st)
      [] OTHER -> candidate
=============================================================================
