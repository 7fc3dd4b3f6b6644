-------------------------- MODULE StrategyExecutor --------------------------
(***************************************************************************)
(* The real-time executor of strategy v2 (strategy/v2/executor.py): what   *)
(* one sample makes it want, before overrides and the guard have their     *)
(* say.  A positive setpoint charges, a negative one discharges; a         *)
(* positive grid power is import, a positive battery power is discharge.   *)
(*                                                                         *)
(*   s   the settings, a record with one field per key that is read        *)
(*   p   the day plan [floor, ceiling, charge, price]; the windows are the *)
(*       sets of instants they contain                                     *)
(*   st  the ExecutorState, whose soc may be Unknown                       *)
(*   x   what the executor remembers between two samples                   *)
(*                                                                         *)
(* The executor's own copy of the setpoint is left out: it is read only    *)
(* when the state has none, and the service's state always has one.        *)
(***************************************************************************)
EXTENDS Integers

Unknown == -1
Never == -1
NoSample == [net |-> 0, power |-> 0, taken |-> FALSE]

Fresh == [direction |-> 0, firstSeen |-> Never, trimmed |-> NoSample,
          dischargeBlocked |-> FALSE, chargeBlocked |-> FALSE,
          exportBlocked |-> FALSE, ceilingReached |-> FALSE]

Clamp(value, low, high) ==
    LET least == IF value < high THEN value ELSE high
    IN  IF low > least THEN low ELSE least

Magnitude(n) == IF n < 0 THEN -n ELSE n
Sign(n) == IF n > 0 THEN 1 ELSE IF n < 0 THEN -1 ELSE 0

\* The gain is a fraction; int() rounds towards zero.
Scaled(n, gain) == Sign(n) * ((Magnitude(n) * gain.num) \div gain.den)

\* A flag that rises at one threshold, falls at another and keeps in between.
Latched(flag, rise, fall) == rise \/ (flag /\ ~fall)

(***************************************************************************)
(* Limits derived from the settings.                                       *)
(***************************************************************************)
EffectiveMaxChargeW(s) ==
    IF s.maxChargeW < s.maxChargeA * s.nominalV THEN s.maxChargeW ELSE s.maxChargeA * s.nominalV

InGridChargeWindow(p, now) == now \in p.charge
InPriceDischargeWindow(p, now) == now \in p.price

(***************************************************************************)
(* The ramp: an offset of the grid must keep its sign for the hold time,   *)
(* and every step starts a new hold.                                       *)
(***************************************************************************)
RampHoldSatisfied(x, s, direction, now) ==
    /\ direction # 0
    /\ IF x.direction # direction THEN s.rampHold <= 0 ELSE now - x.firstSeen >= s.rampHold

\* Mutant: a new sign of the offset starts no hold.
RampHeldUntimed(x, s, direction, now) == [x EXCEPT !.direction = direction]

RampHeld(x, s, direction, now) ==
    [x EXCEPT !.direction = direction,
              !.firstSeen = IF direction = 0 THEN Never
                            ELSE IF x.direction # direction \/ RampHoldSatisfied(x, s, direction, now)
                                 THEN now ELSE @]

GridOffset(s, st) == st.net - s.gridTargetW
InDeadband(s, st) == Magnitude(GridOffset(s, st)) < s.rampFloorW

BalanceStep(s, p, st, now) ==
    LET delta == Clamp(Scaled(GridOffset(s, st), s.gain), -s.rampCeilingW, s.rampCeilingW)
        bias == IF InPriceDischargeWindow(p, now) THEN -s.priceBiasW ELSE 0
    IN  Clamp(st.setpoint - delta + bias, -s.maxDischargeW, EffectiveMaxChargeW(s))

BalanceCandidate(x, s, p, st, now) ==
    IF ~InDeadband(s, st) /\ RampHoldSatisfied(x, s, Sign(GridOffset(s, st)), now)
    THEN BalanceStep(s, p, st, now)
    ELSE st.setpoint

(***************************************************************************)
(* The five parts of a sample, in the code's order.                        *)
(***************************************************************************)
UpdateGridChargeCeiling(x, s, p, st, now) ==
    [x EXCEPT !.ceilingReached =
        /\ InGridChargeWindow(p, now)
        /\ IF st.soc = Unknown THEN @
           ELSE Latched(@, st.soc >= p.ceiling, st.soc <= p.ceiling - s.socBand)]

ForceGridCharge(x, p, st, now) ==
    InGridChargeWindow(p, now) /\ (st.soc = Unknown \/ ~x.ceilingReached)

Balanced(x, s, p, st, now) ==
    IF ForceGridCharge(x, p, st, now) \/ InDeadband(s, st) THEN x
    ELSE RampHeld(x, s, Sign(GridOffset(s, st)), now)

Wanted(x, s, p, st, now) ==
    IF ForceGridCharge(x, p, st, now) THEN EffectiveMaxChargeW(s)
    ELSE BalanceCandidate(x, s, p, st, now)

ExportBlocked(x, s, st) ==
    Latched(x.exportBlocked, st.net < -s.exportThresholdW,
            st.net >= -(s.exportThresholdW - s.exportHysteresisW))

\* Less discharge instead of none while the battery is discharging.
Trims(x, s, st) ==
    /\ ExportBlocked(x, s, st)
    /\ st.setpoint < 0
    /\ st.setpoint < -s.jitterW \/ st.power > s.jitterW

TrimSample(st) == [net |-> st.net, power |-> st.power, taken |-> TRUE]

ApplyExportBlock(x, s, st) ==
    [x EXCEPT !.exportBlocked = ExportBlocked(x, s, st),
              !.trimmed = IF Trims(x, s, st) THEN TrimSample(st) ELSE NoSample]

TrimDischargeDuringExport(x, s, st, candidate) ==
    IF TrimSample(st) = x.trimmed THEN st.setpoint
    ELSE LET trim == Clamp(Scaled(Magnitude(st.net), s.gain), 0, s.rampCeilingW)
             raised == IF candidate > st.setpoint + trim THEN candidate ELSE st.setpoint + trim
         IN  IF raised < 0 THEN raised ELSE 0

\* Mutant: the block holds only a battery that discharges already.
AfterExportBlockTrimming(x, s, st, candidate) ==
    IF Trims(x, s, st) THEN TrimDischargeDuringExport(x, s, st, candidate) ELSE candidate

AfterExportBlock(x, s, st, candidate) ==
    IF Trims(x, s, st) THEN TrimDischargeDuringExport(x, s, st, candidate)
    ELSE IF ExportBlocked(x, s, st) /\ candidate < 0 THEN 0
    ELSE candidate

ApplySocLimits(x, s, p, st) ==
    IF st.soc = Unknown THEN x
    ELSE [x EXCEPT !.dischargeBlocked = Latched(@, st.soc <= p.floor, st.soc >= p.floor + s.socBand),
                   !.chargeBlocked = Latched(@, st.soc >= p.ceiling, st.soc <= p.ceiling - s.socBand)]

AfterSocLimits(x, st, candidate) ==
    IF st.soc # Unknown /\ ((x.dischargeBlocked /\ candidate < 0) \/ (x.chargeBlocked /\ candidate > 0))
    THEN 0 ELSE candidate

\* A candidate near the setpoint keeps the setpoint, a blocked one too.
JitterSuppressed(s, st, candidate) ==
    IF Magnitude(candidate - st.setpoint) < s.jitterW THEN st.setpoint ELSE candidate

(***************************************************************************)
(* What the executor remembers after a sample, and the setpoint it wants.  *)
(***************************************************************************)
Ticked(x, s, p, st, now) ==
    LET counted == UpdateGridChargeCeiling(x, s, p, st, now)
    IN  ApplySocLimits(ApplyExportBlock(Balanced(counted, s, p, st, now), s, st), s, p, st)

Candidate(x, s, p, st, now) ==
    LET counted == UpdateGridChargeCeiling(x, s, p, st, now)
        blocked == AfterExportBlock(x, s, st, Wanted(counted, s, p, st, now))
        limited == AfterSocLimits(Ticked(x, s, p, st, now), st, blocked)
    IN  JitterSuppressed(s, st, limited)
=============================================================================
