------------------------ MODULE StrategyService_proofs ------------------------
(***************************************************************************)
(* What StrategyService keeps for every choice of settings, samples,       *)
(* commands, profiles, prices and times: the invariants and the action     *)
(* properties of the service, and that it implements SetpointPromise.      *)
(*                                                                         *)
(* The inductive invariant ServiceInv says of every attribute what numbers *)
(* it holds, and of a tick that waits for the database what stays true in  *)
(* the gap: its raw setpoint is within the limits it was made under or no  *)
(* farther out than the setpoint before it, the setpoint it has published  *)
(* is the one on the wire, and the override it ends is not in memory.      *)
(***************************************************************************)
EXTENDS StrategyService, FiniteSetTheorems, WellFoundedInduction, TLAPS

States == [net : Int, soc : Int, power : Int, voltageLow : BOOLEAN, lastSeen : Int, setpoint : Int]

Samples == [net : Int, power : Int, taken : BOOLEAN]
ExecMemories == [direction : {-1, 0, 1}, firstSeen : Int, trimmed : Samples, dischargeBlocked : BOOLEAN,
                 chargeBlocked : BOOLEAN, exportBlocked : BOOLEAN, ceilingReached : BOOLEAN]
GuardMemories == [dischargeBlocked : BOOLEAN, chargeBlocked : BOOLEAN]
Schedules == [start : Int, end : Int, floor : Int, startSoc : Int, total : Int,
              current : Int, used : Int, observed : Int]

TickRecord(t) ==
    t \in [pc : {"begun", "free", "expiring", "cycled", "logging"}, raw : Int, setpoint : Int, stamp : Int,
           seen : States, plan : {t.plan}, limits : [least : Int, most : Int]]

PlanNumbers(p) == p.floor \in Int /\ p.ceiling \in Int

Numbers ==
    /\ state \in States /\ exec \in ExecMemories /\ guard \in GuardMemories /\ schedule \in Schedules
    /\ PlanNumbers(plan) /\ \A d \in Days : dayPlans[d] # NoPlan => PlanNumbers(dayPlans[d])
    /\ TickRecord(tick)
    /\ IsFiniteSet(writes) /\ "pc" \in DOMAIN recalculation

\* A schedule belongs to a night, and never falls below its own floor.
NightInv == schedule # NoSchedule => schedule.start >= 0 /\ schedule.floor <= schedule.current

\* What a tick that lost its turn has made of the limits and the setpoint.
RawKept(t, w) ==
    /\ t.raw <= t.limits.most \/ t.raw <= w
    /\ t.limits.least <= t.raw \/ w <= t.raw
RawInv == Persisting => RawKept(tick, state.setpoint)

WireInv == /\ WireIsTheDecision
           /\ tick.pc = "logging" /\ ~unlogged => wire = tick.setpoint

RowInv ==
    ~spoiled =>
        /\ Persisting => override = NoOverride
        /\ ~Persisting /\ writes = {} => row = override
        /\ ~Persisting /\ writes # {} => writes = {override}

ServiceInv == TypeOK /\ Numbers /\ NightInv /\ RawInv /\ WireInv /\ RowInv /\ ScheduleIsForThePlan

(***************************************************************************)
(* The numbers of the executor: what one sample makes of them.             *)
(***************************************************************************)
LimitNumbers(s) ==
    /\ s.maxChargeW \in Nat /\ s.maxChargeA \in Nat /\ s.nominalV \in Nat /\ s.maxDischargeW \in Nat
ExecutorNumbers(s) ==
    /\ s.gridTargetW \in Int /\ s.rampFloorW \in Int /\ s.rampHold \in Int /\ s.rampCeilingW \in Int
    /\ s.jitterW \in Int /\ s.exportThresholdW \in Int /\ s.exportHysteresisW \in Int
    /\ s.priceBiasW \in Int /\ s.socBand \in Int /\ s.staleAfter \in Int
    /\ s.gain.num \in Int /\ s.gain.den \in Nat /\ s.gain.den # 0
PlannerNumbers(s) ==
    /\ s.floor \in Int /\ s.floorStep \in Int /\ s.leastFloor \in Int
    /\ s.ceiling \in Int /\ s.ceilingStep \in Int /\ s.mostCeiling \in Int

LEMMA SettingsNumbers ==
    ASSUME NEW s \in SettingsChoices
    PROVE  LimitNumbers(s) /\ ExecutorNumbers(s) /\ PlannerNumbers(s)
BY SettingsAssumption DEF LimitNumbers, ExecutorNumbers, PlannerNumbers

\* The limits of the settings lie on both sides of zero.
LEMMA LimitsAroundZero ==
    ASSUME NEW s, LimitNumbers(s)
    PROVE  /\ EffectiveMaxChargeW(s) \in Nat
           /\ Limits(s) \in [least : Int, most : Int] /\ Limits(s).least <= 0 /\ 0 <= Limits(s).most
<1>1. s.maxChargeA * s.nominalV \in Nat
      BY DEF LimitNumbers
<1>2. EffectiveMaxChargeW(s) \in Nat
      BY <1>1 DEF EffectiveMaxChargeW, LimitNumbers
<1>3. QED BY <1>2 DEF Limits, LimitNumbers

LEMMA ClampNumbers ==
    ASSUME NEW v \in Int, NEW low \in Int, NEW high \in Int
    PROVE  Clamp(v, low, high) \in Int /\ low <= Clamp(v, low, high)
           /\ (low <= high => Clamp(v, low, high) <= high)
BY DEF Clamp

LEMMA ScaledNumbers ==
    ASSUME NEW n \in Int, NEW gain, gain.num \in Int, gain.den \in Nat, gain.den # 0
    PROVE  Scaled(n, gain) \in Int
<1>1. Magnitude(n) * gain.num \in Int /\ Sign(n) \in Int
      BY DEF Magnitude, Sign
<1>2. (Magnitude(n) * gain.num) \div gain.den \in Int
      BY <1>1
<1>3. QED BY <1>1, <1>2 DEF Scaled

\* A step of the ramp stays within the limits; otherwise nothing changes.
LEMMA WantedWithin ==
    ASSUME NEW s, LimitNumbers(s), ExecutorNumbers(s), NEW st \in States, NEW x, NEW p, NEW t
    PROVE  LET w == Wanted(x, s, p, st, t)
           IN  w \in Int /\ (w = st.setpoint \/ (Limits(s).least <= w /\ w <= Limits(s).most))
<1> DEFINE delta == Clamp(Scaled(GridOffset(s, st), s.gain), -s.rampCeilingW, s.rampCeilingW)
           bias == IF InPriceDischargeWindow(p, t) THEN -s.priceBiasW ELSE 0
           b == BalanceStep(s, p, st, t)
<1>1. EffectiveMaxChargeW(s) \in Nat
      BY LimitsAroundZero
<1>2. GridOffset(s, st) \in Int
      BY DEF GridOffset, ExecutorNumbers, States
<1>3. Scaled(GridOffset(s, st), s.gain) \in Int
      BY <1>2, ScaledNumbers DEF ExecutorNumbers
<1>4. delta \in Int
      BY <1>3, ClampNumbers DEF ExecutorNumbers
<1>5. bias \in Int
      BY DEF ExecutorNumbers
<1>6. b = Clamp(st.setpoint - delta + bias, -s.maxDischargeW, EffectiveMaxChargeW(s))
      BY DEF BalanceStep
<1>7. b \in Int /\ -s.maxDischargeW <= b /\ b <= EffectiveMaxChargeW(s)
  <2>1. st.setpoint - delta + bias \in Int
        BY <1>4, <1>5 DEF States
  <2>2. -s.maxDischargeW \in Int /\ -s.maxDischargeW <= EffectiveMaxChargeW(s)
        BY <1>1 DEF LimitNumbers
  <2> DEFINE v == st.setpoint - delta + bias
             low == -s.maxDischargeW
             high == EffectiveMaxChargeW(s)
  <2>3. v \in Int /\ low \in Int /\ high \in Int /\ low <= high /\ b = Clamp(v, low, high)
        BY <1>1, <1>6, <2>1, <2>2
  <2> HIDE DEF v, low, high, b
  <2>4. b \in Int /\ low <= b /\ b <= high
        BY <2>3, ClampNumbers
  <2>5. QED BY <2>4 DEF low, high
<1> HIDE DEF b
<1>8. Wanted(x, s, p, st, t) \in {EffectiveMaxChargeW(s), st.setpoint, b}
      BY DEF Wanted, BalanceCandidate, b
<1>9. -s.maxDischargeW <= 0 /\ 0 <= EffectiveMaxChargeW(s) /\ st.setpoint \in Int
      BY <1>1 DEF LimitNumbers, States
<1>10. Limits(s).least = -s.maxDischargeW /\ Limits(s).most = EffectiveMaxChargeW(s) /\ -s.maxDischargeW \in Int
      BY DEF Limits, LimitNumbers
<1>11. QED BY <1>1, <1>7, <1>8, <1>9, <1>10

\* A trimmed discharge is no deeper than the setpoint it replaces.
LEMMA TrimmedNumbers ==
    ASSUME NEW s, ExecutorNumbers(s), NEW st \in States, NEW x, NEW c \in Int, Trims(x, s, st)
    PROVE  LET w == TrimDischargeDuringExport(x, s, st, c)
           IN  w \in Int /\ st.setpoint <= w /\ w <= 0 /\ st.setpoint < 0
<1> DEFINE scaled == Scaled(Magnitude(st.net), s.gain)
           trim == Clamp(scaled, 0, s.rampCeilingW)
           raised == IF c > st.setpoint + trim THEN c ELSE st.setpoint + trim
<1>1. st.setpoint \in Int /\ st.setpoint < 0
      BY DEF States, Trims
<1>2. Magnitude(st.net) \in Int
      BY DEF Magnitude, States
<1>3. trim \in Int /\ 0 <= trim
  <2>1. scaled \in Int /\ s.rampCeilingW \in Int
        BY <1>2, ScaledNumbers DEF ExecutorNumbers
  <2> HIDE DEF scaled
  <2>2. 0 <= Clamp(scaled, 0, s.rampCeilingW) /\ Clamp(scaled, 0, s.rampCeilingW) \in Int
        BY <2>1 DEF Clamp
  <2>3. QED BY <2>2
<1>4. TrimDischargeDuringExport(x, s, st, c) \in {st.setpoint, IF raised < 0 THEN raised ELSE 0}
      BY DEF TrimDischargeDuringExport
<1> HIDE DEF trim
<1>5. raised \in Int /\ st.setpoint <= raised
      BY <1>1, <1>3
<1> HIDE DEF raised
<1>6. QED BY <1>1, <1>4, <1>5

\* The setpoint the executor wants is within the limits or no farther out
\* than the setpoint there is.
LEMMA CandidateWithin ==
    ASSUME NEW s, LimitNumbers(s), ExecutorNumbers(s), NEW st \in States, NEW x, NEW p, NEW t
    PROVE  LET w == Candidate(x, s, p, st, t)
           IN  /\ w \in Int
               /\ w <= Limits(s).most \/ w <= st.setpoint
               /\ Limits(s).least <= w \/ st.setpoint <= w
<1> DEFINE counted == UpdateGridChargeCeiling(x, s, p, st, t)
           wanted == Wanted(counted, s, p, st, t)
           blocked == AfterExportBlock(x, s, st, wanted)
           limited == AfterSocLimits(Ticked(x, s, p, st, t), st, blocked)
           Near(w) == /\ w \in Int
                      /\ w <= Limits(s).most \/ w <= st.setpoint
                      /\ Limits(s).least <= w \/ st.setpoint <= w
<1>1. /\ Limits(s).least \in Int /\ Limits(s).least <= 0 /\ Limits(s).most \in Int /\ 0 <= Limits(s).most
      /\ st.setpoint \in Int
      BY LimitsAroundZero DEF States
<1>2. Near(0) /\ Near(st.setpoint)
      BY <1>1
<1>3. Near(wanted)
      BY <1>1, WantedWithin
<1> HIDE DEF wanted
<1>4. Near(blocked)
  <2>1. CASE Trims(x, s, st)
    <3>1. blocked = TrimDischargeDuringExport(x, s, st, wanted)
          BY <2>1 DEF AfterExportBlock
    <3>2. blocked \in Int /\ st.setpoint <= blocked /\ blocked <= 0
          BY <2>1, <3>1, <1>3, TrimmedNumbers
    <3>3. QED BY <3>2, <1>1
  <2>2. CASE ~Trims(x, s, st)
    <3>1. blocked = 0 \/ blocked = wanted
          BY <2>2 DEF AfterExportBlock
    <3>2. QED BY <3>1, <1>2, <1>3
  <2>3. QED BY <2>1, <2>2
<1> HIDE DEF blocked
<1>5. limited = 0 \/ limited = blocked
      BY DEF AfterSocLimits
<1>6. Near(limited)
      BY <1>5, <1>2, <1>4
<1> HIDE DEF limited
<1>7. Candidate(x, s, p, st, t) = JitterSuppressed(s, st, limited)
      BY DEF Candidate, limited, blocked, wanted
<1>8. JitterSuppressed(s, st, limited) = st.setpoint \/ JitterSuppressed(s, st, limited) = limited
      BY DEF JitterSuppressed
<1>9. Near(Candidate(x, s, p, st, t))
      BY <1>7, <1>8, <1>2, <1>6
<1>10. QED BY <1>9

\* While an export blocks it, no more discharge is wanted than there is.
LEMMA BlockedExport ==
    ASSUME NEW s, LimitNumbers(s), ExecutorNumbers(s), NEW st \in States, NEW x, NEW p, NEW t,
           ExportBlocked(x, s, st)
    PROVE  Candidate(x, s, p, st, t) >= IF st.setpoint < 0 THEN st.setpoint ELSE 0
<1> DEFINE counted == UpdateGridChargeCeiling(x, s, p, st, t)
           wanted == Wanted(counted, s, p, st, t)
           blocked == AfterExportBlock(x, s, st, wanted)
           limited == AfterSocLimits(Ticked(x, s, p, st, t), st, blocked)
           least == IF st.setpoint < 0 THEN st.setpoint ELSE 0
<1>1. st.setpoint \in Int /\ least \in Int /\ least <= 0 /\ least <= st.setpoint
      BY DEF States
<1>2. wanted \in Int
      BY WantedWithin
<1> HIDE DEF wanted
<1>3. blocked \in Int /\ least <= blocked
  <2>1. CASE Trims(x, s, st)
    <3>1. blocked = TrimDischargeDuringExport(x, s, st, wanted)
          BY <2>1 DEF AfterExportBlock
    <3>2. blocked \in Int /\ st.setpoint <= blocked
          BY <2>1, <3>1, <1>2, TrimmedNumbers
    <3>3. QED BY <3>2, <1>1
  <2>2. CASE ~Trims(x, s, st)
    <3>1. (blocked = 0 /\ wanted < 0) \/ (blocked = wanted /\ ~(wanted < 0))
          BY <2>2 DEF AfterExportBlock
    <3>2. QED BY <3>1, <1>1, <1>2
  <2>3. QED BY <2>1, <2>2
<1> HIDE DEF blocked
<1>4. limited = 0 \/ limited = blocked
      BY DEF AfterSocLimits
<1> HIDE DEF limited
<1>5. Candidate(x, s, p, st, t) = JitterSuppressed(s, st, limited)
      BY DEF Candidate, limited, blocked, wanted
<1>6. JitterSuppressed(s, st, limited) = st.setpoint \/ JitterSuppressed(s, st, limited) = limited
      BY DEF JitterSuppressed
<1> HIDE DEF least
<1>7. Candidate(x, s, p, st, t) >= least
      BY <1>1, <1>3, <1>4, <1>5, <1>6
<1>8. QED BY <1>7 DEF least

(***************************************************************************)
(* What the executor and the guard remember.                               *)
(***************************************************************************)
ExecOK(x) == x \in ExecMemories /\ (x.firstSeen = Never <=> x.direction = 0)

LEMMA FreshOK == ExecOK(Fresh)
BY DEF ExecOK, ExecMemories, Fresh, NoSample, Samples, Never

LEMMA RampHeldOK ==
    ASSUME NEW x, ExecOK(x), NEW s, NEW d \in {-1, 0, 1}, NEW t \in Nat
    PROVE  ExecOK(RampHeld(x, s, d, t))
<1> DEFINE first == IF d = 0 THEN Never ELSE IF x.direction # d \/ RampHoldSatisfied(x, s, d, t) THEN t ELSE x.firstSeen
<1>1. RampHeld(x, s, d, t) = [x EXCEPT !.direction = d, !.firstSeen = first]
      BY DEF RampHeld, ExecOK, ExecMemories
<1>2. first \in Int /\ (first = Never <=> d = 0)
      BY DEF ExecOK, ExecMemories, Never
<1> HIDE DEF first
<1>3. QED BY <1>1, <1>2 DEF ExecOK, ExecMemories

LEMMA TickedOK ==
    ASSUME NEW x, ExecOK(x), NEW s, ExecutorNumbers(s), NEW st \in States, NEW p, NEW t \in Nat
    PROVE  ExecOK(Ticked(x, s, p, st, t))
<1> DEFINE counted == UpdateGridChargeCeiling(x, s, p, st, t)
           balanced == Balanced(counted, s, p, st, t)
           trimmed == ApplyExportBlock(balanced, s, st)
<1>1. ExecOK(counted)
  <2>1. \E b \in BOOLEAN : counted = [x EXCEPT !.ceilingReached = b]
        BY DEF UpdateGridChargeCeiling, ExecOK, ExecMemories
  <2>2. QED BY <2>1 DEF ExecOK, ExecMemories
<1> HIDE DEF counted
<1>2. ExecOK(balanced)
  <2>1. GridOffset(s, st) \in Int
        BY DEF GridOffset, ExecutorNumbers, States
  <2>2. Sign(GridOffset(s, st)) \in {-1, 0, 1}
        BY <2>1 DEF Sign
  <2>3. ExecOK(RampHeld(counted, s, Sign(GridOffset(s, st)), t))
        BY <1>1, <2>2, RampHeldOK
  <2>4. QED BY <1>1, <2>3 DEF Balanced
<1> HIDE DEF balanced
<1>3. ExecOK(trimmed)
  <2>1. ExportBlocked(balanced, s, st) \in BOOLEAN
        BY DEF ExportBlocked, Latched
  <2>2. TrimSample(st) \in Samples /\ NoSample \in Samples
        BY DEF TrimSample, Samples, NoSample, States
  <2>3. \E b \in BOOLEAN, t1 \in Samples : trimmed = [balanced EXCEPT !.exportBlocked = b, !.trimmed = t1]
        BY <2>1, <2>2 DEF ApplyExportBlock
  <2>4. QED BY <1>2, <2>3 DEF ExecOK, ExecMemories
<1> HIDE DEF trimmed
<1>4. Ticked(x, s, p, st, t) = ApplySocLimits(trimmed, s, p, st)
      BY DEF Ticked, counted, balanced, trimmed
<1>5. CASE st.soc = Unknown
      BY <1>3, <1>4, <1>5 DEF ApplySocLimits
<1>6. CASE st.soc # Unknown
  <2>1. \E b, c \in BOOLEAN : ApplySocLimits(trimmed, s, p, st) = [trimmed EXCEPT !.dischargeBlocked = b, !.chargeBlocked = c]
        BY <1>3, <1>6 DEF ApplySocLimits, Latched, ExecOK, ExecMemories
  <2>2. QED BY <1>3, <1>4, <2>1 DEF ExecOK, ExecMemories
<1>7. QED BY <1>5, <1>6

LEMMA GuardMemoryOK ==
    ASSUME NEW g \in GuardMemories, NEW s, NEW st, NEW floor, NEW ceiling, NEW t, NEW skip
    PROVE  GuardMemory(g, s, st, floor, ceiling, t, skip) \in GuardMemories
<1>1. \E b, c \in BOOLEAN : Held(g, s, st, floor, ceiling) = [g EXCEPT !.dischargeBlocked = b, !.chargeBlocked = c]
      BY DEF Held, Latched, GuardMemories
<1>2. Held(g, s, st, floor, ceiling) \in GuardMemories
      BY <1>1 DEF GuardMemories
<1>3. QED BY <1>2 DEF GuardMemory

(***************************************************************************)
(* Overrides and the guard.                                                *)
(***************************************************************************)
LEMMA AtMostNumbers ==
    ASSUME NEW w \in Int, NEW most \in Nat
    PROVE  AtMost(w, most) \in Int /\ 0 <= AtMost(w, most) /\ AtMost(w, most) <= most
<1>1. Magnitude(IF w = 0 THEN most ELSE w) \in Nat
      BY DEF Magnitude
<1>2. QED BY <1>1 DEF AtMost

\* A forced setpoint is within the limits; without one the candidate stands.
LEMMA AppliedWithin ==
    ASSUME NEW ov, ov.watts \in Int, NEW s, LimitNumbers(s), NEW p, NEW st, NEW c
    PROVE  LET w == Applied(ov, s, p, st, c)
           IN  w = c \/ (w \in Int /\ Limits(s).least <= w /\ w <= Limits(s).most)
<1> DEFINE charge == AtMost(ov.watts, EffectiveMaxChargeW(s))
           discharge == AtMost(ov.watts, s.maxDischargeW)
<1>1. /\ EffectiveMaxChargeW(s) \in Nat /\ s.maxDischargeW \in Nat
      /\ Limits(s).most = EffectiveMaxChargeW(s) /\ Limits(s).least = -s.maxDischargeW
      BY LimitsAroundZero DEF Limits, LimitNumbers
<1>2. charge \in Int /\ 0 <= charge /\ charge <= EffectiveMaxChargeW(s)
      BY <1>1, AtMostNumbers
<1>3. discharge \in Int /\ 0 <= discharge /\ discharge <= s.maxDischargeW
      BY <1>1, AtMostNumbers
<1> HIDE DEF charge, discharge
<1>4. ForcedCharge(ov, s, p, st) \in {0, charge} /\ ForcedDischarge(ov, s, p, st) \in {0, -discharge}
      BY DEF ForcedCharge, ForcedDischarge, charge, discharge
<1>5. Applied(ov, s, p, st, c) \in {0, ForcedCharge(ov, s, p, st), ForcedDischarge(ov, s, p, st), c}
      BY DEF Applied
<1>6. QED BY <1>1, <1>2, <1>3, <1>4, <1>5

\* What an exempt override forces depends on the settings only.
LEMMA AppliedExempt ==
    ASSUME NEW ov, BypassesSocLimits(ov), NEW s, NEW p, NEW q, NEW st, NEW sq, NEW c, NEW d
    PROVE  Applied(ov, s, p, st, c) = Applied(ov, s, q, sq, d)
<1>1. ov.exempt /\ (Normalized(ov.mode) \in Charging \/ Normalized(ov.mode) = "force_discharge")
      BY DEF BypassesSocLimits, ModeDirection
<1>2. Normalized(ov.mode) \notin Idling
      BY <1>1 DEF Idling, Charging
<1>3. ForcedCharge(ov, s, p, st) = ForcedCharge(ov, s, q, sq)
      BY <1>1 DEF ForcedCharge
<1>4. ForcedDischarge(ov, s, p, st) = ForcedDischarge(ov, s, q, sq)
      BY <1>1 DEF ForcedDischarge
<1> DEFINE mode == Normalized(ov.mode)
<1>5. CASE mode \in Charging
  <2> mode # "force_discharge"
        BY <1>5 DEF Charging
  <2>1. Applied(ov, s, p, st, c) = ForcedCharge(ov, s, p, st)
        BY <1>2, <1>5 DEF Applied
  <2>2. Applied(ov, s, q, sq, d) = ForcedCharge(ov, s, q, sq)
        BY <1>2, <1>5 DEF Applied
  <2>3. QED BY <2>1, <2>2, <1>3
<1>6. CASE mode \notin Charging
  <2>1. mode = "force_discharge"
        BY <1>1, <1>6
  <2>2. Applied(ov, s, p, st, c) = ForcedDischarge(ov, s, p, st)
        BY <1>2, <1>6, <2>1 DEF Applied
  <2>3. Applied(ov, s, q, sq, d) = ForcedDischarge(ov, s, q, sq)
        BY <1>2, <1>6, <2>1 DEF Applied
  <2>4. QED BY <2>2, <2>3, <1>4
<1>7. QED BY <1>5, <1>6

LEMMA NothingBypasses == ~BypassesSocLimits(NoOverride) /\ NoOverride.watts \in Int
BY DEF BypassesSocLimits, NoOverride

\* The guard passes a setpoint as it is or stops the battery, and passes
\* none that the battery forbids.
LEMMA GuardedAllows ==
    ASSUME NEW g \in GuardMemories, NEW s, NEW st, NEW floor, NEW ceiling, NEW t, NEW skip, NEW w
    PROVE  LET v == Guarded(g, s, st, floor, ceiling, t, skip, w)
           IN  /\ v = w \/ v = 0
               /\ v # 0 => ~Stopped(s, st, t)
               /\ ~skip => /\ ~(st.soc # Unknown /\ st.soc <= floor /\ v < 0)
                           /\ ~(st.soc # Unknown /\ st.soc >= ceiling /\ v > 0)
<1> DEFINE v == Guarded(g, s, st, floor, ceiling, t, skip, w)
<1>1. v = w \/ v = 0
      BY DEF Guarded
<1>2. v # 0 => ~Stopped(s, st, t)
      BY DEF Guarded
<1>3. ASSUME ~skip, st.soc # Unknown, v # 0
      PROVE  v = w /\ ~HoldsBack(Held(g, s, st, floor, ceiling), w)
      BY <1>3 DEF Guarded
<1>4. ASSUME ~skip, st.soc # Unknown, v # 0
      PROVE  ~(st.soc <= floor /\ v < 0) /\ ~(st.soc >= ceiling /\ v > 0)
      BY <1>3, <1>4 DEF HoldsBack, Held, Latched, GuardMemories
<1>5. ~(0 < 0) /\ ~(0 > 0)
      OBVIOUS
<1>6. QED BY <1>1, <1>2, <1>3, <1>4, <1>5

(***************************************************************************)
(* The clock.                                                              *)
(***************************************************************************)
LEMMA Division ==
    ASSUME NEW a \in Int, NEW d \in Nat, d # 0
    PROVE  /\ a \div d \in Int /\ a % d \in Int
           /\ a = d * (a \div d) + (a % d)
           /\ 0 <= a % d /\ a % d < d
OBVIOUS

LEMMA DivisionIsMonotone ==
    ASSUME NEW a \in Int, NEW b \in Int, NEW d \in Nat, d # 0, a <= b
    PROVE  a \div d <= b \div d
<1> DEFINE m == a \div d
           n == b \div d
<1>1. m \in Int /\ n \in Int /\ d * m <= a /\ b < d * n + d
      BY Division
<1> HIDE DEF m, n
<1>2. d * m < d * (n + 1)
      BY <1>1
<1>3. SUFFICES ASSUME n + 1 <= m PROVE FALSE
      BY <1>1 DEF m, n
<1>4. d * (n + 1) <= d * m
      BY <1>1, <1>3
<1>5. QED BY <1>1, <1>2, <1>4

LEMMA SlotOfDay ==
    ASSUME NEW t \in Int
    PROVE  SlotOf(t) \in 0..((DayLength - 1) \div SlotLength)
<1>1. DayLength \in Nat /\ DayLength # 0 /\ SlotLength \in Nat /\ SlotLength # 0
      BY ClockAssumption
<1>2. t % DayLength \in Int /\ 0 <= t % DayLength /\ t % DayLength <= DayLength - 1
      BY <1>1, Division
<1>3. 0 \div SlotLength = 0
      BY <1>1
<1>4. 0 <= SlotOf(t) /\ SlotOf(t) <= (DayLength - 1) \div SlotLength
      BY <1>1, <1>2, <1>3, DivisionIsMonotone DEF SlotOf
<1>5. SlotOf(t) \in Int /\ (DayLength - 1) \div SlotLength \in Int
      BY <1>1, <1>2, Division DEF SlotOf
<1>6. QED BY <1>4, <1>5

LEMMA BoundaryIsLater ==
    ASSUME NEW t \in Int
    PROVE  NextBoundary(t) \in Int /\ t < NextBoundary(t)
<1>1. SlotLength \in Nat /\ SlotLength # 0
      BY ClockAssumption
<1> DEFINE m == t \div SlotLength
<1>2. m \in Int /\ t < SlotLength * m + SlotLength
      BY <1>1, Division
<1>3. NextBoundary(t) = (m + 1) * SlotLength
      BY DEF NextBoundary
<1> HIDE DEF m
<1>4. (m + 1) * SlotLength = SlotLength * m + SlotLength
      BY <1>1, <1>2
<1>5. QED BY <1>1, <1>2, <1>3, <1>4

\* No night starts before zero once the first morning is over.
LEMMA NightStarts ==
    ASSUME NEW t \in FirstTime..LastTime
    PROVE  NightStart(t) \in Int /\ NightEnd(t) \in Int /\ 0 <= NightStart(t)
<1>1. /\ t \in Int /\ HorizonEnd <= t /\ DayLength \in Nat /\ DayLength # 0
      /\ HorizonStart \in Nat /\ HorizonEnd \in Nat /\ 0 <= t
      BY ClockAssumption, TimeAssumption
<1> DEFINE m == t \div DayLength
<1>2. /\ m \in Int /\ t = DayLength * m + TimeOfDay(t) /\ TimeOfDay(t) \in Int
      /\ 0 <= TimeOfDay(t) /\ TimeOfDay(t) < DayLength
      BY <1>1, Division DEF TimeOfDay
<1> HIDE DEF m
<1>3. Midnight(t) = DayLength * m
      BY <1>1, <1>2 DEF Midnight
<1>4. 0 <= m
  <2>1. SUFFICES ASSUME m <= -1 PROVE FALSE
        BY <1>2
  <2>2. DayLength * m <= -DayLength
        BY <2>1, <1>1, <1>2
  <2>3. QED BY <2>2, <1>1, <1>2
<1>5. 0 <= DayLength * m /\ DayLength * m \in Int
      BY <1>1, <1>2, <1>4
<1>6. CASE InMorningTail(t)
  <2>1. m # 0
    <3>1. SUFFICES ASSUME m = 0 PROVE FALSE
          OBVIOUS
    <3>2. t = TimeOfDay(t)
          BY <3>1, <1>1, <1>2
    <3>3. QED BY <3>2, <1>1, <1>2, <1>6 DEF InMorningTail
  <2>2. DayLength <= DayLength * m
        BY <2>1, <1>1, <1>2, <1>4
  <2>3. QED BY <1>1, <1>3, <1>5, <1>6, <2>2 DEF NightStart, NightEnd
<1>7. CASE ~InMorningTail(t)
      BY <1>1, <1>3, <1>5, <1>7 DEF NightStart, NightEnd
<1>8. QED BY <1>6, <1>7

(***************************************************************************)
(* The expected consumption between two instants is a number.  Its walk is *)
(* a function that is defined by its values at later instants; that there  *)
(* is one follows by the least length for which there would be none.       *)
(***************************************************************************)
SegmentEnd(c, end) == Lower(end, NextBoundary(c))
WalkStep(usual, end, w, c) ==
    IF c >= end THEN 0 ELSE usual[SlotOf(c)] * (SegmentEnd(c, end) - c) + w[SegmentEnd(c, end)]
IsWalk(usual, start, end, w) == w = [c \in start..end |-> WalkStep(usual, end, w, c)]
ProfileNumbers(usual) == \A t \in Int : usual[SlotOf(t)] \in Int

LEMMA SegmentMovesOn ==
    ASSUME NEW end \in Int, NEW c \in Int, c < end
    PROVE  SegmentEnd(c, end) \in Int /\ c < SegmentEnd(c, end) /\ SegmentEnd(c, end) <= end
<1>1. NextBoundary(c) \in Int /\ c < NextBoundary(c)
      BY BoundaryIsLater
<1>2. QED BY <1>1 DEF SegmentEnd, Lower

LEMMA WalkExists ==
    ASSUME NEW usual, NEW end \in Int, NEW n \in Nat
    PROVE  \E w : IsWalk(usual, end - n, end, w)
<1> DEFINE Missing == {k \in Nat : ~\E w : IsWalk(usual, end - k, end, w)}
<1>1. SUFFICES ASSUME Missing # {} PROVE FALSE
      OBVIOUS
<1>2. PICK k \in Missing : \A y \in Missing : ~(<<y, k>> \in OpToRel(<, Nat))
      BY <1>1, NatLessThanWellFounded, WFMin, Zenon
<1>3. k # 0
  <2> DEFINE w == [c \in end..end |-> 0]
  <2>1. \A c \in end..end : WalkStep(usual, end, w, c) = 0
        BY DEF WalkStep
  <2>2. w = [c \in end..end |-> WalkStep(usual, end, w, c)]
        BY <2>1
  <2>3. IsWalk(usual, end - 0, end, w)
        BY <2>2 DEF IsWalk
  <2>4. QED BY <2>3
<1>4. k - 1 \in Nat /\ k - 1 < k /\ k \in Nat
      BY <1>3
<1>5. k - 1 \notin Missing
      BY <1>2, <1>4, Zenon DEF OpToRel
<1>6. PICK w : IsWalk(usual, end - (k - 1), end, w)
      BY <1>4, <1>5
<1> DEFINE from == end - k
           v == [c \in from..end |-> IF c = from THEN WalkStep(usual, end, w, c) ELSE w[c]]
<1>7. from \in Int /\ from < end /\ end - (k - 1) = from + 1
      BY <1>4, <1>3
<1>8. \A c \in (from + 1)..end : v[c] = w[c]
      BY <1>7
<1>9. \A c \in from..end : WalkStep(usual, end, v, c) = WalkStep(usual, end, w, c)
  <2> TAKE c \in from..end
  <2>1. CASE c >= end
        BY <2>1 DEF WalkStep
  <2>2. CASE ~(c >= end)
    <3>1. SegmentEnd(c, end) \in (from + 1)..end
          BY <2>2, <1>7, SegmentMovesOn
    <3>2. v[SegmentEnd(c, end)] = w[SegmentEnd(c, end)]
          BY <3>1, <1>8
    <3> HIDE DEF v
    <3>3. QED BY <2>2, <3>2 DEF WalkStep
  <2>3. QED BY <2>1, <2>2
<1>10. \A c \in (from + 1)..end : w[c] = WalkStep(usual, end, w, c)
      BY <1>6, <1>7 DEF IsWalk
<1>11. \A c \in from..end : v[c] = WalkStep(usual, end, v, c)
  <2> TAKE c \in from..end
  <2>1. CASE c = from
        BY <2>1, <1>9
  <2>2. CASE c # from
    <3>1. c \in (from + 1)..end
          BY <2>2, <1>7
    <3>2. QED BY <3>1, <1>8, <1>9, <1>10
  <2>3. QED BY <2>1, <2>2
<1>12. v = [c \in from..end |-> WalkStep(usual, end, v, c)]
  <2>1. v = [c \in from..end |-> v[c]]
        OBVIOUS
  <2> HIDE DEF v
  <2>2. QED BY <2>1, <1>11
<1>13. IsWalk(usual, end - k, end, v)
      BY <1>12 DEF IsWalk
<1>14. QED BY <1>13, <1>2

LEMMA WalkNumbers ==
    ASSUME NEW usual, ProfileNumbers(usual), NEW start \in Int, NEW end \in Int, NEW w,
           IsWalk(usual, start, end, w)
    PROVE  \A c \in start..end : w[c] \in Int
<1> DEFINE Bad == {n \in Nat : end - n \in start..end /\ w[end - n] \notin Int}
<1>1. SUFFICES ASSUME Bad # {} PROVE FALSE
  <2>1. SUFFICES ASSUME NEW c \in start..end, w[c] \notin Int PROVE Bad # {}
        OBVIOUS
  <2>2. end - c \in Nat /\ end - (end - c) = c
        OBVIOUS
  <2>3. end - c \in Bad
        BY <2>1, <2>2
  <2>4. QED BY <2>3
<1>2. PICK n \in Bad : \A y \in Bad : ~(<<y, n>> \in OpToRel(<, Nat))
      BY <1>1, NatLessThanWellFounded, WFMin, Zenon
<1> DEFINE c == end - n
<1>3. n \in Nat /\ c \in start..end /\ w[c] \notin Int
      BY <1>2
<1> HIDE DEF c
<1>4. w[c] = WalkStep(usual, end, w, c)
      BY <1>3 DEF IsWalk
<1>5. CASE c >= end
      BY <1>3, <1>4, <1>5 DEF WalkStep
<1>6. CASE c < end
  <2>1. SegmentEnd(c, end) \in Int /\ c < SegmentEnd(c, end) /\ SegmentEnd(c, end) <= end
        BY <1>3, <1>6, SegmentMovesOn
  <2> DEFINE m == end - SegmentEnd(c, end)
  <2>2. m \in Nat /\ m < n /\ end - m = SegmentEnd(c, end) /\ SegmentEnd(c, end) \in start..end
        BY <2>1, <1>3 DEF c
  <2>3. m \notin Bad
        BY <1>2, <1>3, <2>2, Zenon DEF OpToRel
  <2>4. w[SegmentEnd(c, end)] \in Int
        BY <2>2, <2>3
  <2>5. usual[SlotOf(c)] \in Int
        BY <1>3 DEF ProfileNumbers
  <2>6. w[c] = usual[SlotOf(c)] * (SegmentEnd(c, end) - c) + w[SegmentEnd(c, end)]
        BY <1>3, <1>4, <1>6 DEF WalkStep
  <2>7. usual[SlotOf(c)] * (SegmentEnd(c, end) - c) \in Int
        BY <2>1, <2>5, <1>3
  <2>8. w[c] \in Int
        BY <2>4, <2>6, <2>7
  <2>9. QED BY <1>3, <2>8
<1>7. QED BY <1>3, <1>5, <1>6

LEMMA ExpectedNumber ==
    ASSUME NEW usual, ProfileNumbers(usual), NEW start \in Int, NEW end \in Int
    PROVE  ExpectedBetween(usual, start, end) \in Int
<1>1. CASE end <= start
      BY <1>1 DEF ExpectedBetween
<1>2. CASE ~(end <= start)
  <2> DEFINE w == CHOOSE w : IsWalk(usual, start, end, w)
  <2>1. ExpectedBetween(usual, start, end) = w[start]
        BY <1>2 DEF ExpectedBetween, IsWalk, WalkStep, SegmentEnd
  <2>2. end - start \in Nat /\ end - (end - start) = start /\ start \in start..end
        BY <1>2
  <2>3. \E u : IsWalk(usual, start, end, u)
        BY <2>2, WalkExists
  <2>4. IsWalk(usual, start, end, w)
        BY <2>3
  <2> HIDE DEF w
  <2>5. QED BY <2>1, <2>2, <2>4, WalkNumbers
<1>3. QED BY <1>1, <1>2

(***************************************************************************)
(* The floor schedule.                                                     *)
(***************************************************************************)
LEMMA ProfilesHaveNumbers ==
    ASSUME NEW usual \in Profiles
    PROVE  ProfileNumbers(usual)
BY InputAssumption, SlotOfDay DEF ProfileNumbers

LEMMA BuiltNumbers ==
    ASSUME NEW usual, ProfileNumbers(usual), NEW t \in FirstTime..LastTime, NEW soc \in Int, NEW floor \in Int
    PROVE  LET f == Built(usual, t, soc, floor)
           IN  f \in Schedules /\ f.start = NightStart(t) /\ f.floor = floor /\ f.floor <= f.current
<1>1. NightStart(t) \in Int /\ NightEnd(t) \in Int /\ t \in Int
      BY NightStarts, TimeAssumption
<1>2. ExpectedBetween(usual, NightStart(t), NightEnd(t)) \in Int
      BY <1>1, ExpectedNumber
<1>3. Higher(soc, floor) \in Int /\ floor <= Higher(soc, floor)
      BY DEF Higher
<1>4. QED BY <1>1, <1>2, <1>3 DEF Built, Schedules

LEMMA ObservedNumbers ==
    ASSUME NEW f \in Schedules, NEW t \in Int, NEW load \in Int
    PROVE  LET g == Observed(f, t, load)
           IN  g \in Schedules /\ g.start = f.start /\ g.floor = f.floor /\ g.current = f.current
<1>1. f.used + Higher(0, load) * Higher(0, t - f.observed) \in Int
  <2>1. Higher(0, load) \in Int /\ Higher(0, t - f.observed) \in Int /\ f.used \in Int
        BY DEF Higher, Schedules
  <2>2. QED BY <2>1
<1>2. QED BY <1>1 DEF Observed, Schedules

LEMMA ReserveNumber ==
    ASSUME NEW f \in Schedules, NEW remaining \in Int, NEW drift \in Int
    PROVE  Reserve(f, remaining, drift) \in Int
<1>1. f.total \in Int /\ f.startSoc - f.floor \in Int
      BY DEF Schedules
<1> DEFINE budget == f.startSoc - f.floor
           parts == budget * remaining * drift
<1>2. parts \in Int
      BY <1>1
<1>3. CASE f.total > 0
  <2>1. 10 * f.total \in Nat /\ 10 * f.total # 0
        BY <1>1, <1>3
  <2>2. parts \div (10 * f.total) \in Int
        BY <1>2, <2>1, Division
  <2>3. QED BY <1>1, <1>3, <2>2 DEF Reserve, Lower
<1>4. CASE ~(f.total > 0)
      BY <1>4 DEF Reserve
<1>5. QED BY <1>3, <1>4

LEMMA DriftNumber ==
    ASSUME NEW f \in Schedules, NEW elapsed \in Int
    PROVE  Drift(f, elapsed) \in Int
<1>1. CASE elapsed > 0
  <2>1. 10 * f.used \in Int /\ elapsed \in Nat /\ elapsed # 0
        BY <1>1 DEF Schedules
  <2>2. (10 * f.used) \div elapsed \in Int
        BY <2>1, Division
  <2>3. QED BY <1>1, <2>2 DEF Drift, Lower, Higher, DriftMin, DriftMax
<1>2. CASE ~(elapsed > 0)
      BY <1>2 DEF Drift
<1>3. QED BY <1>1, <1>2

LEMMA RecomputedGlides ==
    ASSUME NEW usual, ProfileNumbers(usual), NEW f \in Schedules, NEW t \in Int, NEW soc \in Int
    PROVE  LET g == Recomputed(f, usual, t, soc)
           IN  /\ g \in Schedules /\ g.start = f.start /\ g.floor = f.floor
               /\ g.floor <= g.current
               /\ f.floor <= f.current => g.current <= f.current
               /\ g.current <= soc \/ g.current = g.floor
<1> DEFINE clamped == Lower(Higher(t, f.start), f.end)
           drift == Drift(f, ExpectedBetween(usual, f.start, clamped))
           planned == f.floor + Reserve(f, ExpectedBetween(usual, clamped, f.end), drift)
           current == Higher(f.floor, Lower(Lower(planned, soc), f.current))
<1>1. f.start \in Int /\ f.end \in Int /\ f.floor \in Int /\ f.current \in Int
      BY DEF Schedules
<1>2. clamped \in Int
      BY <1>1 DEF Lower, Higher
<1> HIDE DEF clamped
<1>3. drift \in Int
      BY <1>1, <1>2, ExpectedNumber, DriftNumber
<1> HIDE DEF drift
<1>4. planned \in Int
      BY <1>1, <1>2, <1>3, ExpectedNumber, ReserveNumber
<1>5. Recomputed(f, usual, t, soc) = [f EXCEPT !.current = current]
      BY DEF Recomputed, clamped, drift
<1> HIDE DEF planned
<1>6. /\ current \in Int /\ f.floor <= current
      /\ f.floor <= f.current => current <= f.current
      /\ current <= soc \/ current = f.floor
      BY <1>1, <1>4 DEF Lower, Higher
<1> HIDE DEF current
<1>7. QED BY <1>5, <1>6 DEF Schedules

\* What a tick makes of the schedule.
LEMMA ScheduleForGlides ==
    ASSUME TypeOK, Numbers, NightInv, NEW st \in States
    PROVE  LET f == ScheduleFor(st)
           IN  /\ f \in Schedules
               /\ f # NoSchedule => f.start >= 0 /\ f.floor <= f.current
               /\ f # NoSchedule /\ ScheduleIsForThePlan /\ recalculation.pc # "profiling" => f.floor = plan.floor
               /\ f # NoSchedule /\ f # schedule =>
                    /\ schedule.start = f.start => f.current <= schedule.current
                    /\ f.current <= st.soc \/ f.current = f.floor
<1>1. schedule \in Schedules /\ plan.floor \in Int /\ st.soc \in Int /\ now \in Int /\ now \in FirstTime..LastTime
      BY TimeAssumption DEF Numbers, PlanNumbers, TypeOK, States
<1>2. NoSchedule \in Schedules
      BY DEF NoSchedule, Schedules
<1>3. CASE profile = NoProfile
  <2>1. ScheduleFor(st) = schedule
        BY <1>3 DEF ScheduleFor
  <2>2. QED BY <1>1, <2>1 DEF NightInv, ScheduleIsForThePlan
<1>4. CASE profile # NoProfile /\ (~InHorizon(now) \/ st.soc = Unknown)
      BY <1>2, <1>4 DEF ScheduleFor
<1>5. CASE profile # NoProfile /\ ~(~InHorizon(now) \/ st.soc = Unknown)
  <2> DEFINE base == IF schedule.start # NightStart(now) THEN Built(profile, now, st.soc, plan.floor) ELSE schedule
             seen == Observed(base, now, Load(st))
             f == Recomputed(seen, profile, now, st.soc)
  <2>1. ScheduleFor(st) = f
        BY <1>5 DEF ScheduleFor
  <2>2. ProfileNumbers(profile)
        BY <1>5, ProfilesHaveNumbers DEF TypeOK
  <2>3. NightStart(now) >= 0 /\ NightStart(now) \in Int
        BY <1>1, NightStarts
  <2>4. /\ base \in Schedules /\ base.start = NightStart(now) /\ base.floor <= base.current
        /\ ScheduleIsForThePlan /\ recalculation.pc # "profiling" => base.floor = plan.floor
        /\ schedule.start = base.start => base = schedule
    <3>1. CASE schedule.start # NightStart(now)
      <4>1. base = Built(profile, now, st.soc, plan.floor)
            BY <3>1
      <4>2. QED BY <4>1, <3>1, <1>1, <2>2, BuiltNumbers
    <3>2. CASE schedule.start = NightStart(now)
      <4>1. schedule # NoSchedule
            BY <2>3, <3>2 DEF NoSchedule
      <4>2. QED BY <4>1, <3>2, <1>1 DEF NightInv, ScheduleIsForThePlan
    <3>3. QED BY <3>1, <3>2
  <2> HIDE DEF base
  <2>5. Load(st) \in Int
        BY DEF Load, States
  <2>6. seen \in Schedules /\ seen.start = base.start /\ seen.floor = base.floor /\ seen.current = base.current
        BY <1>1, <2>4, <2>5, ObservedNumbers
  <2> HIDE DEF seen
  <2>7. /\ f \in Schedules /\ f.start = seen.start /\ f.floor = seen.floor /\ f.floor <= f.current
        /\ seen.floor <= seen.current => f.current <= seen.current
        /\ f.current <= st.soc \/ f.current = f.floor
    <3> DEFINE soc == st.soc
    <3>1. seen \in Schedules /\ now \in Int /\ soc \in Int
          BY <1>1, <2>6
    <3>2. f = Recomputed(seen, profile, now, soc)
          OBVIOUS
    <3> HIDE DEF f, soc
    <3>3. /\ f \in Schedules /\ f.start = seen.start /\ f.floor = seen.floor /\ f.floor <= f.current
          /\ seen.floor <= seen.current => f.current <= seen.current
          /\ f.current <= soc \/ f.current = f.floor
          BY <2>2, <3>1, <3>2, RecomputedGlides
    <3>4. QED BY <3>3 DEF soc
  <2> HIDE DEF f
  <2>8. QED BY <2>1, <2>3, <2>4, <2>6, <2>7
<1>6. QED BY <1>3, <1>4, <1>5

(***************************************************************************)
(* The end of a tick.                                                      *)
(***************************************************************************)
Decision(t, w, st, f, skip) == Guarded(guard, settings, st, Floor(f, t), plan.ceiling, t.stamp, skip, w)

\* The tick as it is logged, and the state with a new setpoint.
LoggedTick(t, v, tick1) ==
    /\ TickRecord(tick1) /\ tick1.pc = "logging" /\ tick1.setpoint = v
    /\ tick1.stamp = t.stamp /\ tick1.limits = t.limits
SameTelemetry(st, state1) ==
    /\ state1.net = st.net /\ state1.soc = st.soc /\ state1.power = st.power
    /\ state1.voltageLow = st.voltageLow /\ state1.lastSeen = st.lastSeen

LEMMA NoTickRecord == TickRecord(NoTick) /\ NoTick.pc = "free"
BY DEF TickRecord, NoTick, Unheard, States, Unknown, Never

\* A tick ends with its decision published, logged again or only remembered.
LEMMA FinishCases ==
    ASSUME NEW t, NEW w \in Int, NEW st \in States, NEW f, NEW skip, TickRecord(t), unlogged \in BOOLEAN,
           guard \in GuardMemories, Finish(t, w, st, f, skip)
    PROVE  /\ Decision(t, w, st, f, skip) \in Int
           /\ guard' \in GuardMemories /\ unlogged' \in BOOLEAN
           /\ state' \in States /\ SameTelemetry(st, state')
           /\ \/ /\ LoggedTick(t, Decision(t, w, st, f, skip), tick')
                 /\ state' = st /\ last' = last
                 /\ \/ wire' = Decision(t, w, st, f, skip) /\ ~unlogged'
                    \/ /\ wire' = wire /\ last.made /\ last.setpoint = Decision(t, w, st, f, skip)
                       /\ unlogged' = unlogged
              \/ /\ tick' = NoTick
                 /\ last' = [made |-> TRUE, setpoint |-> Decision(t, w, st, f, skip)]
                 /\ wire' = wire /\ last.made /\ last.setpoint = Decision(t, w, st, f, skip)
                 /\ unlogged' = unlogged
<1> DEFINE v == Decision(t, w, st, f, skip)
           decided == [t EXCEPT !.setpoint = v]
           changed == ~last.made \/ v # last.setpoint
<1>0. v \in Int
  <2>1. v = w \/ v = 0
        BY GuardedAllows DEF Decision
  <2>2. QED BY <2>1
<1>1. decided.setpoint = v /\ decided.stamp = t.stamp /\ decided.raw = t.raw
      BY DEF TickRecord
<1>2. LoggedTick(t, v, [decided EXCEPT !.pc = "logging"])
  <2> HIDE DEF v
  <2>1. QED BY <1>0 DEF TickRecord, LoggedTick
<1>3. /\ guard' = GuardMemory(guard, settings, st, Floor(f, t), plan.ceiling, t.stamp, skip)
      /\ wire' = IF changed THEN v ELSE wire
      /\ unlogged' = (unlogged /\ ~changed)
      /\ \/ /\ tick' = [decided EXCEPT !.pc = "logging"] /\ state' = st /\ UNCHANGED <<last, loggedAt>>
         \/ /\ ~changed /\ Completed(decided, st, FALSE)
      BY <1>1 DEF Finish, Decision
<1>4. guard' \in GuardMemories
      BY <1>3, GuardMemoryOK
<1> HIDE DEF v
<1>5. Completed(decided, st, FALSE) =>
        /\ tick' = NoTick /\ last' = [made |-> TRUE, setpoint |-> v]
        /\ state' \in States /\ SameTelemetry(st, state')
      BY <1>0, <1>1 DEF Completed, States, SameTelemetry
<1>6. st \in States /\ SameTelemetry(st, st)
      BY DEF SameTelemetry
<1> HIDE DEF decided
<1>7. state' \in States /\ SameTelemetry(st, state')
      BY <1>3, <1>5, <1>6
<1>8. unlogged' \in BOOLEAN
      BY <1>3
<1>9. CASE changed
  <2>1. LoggedTick(t, v, tick') /\ state' = st /\ last' = last /\ wire' = v /\ ~unlogged'
        BY <1>2, <1>3, <1>9
  <2>2. QED BY <1>0, <1>4, <1>7, <1>8, <2>1 DEF v
<1>10. CASE ~changed
  <2>1. last.made /\ last.setpoint = v /\ wire' = wire /\ unlogged' = unlogged
        BY <1>3, <1>10
  <2>2. \/ LoggedTick(t, v, tick') /\ state' = st /\ last' = last
        \/ tick' = NoTick /\ last' = [made |-> TRUE, setpoint |-> v]
        BY <1>2, <1>3, <1>5, <1>10
  <2>3. QED BY <1>0, <1>4, <1>7, <1>8, <2>1, <2>2 DEF v
<1>11. QED BY <1>9, <1>10

\* The broker has what the tick decided, unless it could not be logged.
LEMMA FinishWire ==
    ASSUME NEW t, NEW w \in Int, NEW st \in States, NEW f, NEW skip, TickRecord(t), unlogged \in BOOLEAN,
           guard \in GuardMemories, WireInv, tick.pc # "logging", Finish(t, w, st, f, skip)
    PROVE  WireInv' /\ tick'.pc \in {"free", "logging"} /\ TickRecord(tick') /\ last'.made \in {TRUE, last.made}
<1> DEFINE v == Decision(t, w, st, f, skip)
<1>1. /\ unlogged' \in BOOLEAN
      /\ \/ /\ LoggedTick(t, v, tick') /\ last' = last
            /\ \/ wire' = v /\ ~unlogged'
               \/ wire' = wire /\ last.made /\ last.setpoint = v /\ unlogged' = unlogged
         \/ /\ tick' = NoTick /\ last' = [made |-> TRUE, setpoint |-> v]
            /\ wire' = wire /\ last.made /\ last.setpoint = v /\ unlogged' = unlogged
      BY FinishCases
<1> HIDE DEF v
<1>2. last.made /\ ~unlogged => wire = last.setpoint
      BY DEF WireInv, WireIsTheDecision
<1>3. CASE tick' = NoTick /\ last' = [made |-> TRUE, setpoint |-> v] /\ wire' = wire /\ last.made
           /\ last.setpoint = v /\ unlogged' = unlogged
      BY <1>2, <1>3, NoTickRecord DEF WireInv, WireIsTheDecision
<1>4. CASE LoggedTick(t, v, tick') /\ last' = last
  <2>1. ~unlogged' => wire' = v
        BY <1>1, <1>2, <1>4, NoTickRecord DEF LoggedTick
  <2>2. QED BY <1>4, <2>1 DEF WireInv, WireIsTheDecision, LoggedTick
<1>5. QED BY <1>1, <1>3, <1>4

\* A setpoint that is published is one that the battery allows.
LEMMA FinishAllowed ==
    ASSUME NEW t, NEW w \in Int, NEW st \in States, NEW f, TickRecord(t), unlogged \in BOOLEAN,
           guard \in GuardMemories, settings \in SettingsChoices,
           \/ w = t.raw /\ RawKept(t, st.setpoint)
           \/ Limits(settings).least <= w /\ w <= Limits(settings).most,
           Finish(t, w, st, f, BypassesSocLimits(override)),
           UNCHANGED <<override, settings, plan>>, schedule' = f
    PROVE  wire' = wire \/ (Promise!Allowed(wire', Known') /\ tick'.pc = "logging" /\ wire' \in {0, w})
<1> DEFINE skip == BypassesSocLimits(override)
           v == Decision(t, w, st, f, skip)
<1>1. /\ v = w \/ v = 0
      /\ v # 0 => ~Stopped(settings, st, t.stamp)
      /\ ~skip => /\ ~(st.soc # Unknown /\ st.soc <= Floor(f, t) /\ v < 0)
                  /\ ~(st.soc # Unknown /\ st.soc >= plan.ceiling /\ v > 0)
      BY GuardedAllows DEF Decision
<1>2. SUFFICES ASSUME wire' # wire
               PROVE  Promise!Allowed(wire', Known') /\ tick'.pc = "logging" /\ wire' \in {0, w}
      OBVIOUS
<1>3. LoggedTick(t, v, tick') /\ state' = st /\ wire' = v
      BY <1>2, FinishCases
<1> HIDE DEF v
<1>4. tick'.pc = "logging" /\ tick'.stamp = t.stamp /\ tick'.limits = t.limits
      BY <1>3 DEF LoggedTick
<1>5. /\ Known'.blind = Stopped(settings, st, t.stamp)
      /\ Known'.empty = (st.soc # Unknown /\ st.soc <= Floor(f, t))
      /\ Known'.full = (st.soc # Unknown /\ st.soc >= plan.ceiling)
      /\ Known'.exempt = skip
      /\ Known'.tops = {Limits(settings).most, t.limits.most, st.setpoint}
      /\ Known'.bottoms = {Limits(settings).least, t.limits.least, st.setpoint}
      BY <1>3, <1>4 DEF Known, Floor
<1>6. /\ Limits(settings).least \in Int /\ Limits(settings).least <= 0
      /\ Limits(settings).most \in Int /\ 0 <= Limits(settings).most
      BY SettingsNumbers, LimitsAroundZero
<1>7. (\E most \in Known'.tops : v <= most) /\ (\E least \in Known'.bottoms : least <= v)
      BY <1>1, <1>5, <1>6 DEF RawKept
<1>8. v # 0 => ~Known'.blind
      BY <1>1, <1>5
<1>9. ~Known'.exempt => ~(Known'.empty /\ v < 0) /\ ~(Known'.full /\ v > 0)
      BY <1>1, <1>5
<1>10. Promise!Allowed(v, Known')
      BY <1>7, <1>8, <1>9 DEF Promise!Allowed
<1>11. QED BY <1>1, <1>3, <1>4, <1>10

LEMMA OverrideWatts ==
    ASSUME TypeOK
    PROVE  \A c \in writes \cup {row, override} : c.watts \in Int
<1>1. \A m \in Commands : m.watts \in Int
      BY InputAssumption
<1>2. NoOverride.watts \in Int
      BY NothingBypasses
<1>3. QED BY <1>1, <1>2 DEF TypeOK

\* A tick under an override that stands, or that ends with its cycle.
LEMMA ApplyOverrideKeeps ==
    ASSUME ServiceInv, NEW t, NEW st \in States, NEW f, TickRecord(t), RawKept(t, st.setpoint),
           tick.pc # "logging", ApplyOverride(t, st, f)
    PROVE  /\ TickRecord(tick') /\ tick'.pc \in {"free", "cycled", "logging"}
           /\ guard' \in GuardMemories /\ {unlogged', last'.made, started'} \subseteq BOOLEAN
           /\ state' \in States /\ SameTelemetry(st, state')
           /\ tick'.pc = "cycled" => override' = NoOverride /\ RawKept(tick', state'.setpoint)
           /\ tick'.pc # "cycled" => override' = override
           /\ WireInv'
<1>1. /\ unlogged \in BOOLEAN /\ guard \in GuardMemories /\ settings \in SettingsChoices
      /\ {last.made, started} \subseteq BOOLEAN
      BY DEF ServiceInv, TypeOK, Numbers
<1>2. CASE CycleComplete(override, started, settings, t.seen)
  <2>1. /\ override' = NoOverride /\ started' = FALSE /\ tick' = [t EXCEPT !.pc = "cycled"] /\ state' = st
        /\ UNCHANGED <<guard, last, loggedAt, wire, unlogged>>
        BY <1>2 DEF ApplyOverride
  <2>2. TickRecord(tick') /\ tick'.pc = "cycled" /\ RawKept(tick', state'.setpoint)
        BY <2>1 DEF TickRecord, RawKept
  <2>3. WireInv'
        BY <2>1, <2>2 DEF ServiceInv, WireInv, WireIsTheDecision
  <2>4. QED BY <1>1, <2>1, <2>2, <2>3 DEF SameTelemetry
<1>3. CASE ~CycleComplete(override, started, settings, t.seen)
  <2> DEFINE w == Applied(override, settings, t.plan, t.seen, t.raw)
             skip == BypassesSocLimits(override)
  <2>1. /\ started' = (started \/ CycleStarts(override, settings, t.seen))
        /\ override' = override /\ Finish(t, w, st, f, skip)
        BY <1>3 DEF ApplyOverride
  <2>2. w \in Int
    <3>1. override.watts \in Int /\ LimitNumbers(settings)
          BY <1>1, OverrideWatts, SettingsNumbers DEF ServiceInv
    <3>2. t.raw \in Int
          BY DEF TickRecord
    <3>3. QED BY <3>1, <3>2, AppliedWithin
  <2> HIDE DEF w, skip
  <2>3. WireInv' /\ tick'.pc \in {"free", "logging"} /\ TickRecord(tick') /\ last'.made \in {TRUE, last.made}
        BY <1>1, <2>1, <2>2, FinishWire DEF ServiceInv
  <2>4. guard' \in GuardMemories /\ unlogged' \in BOOLEAN /\ state' \in States /\ SameTelemetry(st, state')
        BY <1>1, <2>1, <2>2, FinishCases
  <2>5. started' \in BOOLEAN
        BY <2>1
  <2>6. QED BY <1>1, <2>1, <2>3, <2>4, <2>5
<1>4. QED BY <1>2, <1>3

LEMMA ApplyOverrideAllowed ==
    ASSUME ServiceInv, NEW t, NEW st \in States, NEW f, TickRecord(t), RawKept(t, st.setpoint),
           ApplyOverride(t, st, f), UNCHANGED <<settings, plan>>, schedule' = f
    PROVE  \/ wire' = wire
           \/ /\ Promise!Allowed(wire', Known') /\ override' = override
              /\ wire' \in {0, Applied(override, settings, t.plan, t.seen, t.raw)}
<1> DEFINE w == Applied(override, settings, t.plan, t.seen, t.raw)
<1>1. unlogged \in BOOLEAN /\ guard \in GuardMemories /\ settings \in SettingsChoices
      BY DEF ServiceInv, TypeOK, Numbers
<1>2. CASE CycleComplete(override, started, settings, t.seen)
      BY <1>2 DEF ApplyOverride
<1>3. CASE ~CycleComplete(override, started, settings, t.seen)
  <2>1. override' = override /\ Finish(t, w, st, f, BypassesSocLimits(override))
        BY <1>3 DEF ApplyOverride
  <2>2. override.watts \in Int /\ LimitNumbers(settings) /\ t.raw \in Int
        BY <1>1, OverrideWatts, SettingsNumbers DEF ServiceInv, TickRecord
  <2>3. w = t.raw \/ (w \in Int /\ Limits(settings).least <= w /\ w <= Limits(settings).most)
        BY <2>2, AppliedWithin
  <2> HIDE DEF w
  <2>4. wire' = wire \/ (Promise!Allowed(wire', Known') /\ tick'.pc = "logging" /\ wire' \in {0, w})
        BY <1>1, <2>1, <2>2, <2>3, FinishAllowed
  <2>5. QED BY <2>1, <2>4 DEF w
<1>4. QED BY <1>2, <1>3

(***************************************************************************)
(* A tick begins.                                                          *)
(***************************************************************************)
LEMMA BegunTick ==
    ASSUME ServiceInv, NEW st \in States
    PROVE  TickRecord(Begun(st)) /\ RawKept(Begun(st), st.setpoint) /\ Begun(st).pc = "begun"
<1> DEFINE raw == Candidate(exec, settings, plan, st, now)
<1>1. settings \in SettingsChoices /\ now \in Int
      BY TimeAssumption DEF ServiceInv, TypeOK
<1>2. Limits(settings) \in [least : Int, most : Int] /\ LimitNumbers(settings) /\ ExecutorNumbers(settings)
      BY <1>1, SettingsNumbers, LimitsAroundZero
<1>3. /\ raw \in Int
      /\ raw <= Limits(settings).most \/ raw <= st.setpoint
      /\ Limits(settings).least <= raw \/ st.setpoint <= raw
      BY <1>2, CandidateWithin
<1> HIDE DEF raw
<1>4. Begun(st) = [pc |-> "begun", raw |-> raw, setpoint |-> 0,
              stamp |-> now, seen |-> st, plan |-> plan, limits |-> Limits(settings)]
      BY DEF Begun, raw
<1>5. QED BY <1>1, <1>2, <1>3, <1>4 DEF TickRecord, RawKept

Heard(st) ==
    /\ st \in States
    /\ st.net \in GridSamples \cup {0} /\ st.power \in BatteryPowers \cup {0}
    /\ st.soc \in SocLevels \cup {Unknown} /\ st.voltageLow \in BOOLEAN
    /\ st.lastSeen \in Never..LastTime

LEMMA StateIsHeard == ServiceInv => Heard(state)
BY DEF ServiceInv, TypeOK, Numbers, Heard

LEMMA SameTelemetryHeard ==
    ASSUME NEW st, Heard(st), NEW state1 \in States, SameTelemetry(st, state1)
    PROVE  Heard(state1)
BY DEF Heard, SameTelemetry

LEMMA BeginCases ==
    ASSUME ServiceInv, NEW st, Heard(st), tick.pc = "free", Begin(st)
    PROVE  /\ TickRecord(tick') /\ tick'.pc \in {"free", "expiring", "cycled", "logging"}
           /\ guard' \in GuardMemories /\ {unlogged', last'.made, started'} \subseteq BOOLEAN
           /\ state' \in States /\ Heard(state')
           /\ Persisting' => override' = NoOverride /\ RawKept(tick', state'.setpoint)
           /\ ~Persisting' => override' = override
           /\ WireInv'
<1>1. st \in States /\ TickRecord(Begun(st)) /\ RawKept(Begun(st), st.setpoint) /\ Begun(st).pc = "begun"
      BY BegunTick DEF Heard
<1>2. {last.made, started, unlogged} \subseteq BOOLEAN /\ guard \in GuardMemories
      BY DEF ServiceInv, TypeOK, Numbers
<1>3. CASE Expired(override, now)
  <2>1. /\ override' = NoOverride /\ started' = FALSE /\ tick' = [Begun(st) EXCEPT !.pc = "expiring"] /\ state' = st
        /\ UNCHANGED <<guard, last, loggedAt, wire, unlogged>>
        BY <1>3 DEF Begin
  <2>2. TickRecord(tick') /\ tick'.pc = "expiring" /\ RawKept(tick', state'.setpoint)
        BY <1>1, <2>1 DEF TickRecord, RawKept
  <2>3. WireInv'
        BY <2>1, <2>2 DEF ServiceInv, WireInv, WireIsTheDecision
  <2>4. QED BY <1>1, <1>2, <2>1, <2>2, <2>3 DEF Persisting
<1>4. CASE ~Expired(override, now)
  <2> DEFINE t == Begun(st)
             f == ScheduleFor(st)
  <2>1. ApplyOverride(t, st, f)
        BY <1>4 DEF Begin
  <2>2. TickRecord(t) /\ RawKept(t, st.setpoint) /\ tick.pc # "logging"
        BY <1>1
  <2> HIDE DEF t, f
  <2>3. /\ TickRecord(tick') /\ tick'.pc \in {"free", "cycled", "logging"}
        /\ guard' \in GuardMemories /\ {unlogged', last'.made, started'} \subseteq BOOLEAN
        /\ state' \in States /\ SameTelemetry(st, state')
        /\ tick'.pc = "cycled" => override' = NoOverride /\ RawKept(tick', state'.setpoint)
        /\ tick'.pc # "cycled" => override' = override
        /\ WireInv'
        BY <1>1, <2>1, <2>2, ApplyOverrideKeeps
  <2>4. Heard(state')
        BY <2>3, SameTelemetryHeard
  <2>5. QED BY <2>3, <2>4 DEF Persisting
<1>5. QED BY <1>3, <1>4

LEMMA BeginKeeps ==
    ASSUME ServiceInv, NEW st, Heard(st), tick.pc = "free", Begin(st), waiting' \in 0..MaxWaiting
    PROVE  ServiceInv'
<1>1. /\ TickRecord(tick') /\ tick'.pc \in {"free", "expiring", "cycled", "logging"}
      /\ guard' \in GuardMemories /\ {unlogged', last'.made, started'} \subseteq BOOLEAN
      /\ state' \in States /\ Heard(state')
      /\ Persisting' => override' = NoOverride /\ RawKept(tick', state'.setpoint)
      /\ ~Persisting' => override' = override
      /\ WireInv'
      BY BeginCases
<1>2. /\ exec' = Ticked(exec, settings, plan, st, now) /\ schedule' = ScheduleFor(st)
      /\ UNCHANGED <<now, plan, telemetry, store, writes, recalculation, reloading, spoiled>>
      BY DEF Begin
<1>3. TypeOK /\ Numbers /\ NightInv /\ RowInv /\ ScheduleIsForThePlan /\ st \in States
      BY DEF ServiceInv, Heard
<1>4. ExecOK(exec')
  <2>1. ExecOK(exec) /\ ExecutorNumbers(settings) /\ now \in Nat
        BY <1>3, SettingsNumbers, TimeAssumption DEF ExecOK, TypeOK, Numbers
  <2>2. QED BY <1>2, <1>3, <2>1, TickedOK
<1>5. /\ schedule' \in Schedules
      /\ schedule' # NoSchedule => schedule'.start >= 0 /\ schedule'.floor <= schedule'.current
      /\ schedule' # NoSchedule /\ recalculation.pc # "profiling" => schedule'.floor = plan.floor
      BY <1>2, <1>3, ScheduleForGlides
<1>6. TypeOK'
  <2>1. {override'} \subseteq {NoOverride, override}
        BY <1>1
  <2>2. {guard'.dischargeBlocked, guard'.chargeBlocked} \subseteq BOOLEAN
        BY <1>1 DEF GuardMemories
  <2>3. exec'.direction \in {-1, 0, 1} /\ (exec'.firstSeen = Never <=> exec'.direction = 0)
        BY <1>4 DEF ExecOK, ExecMemories
  <2>4. QED BY <1>1, <1>2, <1>3, <2>1, <2>2, <2>3 DEF TypeOK, Heard, telemetry, store
<1>7. Numbers'
      BY <1>1, <1>2, <1>3, <1>4, <1>5 DEF Numbers, ExecOK, PlanNumbers, telemetry, store
<1>8. NightInv' /\ ScheduleIsForThePlan'
      BY <1>2, <1>5 DEF NightInv, ScheduleIsForThePlan, telemetry, store
<1>9. RawInv'
      BY <1>1 DEF RawInv
<1>10. RowInv'
  <2>1. ~Persisting
        BY DEF Persisting
  <2>2. QED BY <1>1, <1>2, <1>3, <2>1 DEF RowInv, telemetry, store
<1>11. QED BY <1>1, <1>6, <1>7, <1>8, <1>9, <1>10 DEF ServiceInv

(***************************************************************************)
(* A tick whose override write was answered.                               *)
(***************************************************************************)
LEMMA ClearedRow ==
    ASSUME RowInv, Persisting, spoiled' = ((spoiled /\ override # NoOverride) \/ writes # {}), ~spoiled'
    PROVE  override = NoOverride /\ writes = {}
BY DEF RowInv

LEMMA ClearedCases ==
    ASSUME ServiceInv, OverrideCleared
    PROVE  /\ TickRecord(tick') /\ tick'.pc \in {"free", "cycled", "logging"}
           /\ guard' \in GuardMemories /\ {unlogged', last'.made, started'} \subseteq BOOLEAN
           /\ state' \in States /\ Heard(state')
           /\ Persisting' => override' = NoOverride /\ RawKept(tick', state'.setpoint)
           /\ override' \in {NoOverride, override} /\ (~Persisting' => override' = override)
           /\ WireInv'
<1>1. /\ Heard(state) /\ state \in States /\ TickRecord(tick) /\ RawKept(tick, state.setpoint)
      /\ tick.pc # "logging" /\ {last.made, started, unlogged} \subseteq BOOLEAN /\ guard \in GuardMemories
      BY StateIsHeard DEF ServiceInv, TypeOK, Numbers, RawInv, OverrideCleared, Persisting
<1>2. CASE tick.pc = "expiring"
  <2>1. ApplyOverride(tick, state, schedule)
        BY <1>2 DEF OverrideCleared
  <2>2. /\ TickRecord(tick') /\ tick'.pc \in {"free", "cycled", "logging"}
        /\ guard' \in GuardMemories /\ {unlogged', last'.made, started'} \subseteq BOOLEAN
        /\ state' \in States /\ SameTelemetry(state, state')
        /\ tick'.pc = "cycled" => override' = NoOverride /\ RawKept(tick', state'.setpoint)
        /\ tick'.pc # "cycled" => override' = override
        /\ WireInv'
        BY <1>1, <2>1, ApplyOverrideKeeps
  <2>3. QED BY <1>1, <2>2, SameTelemetryHeard DEF Persisting
<1>3. CASE tick.pc # "expiring"
  <2> DEFINE raw == tick.raw
             skip == BypassesSocLimits(override)
  <2>1. Finish(tick, raw, state, schedule, skip) /\ UNCHANGED <<override, started>>
        BY <1>3 DEF OverrideCleared
  <2>2. raw \in Int
        BY <1>1 DEF TickRecord
  <2> HIDE DEF raw, skip
  <2>3. WireInv' /\ tick'.pc \in {"free", "logging"} /\ TickRecord(tick') /\ last'.made \in {TRUE, last.made}
        BY <1>1, <2>1, <2>2, FinishWire DEF ServiceInv
  <2>4. guard' \in GuardMemories /\ unlogged' \in BOOLEAN /\ state' \in States /\ SameTelemetry(state, state')
        BY <1>1, <2>1, <2>2, FinishCases
  <2>5. QED BY <1>1, <2>1, <2>3, <2>4, SameTelemetryHeard DEF Persisting
<1>4. QED BY <1>2, <1>3

LEMMA OverrideClearedKeeps ==
    ASSUME ServiceInv, OverrideCleared
    PROVE  ServiceInv'
<1>1. /\ TickRecord(tick') /\ tick'.pc \in {"free", "cycled", "logging"}
      /\ guard' \in GuardMemories /\ {unlogged', last'.made, started'} \subseteq BOOLEAN
      /\ state' \in States /\ Heard(state')
      /\ Persisting' => override' = NoOverride /\ RawKept(tick', state'.setpoint)
      /\ override' \in {NoOverride, override} /\ (~Persisting' => override' = override)
      /\ WireInv'
      BY ClearedCases
<1>2. /\ Persisting /\ row' = NoOverride
      /\ spoiled' = ((spoiled /\ override # NoOverride) \/ writes # {})
      /\ UNCHANGED <<now, plan, exec, schedule, telemetry, dayPlans, writes, waiting, recalculation, reloading>>
      BY DEF OverrideCleared
<1>3. TypeOK /\ Numbers /\ NightInv /\ RowInv /\ ScheduleIsForThePlan
      BY DEF ServiceInv
<1>4. TypeOK'
  <2>1. {guard'.dischargeBlocked, guard'.chargeBlocked} \subseteq BOOLEAN
        BY <1>1 DEF GuardMemories
  <2>2. spoiled' \in BOOLEAN
        BY <1>2
  <2>3. \A c \in writes' \cup {row', override'} : c \in writes \cup {row, override} \/ c = NoOverride
        BY <1>1, <1>2
  <2>4. QED BY <1>1, <1>2, <1>3, <2>1, <2>2, <2>3 DEF TypeOK, Heard, telemetry
<1>5. Numbers'
      BY <1>1, <1>2, <1>3 DEF Numbers, PlanNumbers, telemetry
<1>6. NightInv' /\ ScheduleIsForThePlan'
      BY <1>2, <1>3 DEF NightInv, ScheduleIsForThePlan, telemetry
<1>7. RawInv'
      BY <1>1 DEF RawInv
<1>8. RowInv'
  <2>1. SUFFICES ASSUME ~spoiled' PROVE RowInv'
        BY DEF RowInv
  <2>2. override = NoOverride /\ writes = {}
        BY <1>2, <1>3, <2>1, ClearedRow
  <2>3. QED BY <1>1, <1>2, <2>2 DEF RowInv
<1>9. QED BY <1>1, <1>4, <1>5, <1>6, <1>7, <1>8 DEF ServiceInv

(***************************************************************************)
(* Messages and time.                                                      *)
(***************************************************************************)
LEMMA TelemetryKeeps ==
    ASSUME ServiceInv, NEW st, Heard(st), st.setpoint = state.setpoint, state' = st, waiting' \in 0..MaxWaiting,
           UNCHANGED <<now, plan, memory, telemetry, store, writes, tick, recalculation, reloading, wire, history>>
    PROVE  ServiceInv'
<1> USE DEF memory, telemetry, store, history
<1>1. TypeOK'
      BY DEF ServiceInv, TypeOK, Heard
<1>2. Numbers'
      BY DEF ServiceInv, Numbers, Heard, PlanNumbers
<1>3. NightInv' /\ ScheduleIsForThePlan'
      BY DEF ServiceInv, NightInv, ScheduleIsForThePlan
<1>4. RawInv'
      BY DEF ServiceInv, RawInv, Persisting
<1>5. WireInv' /\ RowInv'
      BY DEF ServiceInv, WireInv, WireIsTheDecision, RowInv, Persisting
<1>6. QED BY <1>1, <1>2, <1>3, <1>4, <1>5 DEF ServiceInv

LEMMA MessagesKeep ==
    ASSUME ServiceInv, BatterySoc \/ BatteryPower \/ BatteryVoltage \/ BridgeLastSeen
    PROVE  ServiceInv'
<1>1. Heard(state) /\ state \in States /\ waiting \in 0..MaxWaiting /\ now \in FirstTime..LastTime
      BY StateIsHeard DEF ServiceInv, Numbers, TypeOK
<1>2. ASSUME NEW st, Heard(st), st.setpoint = state.setpoint, Telemetry(st)
      PROVE  ServiceInv'
      BY <1>1, <1>2, TelemetryKeeps DEF Telemetry
<1>3. ASSUME NEW soc \in SocLevels, Telemetry([state EXCEPT !.soc = soc])
      PROVE  ServiceInv'
  <2> DEFINE st == [state EXCEPT !.soc = soc]
  <2>1. Heard(st) /\ st.setpoint = state.setpoint
        BY <1>1, InputAssumption DEF Heard, States
  <2> HIDE DEF st
  <2>2. QED BY <1>2, <1>3, <2>1 DEF st
<1>4. ASSUME NEW power \in BatteryPowers, Telemetry([state EXCEPT !.power = power])
      PROVE  ServiceInv'
  <2> DEFINE st == [state EXCEPT !.power = power]
  <2>1. Heard(st) /\ st.setpoint = state.setpoint
        BY <1>1, InputAssumption DEF Heard, States
  <2> HIDE DEF st
  <2>2. QED BY <1>2, <1>4, <2>1 DEF st
<1>5. ASSUME NEW low \in Voltages, Telemetry([state EXCEPT !.voltageLow = low])
      PROVE  ServiceInv'
  <2> DEFINE st == [state EXCEPT !.voltageLow = low]
  <2>1. Heard(st) /\ st.setpoint = state.setpoint
        BY <1>1, InputAssumption DEF Heard, States
  <2> HIDE DEF st
  <2>2. QED BY <1>2, <1>5, <2>1 DEF st
<1>6. ASSUME NEW age \in HeartbeatAges, age <= now, Telemetry([state EXCEPT !.lastSeen = now - age])
      PROVE  ServiceInv'
  <2> DEFINE st == [state EXCEPT !.lastSeen = now - age]
  <2>1. now - age \in Int /\ now - age \in Never..LastTime
        BY <1>1, <1>6, InputAssumption, TimeAssumption DEF Never
  <2>2. Heard(st) /\ st.setpoint = state.setpoint
        BY <1>1, <2>1 DEF Heard, States
  <2> HIDE DEF st
  <2>3. QED BY <1>2, <1>6, <2>2 DEF st
<1>7. QED BY <1>3, <1>4, <1>5, <1>6 DEF BatterySoc, BatteryPower, BatteryVoltage, BridgeLastSeen

LEMMA SampleHeard ==
    ASSUME ServiceInv, NEW net \in GridSamples
    PROVE  Heard([state EXCEPT !.net = net]) /\ [state EXCEPT !.net = net].setpoint = state.setpoint
<1>1. Heard(state) /\ state \in States
      BY StateIsHeard DEF ServiceInv, Numbers
<1>2. QED BY <1>1, InputAssumption DEF Heard, States

LEMMA SamplesKeep ==
    ASSUME ServiceInv, GridSample \/ GridSampleWaits \/ NextTick
    PROVE  ServiceInv'
<1>1. waiting \in 0..MaxWaiting /\ MaxWaiting \in Nat
      BY TimeAssumption DEF ServiceInv, TypeOK
<1>2. ASSUME NEW net \in GridSamples, TickFree, Begin([state EXCEPT !.net = net]), UNCHANGED waiting
      PROVE  ServiceInv'
  <2> DEFINE st == [state EXCEPT !.net = net]
  <2>1. Heard(st) /\ tick.pc = "free" /\ waiting' \in 0..MaxWaiting /\ Begin(st)
        BY <1>1, <1>2, SampleHeard DEF TickFree
  <2> HIDE DEF st
  <2>2. QED BY <2>1, BeginKeeps
<1>3. ASSUME NEW net \in GridSamples, waiting < MaxWaiting, waiting' = waiting + 1,
             state' = [state EXCEPT !.net = net],
             UNCHANGED <<now, plan, memory, telemetry, store, writes, tick, recalculation, reloading, wire, history>>
      PROVE  ServiceInv'
  <2> DEFINE st == [state EXCEPT !.net = net]
  <2>1. Heard(st) /\ st.setpoint = state.setpoint /\ state' = st /\ waiting' \in 0..MaxWaiting
        BY <1>1, <1>3, SampleHeard
  <2> HIDE DEF st
  <2>2. QED BY <1>3, <2>1, TelemetryKeeps
<1>4. ASSUME TickFree, waiting > 0, waiting' = waiting - 1, Begin(state)
      PROVE  ServiceInv'
  <2>1. Heard(state) /\ tick.pc = "free" /\ waiting' \in 0..MaxWaiting
        BY <1>1, <1>4, StateIsHeard DEF TickFree
  <2>2. QED BY <1>4, <2>1, BeginKeeps
<1>5. QED BY <1>2, <1>3, <1>4 DEF GridSample, GridSampleWaits, NextTick

(***************************************************************************)
(* The other steps of a tick, of overrides, of the plans and of time.      *)
(***************************************************************************)
LEMMA TradePricesKeeps ==
    ASSUME ServiceInv, TradePrices
    PROVE  ServiceInv'
<1> USE DEF TradePrices, memory, telemetry, store, history
<1>1. TypeOK'
      BY DEF ServiceInv, TypeOK
<1>2. Numbers'
      BY DEF ServiceInv, Numbers, PlanNumbers
<1>3. NightInv' /\ ScheduleIsForThePlan'
      BY DEF ServiceInv, NightInv, ScheduleIsForThePlan
<1>4. RawInv'
      BY DEF ServiceInv, RawInv, RawKept, Persisting
<1>5. WireInv'
      BY DEF ServiceInv, WireInv, WireIsTheDecision
<1>6. RowInv'
      BY DEF ServiceInv, RowInv, Persisting
<1>7. QED BY <1>1, <1>2, <1>3, <1>4, <1>5, <1>6 DEF ServiceInv

LEMMA ClearFailsKeeps ==
    ASSUME ServiceInv, ClearFails
    PROVE  ServiceInv'
<1> USE DEF ClearFails, memory, telemetry, store, history
<1>1. TypeOK'
      BY NoTickRecord DEF ServiceInv, TypeOK
<1>2. Numbers'
      BY NoTickRecord DEF ServiceInv, Numbers, PlanNumbers
<1>3. NightInv' /\ ScheduleIsForThePlan'
      BY DEF ServiceInv, NightInv, ScheduleIsForThePlan
<1>4. RawInv'
      BY DEF ServiceInv, RawInv, RawKept, Persisting, NoTick
<1>5. WireInv'
      BY NoTickRecord DEF ServiceInv, WireInv, WireIsTheDecision, Persisting
<1>6. RowInv'
      BY DEF ServiceInv, RowInv, Persisting
<1>7. QED BY <1>1, <1>2, <1>3, <1>4, <1>5, <1>6 DEF ServiceInv

LEMMA LogWrittenKeeps ==
    ASSUME ServiceInv, LogWritten
    PROVE  ServiceInv'
<1> USE DEF LogWritten, memory, telemetry, store, history
<1>1. TypeOK'
      BY NoTickRecord DEF ServiceInv, TypeOK, Completed, Numbers, States, TickRecord
<1>2. Numbers'
      BY NoTickRecord DEF ServiceInv, Numbers, PlanNumbers, Completed, States, TickRecord
<1>3. NightInv' /\ ScheduleIsForThePlan'
      BY DEF ServiceInv, NightInv, ScheduleIsForThePlan, Completed
<1>4. RawInv'
      BY DEF ServiceInv, RawInv, RawKept, Persisting, NoTick, Completed
<1>5. WireInv'
      BY NoTickRecord DEF ServiceInv, WireInv, WireIsTheDecision, Completed
<1>6. RowInv'
      BY DEF ServiceInv, RowInv, Persisting, NoTick, Completed
<1>7. QED BY <1>1, <1>2, <1>3, <1>4, <1>5, <1>6 DEF ServiceInv

LEMMA LogFailsKeeps ==
    ASSUME ServiceInv, LogFails
    PROVE  ServiceInv'
<1> USE DEF LogFails, memory, telemetry, store, history
<1>1. TypeOK'
      BY NoTickRecord DEF ServiceInv, TypeOK
<1>2. Numbers'
      BY NoTickRecord DEF ServiceInv, Numbers, PlanNumbers
<1>3. NightInv' /\ ScheduleIsForThePlan'
      BY DEF ServiceInv, NightInv, ScheduleIsForThePlan
<1>4. RawInv'
      BY DEF ServiceInv, RawInv, RawKept, Persisting, NoTick
<1>5. WireInv'
      BY NoTickRecord DEF ServiceInv, WireInv, WireIsTheDecision
<1>6. RowInv'
      BY DEF ServiceInv, RowInv, Persisting, NoTick
<1>7. QED BY <1>1, <1>2, <1>3, <1>4, <1>5, <1>6 DEF ServiceInv

LEMMA OverrideMessageKeeps ==
    ASSUME ServiceInv, OverrideMessage
    PROVE  ServiceInv'
<1> USE DEF OverrideMessage, memory, telemetry, store, history
<1>1. PICK c \in Commands : /\ override' = Command(c) /\ started' = FALSE
                              /\ writes' = writes \cup {Command(c)}
                              /\ Cardinality(writes) < MaxWrites
                              /\ spoiled' = (spoiled \/ writes # {} \/ Persisting)
      OBVIOUS
<1>2. IsFiniteSet(writes') /\ Cardinality(writes') <= MaxWrites
  <2>1. IsFiniteSet(writes) /\ Cardinality(writes) \in Nat /\ MaxWrites \in Nat
        BY FS_CardinalityType, TimeAssumption DEF ServiceInv, Numbers
  <2>2. /\ IsFiniteSet(writes \cup {Command(c)})
        /\ Cardinality(writes \cup {Command(c)}) \in {Cardinality(writes), Cardinality(writes) + 1}
        BY <2>1, FS_AddElement
  <2>3. QED BY <1>1, <2>1, <2>2
<1>3. Command(c).mode = Normalized(c.mode) /\ Command(c).watts = c.watts
      BY DEF Command
<1>4. TypeOK'
      BY <1>1, <1>2, <1>3 DEF ServiceInv, TypeOK
<1>5. Numbers'
      BY <1>2 DEF ServiceInv, Numbers, PlanNumbers
<1>6. NightInv' /\ ScheduleIsForThePlan'
      BY DEF ServiceInv, NightInv, ScheduleIsForThePlan
<1>7. RawInv'
      BY DEF ServiceInv, RawInv, RawKept, Persisting
<1>8. WireInv'
      BY DEF ServiceInv, WireInv, WireIsTheDecision
<1>9. RowInv'
      BY <1>1 DEF ServiceInv, RowInv, Persisting
<1>10. QED BY <1>4, <1>5, <1>6, <1>7, <1>8, <1>9 DEF ServiceInv

LEMMA OverridePersistedKeeps ==
    ASSUME ServiceInv, OverridePersisted
    PROVE  ServiceInv'
<1> USE DEF OverridePersisted, memory, telemetry, store, history
<1>1. PICK w \in writes : writes' = writes \ {w}
      OBVIOUS
<1>2. IsFiniteSet(writes') /\ Cardinality(writes') <= MaxWrites
  <2>1. IsFiniteSet(writes) /\ Cardinality(writes) \in Nat /\ MaxWrites \in Nat /\ Cardinality(writes) <= MaxWrites
        BY FS_CardinalityType, TimeAssumption DEF ServiceInv, Numbers, TypeOK
  <2> DEFINE left == writes \ {w}
  <2>2. IsFiniteSet(left) /\ Cardinality(left) = Cardinality(writes) - 1
        BY <2>1, FS_RemoveElement
  <2>3. writes' = left
        BY <1>1
  <2> HIDE DEF left
  <2>4. Cardinality(left) <= MaxWrites
        BY <2>1, <2>2
  <2>5. QED BY <2>2, <2>3, <2>4
<1>3. TypeOK'
      BY <1>2 DEF ServiceInv, TypeOK
<1>4. Numbers'
      BY <1>2 DEF ServiceInv, Numbers, PlanNumbers
<1>5. NightInv' /\ ScheduleIsForThePlan'
      BY DEF ServiceInv, NightInv, ScheduleIsForThePlan
<1>6. RawInv'
      BY DEF ServiceInv, RawInv, RawKept, Persisting
<1>7. WireInv'
      BY DEF ServiceInv, WireInv, WireIsTheDecision
<1>8. RowInv'
      BY DEF ServiceInv, RowInv, Persisting
<1>9. QED BY <1>3, <1>4, <1>5, <1>6, <1>7, <1>8 DEF ServiceInv

LEMMA PersistFailsKeeps ==
    ASSUME ServiceInv, PersistFails
    PROVE  ServiceInv'
<1> USE DEF PersistFails, memory, telemetry, store, history
<1>1. PICK w \in writes : writes' = writes \ {w}
      OBVIOUS
<1>2. IsFiniteSet(writes') /\ Cardinality(writes') <= MaxWrites
  <2>1. IsFiniteSet(writes) /\ Cardinality(writes) \in Nat /\ MaxWrites \in Nat /\ Cardinality(writes) <= MaxWrites
        BY FS_CardinalityType, TimeAssumption DEF ServiceInv, Numbers, TypeOK
  <2> DEFINE left == writes \ {w}
  <2>2. IsFiniteSet(left) /\ Cardinality(left) = Cardinality(writes) - 1
        BY <2>1, FS_RemoveElement
  <2>3. writes' = left
        BY <1>1
  <2> HIDE DEF left
  <2>4. Cardinality(left) <= MaxWrites
        BY <2>1, <2>2
  <2>5. QED BY <2>2, <2>3, <2>4
<1>3. TypeOK'
      BY <1>2 DEF ServiceInv, TypeOK
<1>4. Numbers'
      BY <1>2 DEF ServiceInv, Numbers, PlanNumbers
<1>5. NightInv' /\ ScheduleIsForThePlan'
      BY DEF ServiceInv, NightInv, ScheduleIsForThePlan
<1>6. RawInv'
      BY DEF ServiceInv, RawInv, RawKept, Persisting
<1>7. WireInv'
      BY DEF ServiceInv, WireInv, WireIsTheDecision
<1>8. RowInv'
      BY DEF ServiceInv, RowInv, Persisting
<1>9. QED BY <1>3, <1>4, <1>5, <1>6, <1>7, <1>8 DEF ServiceInv

LEMMA ReloadKeeps ==
    ASSUME ServiceInv, Reload
    PROVE  ServiceInv'
<1> USE DEF Reload, memory, telemetry, store, history
<1>1. TypeOK'
      BY DEF ServiceInv, TypeOK
<1>2. Numbers'
      BY DEF ServiceInv, Numbers, PlanNumbers
<1>3. NightInv' /\ ScheduleIsForThePlan'
      BY DEF ServiceInv, NightInv, ScheduleIsForThePlan
<1>4. RawInv'
      BY DEF ServiceInv, RawInv, RawKept, Persisting
<1>5. WireInv'
      BY DEF ServiceInv, WireInv, WireIsTheDecision
<1>6. RowInv'
      BY DEF ServiceInv, RowInv, Persisting
<1>7. QED BY <1>1, <1>2, <1>3, <1>4, <1>5, <1>6 DEF ServiceInv

LEMMA ReloadedKeeps ==
    ASSUME ServiceInv, Reloaded
    PROVE  ServiceInv'
<1> USE DEF memory, telemetry, store, history
<1>1. /\ settings' \in SettingsChoices /\ reloading' = FALSE
      /\ UNCHANGED <<now, plan, state, memory, prices, profile, store, writes, tick, waiting, recalculation, wire, history>>
      BY DEF ServiceInv, TypeOK, Reloaded
<1>2. TypeOK'
  <2>1. TypeOK
        BY DEF ServiceInv
  <2>2. {guard.dischargeBlocked, guard.chargeBlocked, started, last.made, unlogged, spoiled} \subseteq BOOLEAN
        BY <2>1 DEF TypeOK
  <2>3. {guard'.dischargeBlocked, guard'.chargeBlocked, started', last'.made, reloading', unlogged', spoiled'}
            \subseteq BOOLEAN
        BY <1>1, <2>2
  <2>4. QED BY <1>1, <2>1, <2>3 DEF TypeOK
<1>3. Numbers'
      BY <1>1 DEF ServiceInv, Numbers, PlanNumbers
<1>4. NightInv' /\ ScheduleIsForThePlan'
      BY <1>1 DEF ServiceInv, NightInv, ScheduleIsForThePlan
<1>5. RawInv'
      BY <1>1 DEF ServiceInv, RawInv, RawKept, Persisting
<1>6. WireInv'
      BY <1>1 DEF ServiceInv, WireInv, WireIsTheDecision
<1>7. RowInv'
      BY <1>1 DEF ServiceInv, RowInv, Persisting
<1>8. QED BY <1>2, <1>3, <1>4, <1>5, <1>6, <1>7 DEF ServiceInv

LEMMA RecalculateKeeps ==
    ASSUME ServiceInv, Recalculate
    PROVE  ServiceInv'
<1> USE DEF Recalculate, memory, telemetry, store, history
<1>1. TypeOK'
      BY DEF ServiceInv, TypeOK
<1>2. Numbers'
      BY DEF ServiceInv, Numbers, PlanNumbers
<1>3. NightInv' /\ ScheduleIsForThePlan'
      BY DEF ServiceInv, NightInv, ScheduleIsForThePlan
<1>4. RawInv'
      BY DEF ServiceInv, RawInv, RawKept, Persisting
<1>5. WireInv'
      BY DEF ServiceInv, WireInv, WireIsTheDecision
<1>6. RowInv'
      BY DEF ServiceInv, RowInv, Persisting
<1>7. QED BY <1>1, <1>2, <1>3, <1>4, <1>5, <1>6 DEF ServiceInv

LEMMA PlanFailsKeeps ==
    ASSUME ServiceInv, PlanFails
    PROVE  ServiceInv'
<1> USE DEF PlanFails, memory, telemetry, store, history
<1>1. TypeOK'
      BY DEF ServiceInv, TypeOK, NoRecalculation
<1>2. Numbers'
      BY DEF ServiceInv, Numbers, PlanNumbers, NoRecalculation
<1>3. NightInv' /\ ScheduleIsForThePlan'
      BY DEF ServiceInv, NightInv, ScheduleIsForThePlan, NoRecalculation
<1>4. RawInv'
      BY DEF ServiceInv, RawInv, RawKept, Persisting
<1>5. WireInv'
      BY DEF ServiceInv, WireInv, WireIsTheDecision
<1>6. RowInv'
      BY DEF ServiceInv, RowInv, Persisting
<1>7. QED BY <1>1, <1>2, <1>3, <1>4, <1>5, <1>6 DEF ServiceInv

LEMMA ProfileRefreshedKeeps ==
    ASSUME ServiceInv, ProfileRefreshed
    PROVE  ServiceInv'
<1> USE DEF ProfileRefreshed, memory, telemetry, store, history
<1>1. TypeOK'
      BY DEF ServiceInv, TypeOK, NoRecalculation
<1>2. Numbers'
      BY DEF ServiceInv, Numbers, PlanNumbers, NoRecalculation, Schedules, NoSchedule
<1>3. NightInv' /\ ScheduleIsForThePlan'
      BY DEF ServiceInv, NightInv, ScheduleIsForThePlan, NoRecalculation
<1>4. RawInv'
      BY DEF ServiceInv, RawInv, RawKept, Persisting
<1>5. WireInv'
      BY DEF ServiceInv, WireInv, WireIsTheDecision
<1>6. RowInv'
      BY DEF ServiceInv, RowInv, Persisting
<1>7. QED BY <1>1, <1>2, <1>3, <1>4, <1>5, <1>6 DEF ServiceInv

LEMMA ElapseKeeps ==
    ASSUME ServiceInv, Elapse
    PROVE  ServiceInv'
<1> USE DEF Elapse, memory, telemetry, store, history
<1>1. TypeOK'
      BY TimeAssumption DEF ServiceInv, TypeOK
<1>2. Numbers'
      BY DEF ServiceInv, Numbers, PlanNumbers
<1>3. NightInv' /\ ScheduleIsForThePlan'
      BY DEF ServiceInv, NightInv, ScheduleIsForThePlan
<1>4. RawInv'
      BY DEF ServiceInv, RawInv, RawKept, Persisting
<1>5. WireInv'
      BY DEF ServiceInv, WireInv, WireIsTheDecision
<1>6. RowInv'
      BY DEF ServiceInv, RowInv, Persisting
<1>7. QED BY <1>1, <1>2, <1>3, <1>4, <1>5, <1>6 DEF ServiceInv

LEMMA DayPlanNumbers ==
    ASSUME NEW s \in SettingsChoices, NEW day, NEW ghi, NEW rows
    PROVE  PlanNumbers(BuildPlan(s, day, ghi, rows)) /\ PlanNumbers(DefaultDayPlan(s, day))
<1>1. PlannerNumbers(s) /\ FullCycleCeiling \in Int
      BY SettingsNumbers, SettingsAssumption
<1>2. \A mode : PlannedFloor(s, mode) \in Int
      BY <1>1 DEF PlannedFloor, PlannerNumbers, Higher
<1>3. \A mode : PlannedCeiling(s, mode, day) \in Int
      BY <1>1 DEF PlannedCeiling, PlannerNumbers, Lower
<1>4. PlanNumbers(BuildPlan(s, day, ghi, rows))
      BY <1>2, <1>3 DEF PlanNumbers, BuildPlan
<1>5. PlanNumbers(DefaultDayPlan(s, day))
      BY <1>1 DEF PlanNumbers, DefaultDayPlan, PlannerNumbers
<1>6. QED BY <1>4, <1>5

LEMMA PlanMadeKeeps ==
    ASSUME ServiceInv, PlanMade
    PROVE  ServiceInv'
<1> USE DEF memory, telemetry, store, history
<1>1. /\ recalculation.pc = "planning" /\ PlanNumbers(plan')
      /\ dayPlans' = [dayPlans EXCEPT ![recalculation.day] = plan']
      /\ recalculation' = [recalculation EXCEPT !.pc = "profiling"]
      /\ UNCHANGED <<now, state, memory, telemetry, row, writes, tick, waiting, reloading, wire, history>>
  <2>1. settings \in SettingsChoices
        BY DEF ServiceInv, TypeOK
  <2>2. QED BY <2>1, DayPlanNumbers DEF PlanMade
<1>2. "pc" \in DOMAIN recalculation' /\ recalculation'.pc = "profiling"
      BY <1>1 DEF ServiceInv, Numbers
<1>3. TypeOK'
      BY <1>1, <1>2 DEF ServiceInv, TypeOK
<1>4. Numbers'
  <2>1. DOMAIN dayPlans = Days /\ \A d \in Days : dayPlans[d] # NoPlan => PlanNumbers(dayPlans[d])
        BY DEF ServiceInv, TypeOK, Numbers
  <2>2. \A d \in Days : dayPlans'[d] # NoPlan => PlanNumbers(dayPlans'[d])
        BY <1>1, <2>1
  <2>3. QED BY <1>1, <1>2, <2>2 DEF ServiceInv, Numbers, PlanNumbers
<1>5. NightInv'
      BY <1>1 DEF ServiceInv, NightInv
<1>6. RawInv' /\ WireInv' /\ RowInv'
      BY <1>1 DEF ServiceInv, RawInv, RawKept, Persisting, WireInv, WireIsTheDecision, RowInv
<1>7. ScheduleIsForThePlan'
      BY <1>1, <1>2 DEF ServiceInv, ScheduleIsForThePlan
<1>8. QED BY <1>3, <1>4, <1>5, <1>6, <1>7 DEF ServiceInv

(***************************************************************************)
(* The start and the restart.                                              *)
(***************************************************************************)
LEMMA UnheardOK == Heard(Unheard)
<1>1. Unheard \in States
      BY DEF Unheard, States, Unknown, Never
<1>2. QED BY <1>1, TimeAssumption DEF Heard, Unheard, Never

LEMMA DaysOfTime ==
    ASSUME NEW t \in FirstTime..LastTime
    PROVE  DayOf(t) \in Days
<1>1. DayLength \in Nat /\ DayLength # 0 /\ t \in Int /\ FirstTime \in Int /\ LastTime \in Int
      BY ClockAssumption, TimeAssumption
<1>2. DayOf(FirstTime) <= DayOf(t) /\ DayOf(t) <= DayOf(LastTime)
      BY <1>1, DivisionIsMonotone DEF DayOf
<1>3. DayOf(FirstTime) \in Int /\ DayOf(t) \in Int /\ DayOf(LastTime) \in Int
      BY <1>1, Division DEF DayOf
<1>4. QED BY <1>2, <1>3 DEF Days

LEMMA RestartKeeps ==
    ASSUME ServiceInv, Restart
    PROVE  ServiceInv'
<1>1. /\ settings' \in SettingsChoices /\ override' = row /\ plan' = PlanOf(settings', DayOf(now))
      /\ profile' \in Profiles \cup {NoProfile} /\ state' = Unheard /\ prices' = <<>>
      /\ exec' = Fresh /\ guard' = NothingBlocked /\ schedule' = NoSchedule
      /\ started' = FALSE /\ last' = NoDecision /\ tick' = NoTick /\ waiting' = 0 /\ writes' = {}
      /\ recalculation' = NoRecalculation /\ reloading' = FALSE /\ unlogged' = FALSE /\ spoiled' = FALSE
      /\ UNCHANGED <<now, row, dayPlans, wire>>
      BY DEF Restart, Started
<1>2. MaxWaiting \in Nat /\ MaxWrites \in Nat /\ IsFiniteSet({}) /\ Cardinality({}) = 0
      BY TimeAssumption, FS_EmptySet
<1>3. PlanNumbers(plan')
  <2> DEFINE d == DayOf(now)
             s == settings'
  <2>1. d \in Days /\ (dayPlans[d] # NoPlan => PlanNumbers(dayPlans[d]))
        BY DaysOfTime DEF ServiceInv, TypeOK, Numbers
  <2>2. PlanNumbers(DefaultDayPlan(s, d))
        BY <1>1, DayPlanNumbers
  <2>3. plan' = IF dayPlans[d] = NoPlan THEN DefaultDayPlan(s, d) ELSE dayPlans[d]
        BY <1>1 DEF PlanOf
  <2> HIDE DEF d, s
  <2>4. QED BY <2>1, <2>2, <2>3
<1>4. guard' \in GuardMemories /\ schedule' \in Schedules /\ ExecOK(exec') /\ Heard(state')
      BY <1>1, FreshOK, UnheardOK DEF GuardMemories, NothingBlocked, Schedules, NoSchedule
<1>5. TypeOK'
  <2>1. {guard'.dischargeBlocked, guard'.chargeBlocked} \subseteq BOOLEAN
        BY <1>4 DEF GuardMemories
  <2>2. last'.made = FALSE /\ recalculation'.pc = "idle"
        BY <1>1 DEF NoDecision, NoRecalculation
  <2>3. exec'.direction \in {-1, 0, 1} /\ (exec'.firstSeen = Never <=> exec'.direction = 0)
        BY <1>4 DEF ExecOK, ExecMemories
  <2>4. \A c \in writes' \cup {row', override'} : c \in writes \cup {row, override}
        BY <1>1
  <2>5. TypeOK /\ tick'.pc = "free" /\ waiting' \in 0..MaxWaiting /\ Cardinality(writes') <= MaxWrites
        BY <1>1, <1>2, NoTickRecord DEF ServiceInv
  <2>6. QED BY <1>1, <1>4, <2>1, <2>2, <2>3, <2>4, <2>5 DEF TypeOK, Heard
<1>6. Numbers'
  <2>1. \A d \in Days : dayPlans'[d] # NoPlan => PlanNumbers(dayPlans'[d])
        BY <1>1 DEF ServiceInv, Numbers
  <2>2. TickRecord(tick') /\ IsFiniteSet(writes')
        BY <1>1, <1>2, NoTickRecord
  <2>3. "pc" \in DOMAIN recalculation'
        BY <1>1 DEF NoRecalculation
  <2>4. QED BY <1>3, <1>4, <2>1, <2>2, <2>3 DEF Numbers, ExecOK, Heard, PlanNumbers
<1>7. NightInv' /\ ScheduleIsForThePlan'
      BY <1>1 DEF NightInv, ScheduleIsForThePlan
<1>8. RawInv' /\ WireInv'
      BY <1>1, NoTickRecord DEF RawInv, Persisting, WireInv, WireIsTheDecision, NoDecision
<1>9. RowInv'
      BY <1>1, NoTickRecord DEF RowInv, Persisting
<1>10. QED BY <1>5, <1>6, <1>7, <1>8, <1>9 DEF ServiceInv

LEMMA ServiceInit ==
    ASSUME Init
    PROVE  ServiceInv
<1>1. /\ now = FirstTime /\ settings \in SettingsChoices /\ dayPlans = [d \in Days |-> NoPlan]
      /\ plan = DefaultDayPlan(settings, DayOf(FirstTime)) /\ profile \in Profiles \cup {NoProfile}
      /\ state = Unheard /\ prices = <<>>
      /\ exec = Fresh /\ guard = NothingBlocked /\ schedule = NoSchedule
      /\ override = NoOverride /\ row = NoOverride /\ started = FALSE /\ writes = {}
      /\ last = NoDecision /\ tick = NoTick /\ waiting = 0
      /\ recalculation = NoRecalculation /\ reloading = FALSE /\ unlogged = FALSE /\ spoiled = FALSE
      BY DEF Init
<1>2. /\ MaxWaiting \in Nat /\ MaxWrites \in Nat /\ IsFiniteSet({}) /\ Cardinality({}) = 0
      /\ FirstTime \in FirstTime..LastTime
      BY TimeAssumption, FS_EmptySet
<1>3. PlanNumbers(plan)
      BY <1>1, DayPlanNumbers
<1>4. guard \in GuardMemories /\ schedule \in Schedules /\ ExecOK(exec) /\ Heard(state)
      BY <1>1, FreshOK, UnheardOK DEF GuardMemories, NothingBlocked, Schedules, NoSchedule
<1>5. TypeOK
  <2>1. {guard.dischargeBlocked, guard.chargeBlocked} \subseteq BOOLEAN
        BY <1>4 DEF GuardMemories
  <2>2. last.made = FALSE /\ recalculation.pc = "idle" /\ DOMAIN dayPlans = Days
        BY <1>1 DEF NoDecision, NoRecalculation
  <2>3. exec.direction \in {-1, 0, 1} /\ (exec.firstSeen = Never <=> exec.direction = 0)
        BY <1>4 DEF ExecOK, ExecMemories
  <2>4. tick.pc = "free" /\ waiting \in 0..MaxWaiting /\ Cardinality(writes) <= MaxWrites
        BY <1>1, <1>2, NoTickRecord
  <2>5. QED BY <1>1, <1>2, <1>4, <2>1, <2>2, <2>3, <2>4 DEF TypeOK, Heard
<1>6. Numbers
  <2>1. \A d \in Days : dayPlans[d] = NoPlan
        BY <1>1
  <2>2. TickRecord(tick) /\ IsFiniteSet(writes)
        BY <1>1, <1>2, NoTickRecord
  <2>3. "pc" \in DOMAIN recalculation
        BY <1>1 DEF NoRecalculation
  <2>4. QED BY <1>3, <1>4, <2>1, <2>2, <2>3 DEF Numbers, ExecOK, Heard
<1>7. NightInv /\ ScheduleIsForThePlan
      BY <1>1 DEF NightInv, ScheduleIsForThePlan
<1>8. RawInv /\ WireInv
      BY <1>1, NoTickRecord DEF RawInv, Persisting, WireInv, WireIsTheDecision, NoDecision
<1>9. RowInv
      BY <1>1, NoTickRecord DEF RowInv, Persisting
<1>10. QED BY <1>5, <1>6, <1>7, <1>8, <1>9 DEF ServiceInv

(***************************************************************************)
(* The invariant is inductive.                                             *)
(***************************************************************************)
LEMMA ServiceStutters ==
    ASSUME ServiceInv, UNCHANGED vars
    PROVE  ServiceInv'
<1> USE DEF vars, memory, telemetry, store, history
<1>1. TypeOK' /\ Numbers'
      BY DEF ServiceInv, TypeOK, Numbers, PlanNumbers
<1>2. NightInv' /\ RawInv' /\ WireInv' /\ RowInv' /\ ScheduleIsForThePlan'
      BY DEF ServiceInv, NightInv, RawInv, RawKept, Persisting, WireInv, WireIsTheDecision, RowInv, ScheduleIsForThePlan
<1>3. QED BY <1>1, <1>2 DEF ServiceInv

LEMMA ServiceStep == ServiceInv /\ [Next]_vars => ServiceInv'
<1> SUFFICES ASSUME ServiceInv, [Next]_vars PROVE ServiceInv'
    OBVIOUS
<1>1. CASE UNCHANGED vars
      BY <1>1, ServiceStutters
<1>2. CASE BatterySoc \/ BatteryPower \/ BatteryVoltage \/ BridgeLastSeen
      BY <1>2, MessagesKeep
<1>3. CASE GridSample \/ GridSampleWaits \/ NextTick
      BY <1>3, SamplesKeep
<1>4. CASE OverrideCleared \/ ClearFails \/ LogWritten \/ LogFails
      BY <1>4, OverrideClearedKeeps, ClearFailsKeeps, LogWrittenKeeps, LogFailsKeeps
<1>5. CASE OverrideMessage \/ OverridePersisted \/ PersistFails
      BY <1>5, OverrideMessageKeeps, OverridePersistedKeeps, PersistFailsKeeps
<1>6. CASE Reload \/ Reloaded \/ Recalculate \/ PlanMade \/ PlanFails \/ ProfileRefreshed \/ TradePrices
      BY <1>6, ReloadKeeps, ReloadedKeeps, RecalculateKeeps, PlanMadeKeeps, PlanFailsKeeps,
         ProfileRefreshedKeeps, TradePricesKeeps
<1>7. CASE Elapse \/ Restart
      BY <1>7, ElapseKeeps, RestartKeeps
<1>8. QED BY <1>1, <1>2, <1>3, <1>4, <1>5, <1>6, <1>7 DEF Next

LEMMA ServiceInvariance == Spec => []ServiceInv
<1>1. Init => ServiceInv
      BY ServiceInit
<1>2. QED BY <1>1, ServiceStep, PTL DEF Spec

(***************************************************************************)
(* The theorems.                                                           *)
(***************************************************************************)

\* Whatever the order of messages, ticks, answers of the database, reloads
\* and restarts, every attribute of the service and every row keeps its type.
THEOREM ServiceTypesHold == Spec => []TypeOK
BY ServiceInvariance, PTL DEF ServiceInv

\* Between ticks the broker has the last decision (service.py:176), unless
\* the decision could not be logged after it was published.
THEOREM WireStaysTheDecision == Spec => []WireIsTheDecision
BY ServiceInvariance, PTL DEF ServiceInv, WireInv

\* The row a restart loads (override.py:32) is the override in force, unless
\* a write failed or overlapped another one.
THEOREM RowStaysTheOverride == Spec => []RowFollowsOverride
<1>1. ServiceInv => RowFollowsOverride
      BY DEF ServiceInv, RowInv, RowFollowsOverride
<1>2. QED BY <1>1, ServiceInvariance, PTL

\* The guard's floor is that of the plan in force (soc_guard.py:27), except
\* while a recalculation that has put its plan in force awaits the profile.
THEOREM ScheduleStaysForThePlan == Spec => []ScheduleIsForThePlan
BY ServiceInvariance, PTL DEF ServiceInv

\* While an export blocks it (executor.py:91), no sample makes the executor
\* ask for more discharge than is set already.
THEOREM ExportsNeverDeepen == Spec => []ExportNeverDeepens
<1>1. ServiceInv => ExportNeverDeepens
  <2> SUFFICES ASSUME ServiceInv, NEW net \in GridSamples, ExportBlocked(exec, settings, [state EXCEPT !.net = net])
               PROVE  Candidate(exec, settings, plan, [state EXCEPT !.net = net], now)
                        >= IF [state EXCEPT !.net = net].setpoint < 0 THEN [state EXCEPT !.net = net].setpoint ELSE 0
      BY SampleHeard DEF ExportNeverDeepens
  <2> DEFINE st == [state EXCEPT !.net = net]
  <2>1. Heard(st) /\ st \in States
        BY SampleHeard DEF Heard
  <2>2. LimitNumbers(settings) /\ ExecutorNumbers(settings) /\ ExportBlocked(exec, settings, st)
        BY SettingsNumbers DEF ServiceInv, TypeOK
  <2> HIDE DEF st
  <2>3. Candidate(exec, settings, plan, st, now) >= IF st.setpoint < 0 THEN st.setpoint ELSE 0
        BY <2>1, <2>2, BlockedExport
  <2>4. QED BY <2>3 DEF st
<1>2. QED BY <1>1, ServiceInvariance, PTL

(***************************************************************************)
(* Every setpoint that is published is one the battery allows.             *)
(***************************************************************************)
OverrideDecided == \E p, st, c : wire' \in {0, Applied(override, settings, p, st, c)}
DecidedInForce == UNCHANGED <<override, settings>> /\ OverrideDecided

LEMMA BeginAllowed ==
    ASSUME ServiceInv, NEW st, Heard(st), Begin(st)
    PROVE  wire' = wire \/ (Promise!Allowed(wire', Known') /\ DecidedInForce)
<1>1. schedule' = ScheduleFor(st) /\ UNCHANGED <<settings, plan>>
      BY DEF Begin, telemetry
<1>2. CASE Expired(override, now)
      BY <1>2 DEF Begin
<1>3. CASE ~Expired(override, now)
  <2> DEFINE t == Begun(st)
             f == ScheduleFor(st)
  <2>1. TickRecord(t) /\ RawKept(t, st.setpoint) /\ st \in States
        BY BegunTick DEF Heard
  <2>2. ApplyOverride(t, st, f) /\ schedule' = f
        BY <1>1, <1>3 DEF Begin
  <2> HIDE DEF t, f
  <2>3. \/ wire' = wire
        \/ /\ Promise!Allowed(wire', Known') /\ override' = override
           /\ wire' \in {0, Applied(override, settings, t.plan, t.seen, t.raw)}
        BY <1>1, <2>1, <2>2, ApplyOverrideAllowed
  <2>4. QED BY <1>1, <2>3 DEF DecidedInForce, OverrideDecided
<1>4. QED BY <1>2, <1>3

LEMMA ClearedAllowed ==
    ASSUME ServiceInv, OverrideCleared
    PROVE  wire' = wire \/ (Promise!Allowed(wire', Known') /\ (tick.pc = "cycled" \/ DecidedInForce))
<1>1. /\ state \in States /\ TickRecord(tick) /\ RawKept(tick, state.setpoint)
      /\ unlogged \in BOOLEAN /\ guard \in GuardMemories /\ settings \in SettingsChoices
      BY DEF ServiceInv, TypeOK, Numbers, RawInv, OverrideCleared
<1>2. UNCHANGED <<settings, plan, schedule>> /\ tick.pc \in {"expiring", "cycled"}
      BY DEF OverrideCleared, telemetry, Persisting
<1>3. CASE tick.pc = "expiring"
  <2> DEFINE t == tick
             f == schedule
  <2>1. ApplyOverride(t, state, f) /\ TickRecord(t) /\ RawKept(t, state.setpoint) /\ schedule' = f
        BY <1>1, <1>2, <1>3 DEF OverrideCleared
  <2> HIDE DEF t, f
  <2>2. \/ wire' = wire
        \/ /\ Promise!Allowed(wire', Known') /\ override' = override
           /\ wire' \in {0, Applied(override, settings, t.plan, t.seen, t.raw)}
        BY <1>1, <1>2, <2>1, ApplyOverrideAllowed
  <2>3. QED BY <1>2, <2>2 DEF DecidedInForce, OverrideDecided
<1>4. CASE tick.pc = "cycled"
  <2> DEFINE raw == tick.raw
  <2>1. Finish(tick, raw, state, schedule, BypassesSocLimits(override)) /\ override' = override
        BY <1>4 DEF OverrideCleared
  <2>2. raw \in Int
        BY <1>1 DEF TickRecord
  <2>3. wire' = wire \/ Promise!Allowed(wire', Known')
        BY <1>1, <1>2, <2>1, <2>2, FinishAllowed
  <2>4. QED BY <1>4, <2>3
<1>5. QED BY <1>2, <1>3, <1>4

LEMMA PublishedIsAllowed ==
    ASSUME ServiceInv, [Next]_vars
    PROVE  wire' = wire \/ (Promise!Allowed(wire', Known') /\ (tick.pc = "cycled" \/ DecidedInForce))
<1>1. CASE GridSample
      BY <1>1, SampleHeard, BeginAllowed DEF GridSample
<1>2. CASE NextTick
      BY <1>2, StateIsHeard, BeginAllowed DEF NextTick
<1>3. CASE OverrideCleared
      BY <1>3, ClearedAllowed
<1>4. CASE BatterySoc \/ BatteryPower \/ BatteryVoltage \/ BridgeLastSeen \/ TradePrices \/ GridSampleWaits
      BY <1>4 DEF BatterySoc, BatteryPower, BatteryVoltage, BridgeLastSeen, Telemetry, TradePrices, GridSampleWaits
<1>5. CASE ClearFails \/ LogWritten \/ LogFails \/ OverrideMessage \/ OverridePersisted \/ PersistFails
      BY <1>5 DEF ClearFails, LogWritten, LogFails, OverrideMessage, OverridePersisted, PersistFails
<1>6. CASE Reload \/ Reloaded \/ Recalculate \/ PlanMade \/ PlanFails \/ ProfileRefreshed \/ Elapse \/ Restart
      BY <1>6 DEF Reload, Reloaded, Recalculate, PlanMade, PlanFails, ProfileRefreshed, Elapse, Restart
<1>7. CASE UNCHANGED vars
      BY <1>7 DEF vars
<1>8. QED BY <1>1, <1>2, <1>3, <1>4, <1>5, <1>6, <1>7 DEF Next

\* The service implements SetpointPromise: whatever arrives in the gaps of a
\* tick, a setpoint that is published (service.py:185) is one the battery
\* allows at that moment, as far as the service knows.
THEOREM PromiseIsKept == Spec => KeepsPromise
<1>1. Init => Promise!Init
      BY DEF Init, Promise!Init
<1>2. ServiceInv /\ [Next]_vars => [Promise!Learn \/ Promise!Publish]_<<wire, Known>>
  <2> SUFFICES ASSUME ServiceInv, [Next]_vars PROVE [Promise!Learn \/ Promise!Publish]_<<wire, Known>>
      OBVIOUS
  <2>1. wire' = wire \/ Promise!Allowed(wire', Known')
        BY PublishedIsAllowed
  <2>2. CASE wire' = wire
        BY <2>2 DEF Promise!Learn
  <2>3. CASE wire' # wire
        BY <2>1, <2>3 DEF Promise!Publish
  <2>4. QED BY <2>2, <2>3
<1>3. QED BY <1>1, <1>2, ServiceInvariance, PTL DEF Spec, KeepsPromise, Promise!Spec

\* What only the exemption of an override allows is the setpoint of that
\* override, except while a tick ends whose override's cycle was over.
THEOREM ExemptionStaysForOverrides == Spec => ExemptionIsForOverrides
<1>1. ASSUME ServiceInv, [Next]_vars, wire' # wire, tick.pc # "cycled",
             ~Promise!Allowed(wire', [Known' EXCEPT !.exempt = FALSE])
      PROVE  BypassesSocLimits(override') /\ wire' = Applied(override', settings, plan, state', 0)
  <2> DEFINE k == Known'
             w == wire'
             bare == [k EXCEPT !.exempt = FALSE]
  <2>1. Promise!Allowed(w, k) /\ DecidedInForce
        BY <1>1, PublishedIsAllowed
  <2>2. /\ bare.tops = k.tops /\ bare.bottoms = k.bottoms /\ bare.blind = k.blind
        /\ bare.empty = k.empty /\ bare.full = k.full /\ bare.exempt = FALSE
        /\ k.exempt = BypassesSocLimits(override')
        BY DEF Known
  <2> HIDE DEF k, w, bare
  <2>3. ~Promise!Allowed(w, bare)
        BY <1>1 DEF bare, k, w
  <2>4. BypassesSocLimits(override')
        BY <2>1, <2>2, <2>3 DEF Promise!Allowed
  <2>5. w # 0
    <3>1. SUFFICES ASSUME w = 0 PROVE Promise!Allowed(w, bare)
          BY <2>3
    <3>2. ~(w < 0) /\ ~(w > 0)
          BY <3>1
    <3>3. QED BY <2>1, <2>2, <3>1, <3>2 DEF Promise!Allowed
  <2>6. PICK p, st, c : w = Applied(override, settings, p, st, c)
        BY <2>1, <2>5 DEF DecidedInForce, OverrideDecided, w
  <2>7. override' = override
        BY <2>1 DEF DecidedInForce
  <2> DEFINE st1 == state'
  <2> HIDE DEF st1
  <2>8. Applied(override, settings, p, st, c) = Applied(override, settings, plan, st1, 0)
        BY <2>4, <2>7, AppliedExempt
  <2>9. QED BY <2>4, <2>6, <2>7, <2>8 DEF w, st1
<1>2. ServiceInv /\ [Next]_vars =>
        [wire' # wire /\ ~Promise!Allowed(wire', [Known' EXCEPT !.exempt = FALSE]) /\ tick.pc # "cycled"
            => /\ BypassesSocLimits(override')
               /\ wire' = Applied(override', settings, plan, state', 0)]_vars
      BY <1>1
<1>3. QED BY <1>2, ServiceInvariance, PTL DEF Spec, ExemptionIsForOverrides

\* The floor of a night never rises again and never exceeds the SoC it was
\* computed from (floor_schedule.py:17), unless the SoC is below the plan's.
THEOREM FloorsGlide == Spec => FloorGlides
<1>1. ASSUME ServiceInv, NEW st, Heard(st), tick.pc = "free", Begin(st), schedule' # NoSchedule, schedule' # schedule
      PROVE  /\ schedule.start = schedule'.start => schedule'.current <= schedule.current
             /\ schedule'.floor <= schedule'.current
             /\ schedule'.current <= state'.soc \/ schedule'.current = schedule'.floor
  <2>1. st \in States /\ schedule' = ScheduleFor(st) /\ TypeOK /\ Numbers /\ NightInv
        BY <1>1 DEF Begin, Heard, ServiceInv
  <2>2. /\ schedule'.floor <= schedule'.current
        /\ schedule.start = schedule'.start => schedule'.current <= schedule.current
        /\ schedule'.current <= st.soc \/ schedule'.current = schedule'.floor
        BY <1>1, <2>1, ScheduleForGlides
  <2>3. state'.soc = st.soc
    <3>1. CASE Expired(override, now)
          BY <1>1, <3>1 DEF Begin
    <3>2. CASE ~Expired(override, now)
      <4> DEFINE t == Begun(st)
                 f == ScheduleFor(st)
      <4>1. ApplyOverride(t, st, f) /\ TickRecord(t) /\ RawKept(t, st.setpoint) /\ tick.pc # "logging"
            BY <1>1, <2>1, <3>2, BegunTick DEF Begin
      <4> HIDE DEF t, f
      <4>2. SameTelemetry(st, state')
            BY <1>1, <2>1, <4>1, ApplyOverrideKeeps
      <4>3. QED BY <4>2 DEF SameTelemetry
    <3>3. QED BY <3>1, <3>2
  <2>4. QED BY <2>2, <2>3
<1>2. ASSUME ServiceInv, [Next]_vars, schedule' # NoSchedule, schedule' # schedule
      PROVE  /\ schedule.start = schedule'.start => schedule'.current <= schedule.current
             /\ schedule'.floor <= schedule'.current
             /\ schedule'.current <= state'.soc \/ schedule'.current = schedule'.floor
  <2>1. CASE GridSample
        BY <1>1, <1>2, <2>1, SampleHeard DEF GridSample, TickFree
  <2>2. CASE NextTick
        BY <1>1, <1>2, <2>2, StateIsHeard DEF NextTick, TickFree
  <2>3. CASE ~GridSample /\ ~NextTick
    <3>1. schedule' = schedule \/ schedule' = NoSchedule
      <4>1. CASE UNCHANGED vars
            BY <4>1 DEF vars, memory
      <4>2. CASE BatterySoc \/ BatteryPower \/ BatteryVoltage \/ BridgeLastSeen \/ TradePrices \/ GridSampleWaits
            BY <4>2 DEF BatterySoc, BatteryPower, BatteryVoltage, BridgeLastSeen, Telemetry, TradePrices,
                        GridSampleWaits, memory
      <4>3. CASE OverrideCleared \/ ClearFails \/ LogWritten \/ LogFails
            BY <4>3 DEF OverrideCleared, ClearFails, LogWritten, LogFails, memory
      <4>4. CASE OverrideMessage \/ OverridePersisted \/ PersistFails
            BY <4>4 DEF OverrideMessage, OverridePersisted, PersistFails, memory
      <4>5. CASE Reload \/ Reloaded \/ Recalculate \/ PlanMade \/ PlanFails \/ ProfileRefreshed \/ Elapse \/ Restart
            BY <4>5 DEF Reload, Reloaded, Recalculate, PlanMade, PlanFails, ProfileRefreshed, Elapse, Restart,
                        Started, memory
      <4>6. QED BY <1>2, <2>3, <4>1, <4>2, <4>3, <4>4, <4>5 DEF Next
    <3>2. QED BY <1>2, <3>1
  <2>4. QED BY <2>1, <2>2, <2>3
<1>3. ServiceInv /\ [Next]_vars =>
        [schedule' # NoSchedule /\ schedule' # schedule =>
            /\ schedule.start = schedule'.start => schedule'.current <= schedule.current
            /\ schedule'.floor <= schedule'.current
            /\ schedule'.current <= state'.soc \/ schedule'.current = schedule'.floor]_vars
      BY <1>2
<1>4. QED BY <1>3, ServiceInvariance, PTL DEF Spec, FloorGlides
==============================================================================
