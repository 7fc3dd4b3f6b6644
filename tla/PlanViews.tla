------------------------------ MODULE PlanViews ------------------------------
(***************************************************************************)
(* The views of the slot plan: the curves and the forecast of the          *)
(* dashboard (api/routers/dashboard.py, api/payload_helpers.py) and the    *)
(* planned state of charge that Dryad compares with (api/dryad.py).        *)
(*                                                                         *)
(* A plan is [real, soc, first, slots]: whether the solver made it or it   *)
(* is the fallback, the state of charge it starts with, the slot it is     *)
(* made in and its slots [soc, pv, load], one after the other.  The clock  *)
(* counts slots, and energies are per slot: a percent of the battery is    *)
(* WattsPerPercent for one slot.  Curves are functions of the slot.        *)
(***************************************************************************)
EXTENDS Integers, Sequences, FiniteSetsExt, Functions

CONSTANTS
    SlotPlans,          \* the contents [soc, slots] a plan may have
    WattsPerPercent,
    PlanStale,          \* the age at which a plan is stale
    Horizon,            \* how far a view reaches
    MaxPlans, LastSlot  \* bounds

ASSUME PlanConstants ==
    /\ WattsPerPercent \in Int /\ PlanStale \in Int /\ Horizon \in Int
    /\ \A content \in SlotPlans :
         /\ content.soc \in Int
         /\ content.slots \in Seq([soc : Int, pv : Int, load : Int])

VARIABLES
    slot,               \* the clock
    published           \* slot_plans, the newest first

planVars == <<slot, published>>

(***************************************************************************)
(* Which plan is shown.                                                    *)
(***************************************************************************)
NoPlan == [real |-> FALSE, first |-> -1, soc |-> 0, slots |-> <<>>]

NewestRow(rows) == IF rows = {} THEN NoPlan ELSE published[Min(rows)]

LatestSlotPlan(includeFallback) == NewestRow({i \in DOMAIN published : includeFallback \/ published[i].real})

\* The newest plan, or the newest the solver made when that is a fallback.
CurrentForecastPlan ==
    LET plan == LatestSlotPlan(TRUE) IN IF plan # NoPlan /\ ~plan.real THEN LatestSlotPlan(FALSE) ELSE plan

Fresh(plan) == slot - plan.first < PlanStale

ForecastStatus ==
    CASE CurrentForecastPlan = NoPlan -> IF published = <<>> THEN "missing" ELSE "fallback"
      [] CurrentForecastPlan # NoPlan /\ ~Fresh(CurrentForecastPlan) -> "stale"
      [] OTHER -> "ok"

(***************************************************************************)
(* The curves of a plan.                                                   *)
(***************************************************************************)
PlannedEnd(plan, i) == IF i = 0 THEN plan.soc ELSE plan.slots[i].soc

\* Slots that are over, or begin after the window, are left out.
Kept(plan) == {i \in 1..Len(plan.slots) : plan.first + i > slot /\ plan.first + i - 1 <= slot + Horizon}

SlotBattery(before, after) == (before - after) * WattsPerPercent

CurvePoint(planned, battery) ==
    [pv |-> planned.pv, load |-> planned.load, battery |-> battery, grid |-> planned.load - planned.pv - battery]

\* Mutant: only a slot that is kept moves the state of charge on.
PlanCurvesOfKept(plan) ==
    [i \in Kept(plan) |->
        CurvePoint(plan.slots[i],
            SlotBattery(IF i - 1 \in Kept(plan) THEN PlannedEnd(plan, i - 1) ELSE plan.soc, PlannedEnd(plan, i)))]

PlanCurves(plan) ==
    [i \in Kept(plan) |->
        CurvePoint(plan.slots[i], SlotBattery(PlannedEnd(plan, i - 1), PlannedEnd(plan, i)))]

(***************************************************************************)
(* Dryad: the planned state of charge, at the end of the slot that is over *)
(* now, of the newest plan the solver made.                                *)
(***************************************************************************)
DryadPlan == NewestRow({i \in DOMAIN published : published[i].real})

PlannedSoc(plan) ==
    IF slot <= plan.first THEN plan.soc ELSE PlannedEnd(plan, Min({slot - plan.first, Len(plan.slots)}))

(***************************************************************************)
(* The planner publishes, the clock runs.                                  *)
(***************************************************************************)
PlanPublished ==
    \E content \in SlotPlans, real \in BOOLEAN :
        /\ Len(published) < MaxPlans
        /\ published' = <<[real |-> real, first |-> slot, soc |-> content.soc, slots |-> content.slots]>> \o published
        /\ UNCHANGED slot

SlotPasses == slot < LastSlot /\ slot' = slot + 1 /\ UNCHANGED published

PlanInit == slot = 0 /\ published = <<>>

PlanNext == PlanPublished \/ SlotPasses

PlanSpec == PlanInit /\ [][PlanNext]_planVars

(***************************************************************************)
(* Properties.                                                             *)
(***************************************************************************)
BatterySum(curves) == SumFunction([i \in DOMAIN curves |-> curves[i].battery])
GridSum(curves) == SumFunction([i \in DOMAIN curves |-> curves[i].grid])
DemandSum(curves) == SumFunction([i \in DOMAIN curves |-> curves[i].load - curves[i].pv])

\* Two programs read a plan: what the dashboard lets the battery do from now
\* on takes it from the state of charge that Dryad says is planned now to
\* the end of the window, however many slots and fallback plans went by, and
\* the grid makes up for the rest (payload_helpers.py:804, dryad.py:119).
PlanViewsAgree ==
    ForecastStatus = "ok" =>
        LET plan == CurrentForecastPlan
            curves == PlanCurves(plan)
        IN  /\ plan = DryadPlan
            /\ Kept(plan) # {} =>
                 /\ BatterySum(curves) = SlotBattery(PlannedSoc(plan), PlannedEnd(plan, Max(Kept(plan))))
                 /\ GridSum(curves) + BatterySum(curves) = DemandSum(curves)
=============================================================================
