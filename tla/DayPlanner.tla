----------------------------- MODULE DayPlanner -----------------------------
(***************************************************************************)
(* The daily planner of strategy v2 (strategy/v2/planner.py): from the     *)
(* expected irradiation and the prices of a day to its limits and windows. *)
(*                                                                         *)
(* Instants count hours, days start at multiples of DayLength.  Prices are *)
(* a sequence of rows [start, end, price]; a window is a pair of instants, *)
(* the second excluded.  A plan's windows are the sets of their instants,  *)
(* which is all that in_grid_charge_window and in_price_discharge_window   *)
(* make of them.                                                           *)
(***************************************************************************)
EXTENDS FloorSchedule, SequencesExt

CONSTANTS
    LateEvening,        \* the hour from which a window starts at night (22)
    Morning,            \* the hour until which it is still night (8)
    Fridays,            \* the days of a full cycle of the LiFePO4 battery
    FullCycleCeiling    \* the ceiling of such a day

DayOf(t) == t \div DayLength
IsFullCycleDay(day) == day \in Fridays

(***************************************************************************)
(* Windows of cheap or expensive prices.                                   *)
(***************************************************************************)
Earlier(a, b) == a[1] < b[1] \/ (a[1] = b[1] /\ a[2] < b[2])

\* Windows in order of their start; one that touches the previous joins it.
Joined(merged, window) ==
    IF merged # <<>> /\ window[1] <= Last(merged)[2]
    THEN Front(merged) \o <<<<Last(merged)[1], IF Last(merged)[2] > window[2] THEN Last(merged)[2] ELSE window[2]>>>>
    ELSE Append(merged, window)

MergeContiguous(windows) == FoldLeft(Joined, <<>>, SetToSortSeq(windows, Earlier))

PriceWindows(wanted, day) ==
    MergeContiguous({<<r.start, r.end>> : r \in {q \in wanted : DayOf(q.start) = day}})

IsOvernight(window) ==
    \/ TimeOfDay(window[1]) >= LateEvening
    \/ TimeOfDay(window[2]) <= Morning
    \/ TimeOfDay(window[1]) < Morning

WindowPrices(rows, window) ==
    {r.price : r \in {q \in ToSet(rows) : window[1] <= q.start /\ q.start < window[2]}}

\* The first of the windows with the lowest price.
Cheapest(rows, windows) ==
    LET price == [i \in DOMAIN windows |-> Min(WindowPrices(rows, windows[i]))]
        best == {i \in DOMAIN windows : \A j \in DOMAIN windows : price[i] <= price[j]}
    IN  windows[Min(best)]

Instants(windows) == UNION {w[1]..(w[2] - 1) : w \in ToSet(windows)}

(***************************************************************************)
(* The plan of a day.                                                      *)
(***************************************************************************)
SolarMode(s, ghi) ==
    IF ghi > s.richGhi THEN "SOLAR_RICH" ELSE IF ghi < s.poorGhi THEN "SOLAR_POOR" ELSE "NORMAL"

PlannedFloor(s, mode) == IF mode = "SOLAR_RICH" THEN Higher(s.leastFloor, s.floor - s.floorStep) ELSE s.floor

PlannedCeiling(s, mode, day) ==
    IF IsFullCycleDay(day) THEN FullCycleCeiling
    ELSE IF mode = "SOLAR_POOR" THEN Lower(s.ceiling + s.ceilingStep, s.mostCeiling)
    ELSE s.ceiling

OvernightWindows(s, rows, day) ==
    SelectSeq(PriceWindows({q \in ToSet(rows) : q.price < s.cheapPrice}, day), IsOvernight)

GridChargeWindows(s, mode, rows, day) ==
    IF ~IsFullCycleDay(day) /\ s.gridCharge /\ mode # "SOLAR_RICH" /\ OvernightWindows(s, rows, day) # <<>>
    THEN <<Cheapest(rows, OvernightWindows(s, rows, day))>>
    ELSE <<>>

PriceDischargeWindows(s, rows, day) == PriceWindows({q \in ToSet(rows) : q.price > s.expensivePrice}, day)

BuildPlan(s, day, ghi, rows) ==
    [floor |-> PlannedFloor(s, SolarMode(s, ghi)),
     ceiling |-> PlannedCeiling(s, SolarMode(s, ghi), day),
     charge |-> Instants(GridChargeWindows(s, SolarMode(s, ghi), rows, day)),
     price |-> Instants(PriceDischargeWindows(s, rows, day))]

DefaultDayPlan(s, day) ==
    [floor |-> s.floor, ceiling |-> IF IsFullCycleDay(day) THEN FullCycleCeiling ELSE s.ceiling,
     charge |-> {}, price |-> {}]
=============================================================================
