----------------------------- MODULE EnergyViews -----------------------------
(***************************************************************************)
(* What the API makes of the telemetry: the state of the battery and the   *)
(* load of the household (api/payload_helpers.py), the curves with their   *)
(* rolled up average, which the pages store as they are asked for          *)
(* (api/routers/grid.py:41, battery.py:202), and the share of the load     *)
(* that Dryad says was not imported (api/dryad.py:78).                     *)
(*                                                                         *)
(* Telemetry is a record with the fields of the status topics, None for    *)
(* one that is missing or no number.  A text is the word that decides,     *)
(* "charge", "discharge" or "other".  A row of the curves is noted with    *)
(* the telemetry it was computed from.                                     *)
(***************************************************************************)
EXTENDS Integers, FiniteSetsExt, Functions

CONSTANTS
    Telemetries,   \* what the cache may hold
    None,          \* no value
    Deadband,      \* 25 W
    MaxReadings,   \* bound of the changes of the telemetry
    LastRowMinute, \* bound of the clock; less than the hour Dryad looks back
    MaxSamples     \* bound of the samples of one bucket

\* A field is a number or None, which no difference of the meter's values is
\* taken for.  The meter counts each direction by itself, from zero upwards.
ASSUME ViewConstants ==
    \A t \in Telemetries :
        /\ {t.delivered, t.returned} \subseteq Nat \cup {None}
        /\ {t.net, t.power, t.discharge, t.setpoint, t.solar} \subseteq Int \cup {None}
        /\ t.delivered # None /\ t.returned # None => t.delivered - t.returned # None

VARIABLES
    reading,       \* the status cache
    readings,      \* how often it changed
    present,       \* the present minute
    curve,         \* power_curve_points: rows [minute, source, of]
    pooled,        \* sample_count of the household's rolled up bucket
    rolled,        \* its power_w, the average
    measured       \* the sum of its samples

bucket == <<pooled, rolled, measured>>
viewVars == <<reading, readings, present, curve, bucket>>

Or0(w) == IF w = None THEN 0 ELSE w
Positive(w) == Max({0, w})
Magn(w) == IF w < 0 THEN -w ELSE w

(***************************************************************************)
(* The battery.                                                            *)
(***************************************************************************)
DeriveBatteryState(t, fallback) ==
    CASE t.word = "discharge" -> "DISCHARGING"
      [] t.word = "charge" -> "CHARGING"
      [] t.word = "other" /\ Magn(Or0(t.power)) > Deadband -> IF t.power > 0 THEN "DISCHARGING" ELSE "CHARGING"
      [] OTHER -> fallback

ActiveBatterySetpoint(t) ==
    CASE Or0(t.discharge) # 0 -> Magn(t.discharge)
      [] Or0(t.discharge) = 0 /\ Or0(t.setpoint) # 0 -> -Magn(t.setpoint)
      [] OTHER -> None

\* What is measured, or what was commanded.
BatteryCurvePower(t) == IF t.power # None THEN t.power ELSE ActiveBatterySetpoint(t)

BatteryCharge(t) == Positive(-Or0(BatteryCurvePower(t)))
BatteryDischarge(t) == Positive(Or0(BatteryCurvePower(t)))

BatteryPhase(t) ==
    LET active == {DeriveBatteryState(t, t.control), t.control} IN
    CASE t.control = "COOLDOWN" -> "cooldown"
      [] t.control # "COOLDOWN" /\ ("CHARGING" \in active \/ BatteryCharge(t) > 0) -> "charging"
      [] t.control # "COOLDOWN" /\ "CHARGING" \notin active /\ BatteryCharge(t) = 0
         /\ ("DISCHARGING" \in active \/ BatteryDischarge(t) > 0) -> "discharging"
      [] OTHER -> "idle"

(***************************************************************************)
(* The meter.                                                              *)
(***************************************************************************)
GridImport(t) == IF t.delivered # None THEN t.delivered ELSE Positive(Or0(t.net))
GridExport(t) == IF t.returned # None THEN t.returned ELSE Positive(-Or0(t.net))

(***************************************************************************)
(* The household.  Without a meter nothing is imported.                    *)
(***************************************************************************)
BatteryNet(t) == BatteryDischarge(t) - BatteryCharge(t)
MethodA(t) == Positive(Or0(t.solar)) + BatteryNet(t) - GridExport(t)

\* Mutant: the charge of the battery is no part of what is left.
HouseholdLoadUncharged(t) ==
    Positive(Positive(Or0(t.solar)) + BatteryDischarge(t) - GridExport(t) + GridImport(t))

HouseholdLoad(t) == Positive(MethodA(t) + GridImport(t))

(***************************************************************************)
(* The rows, and the pages that store them.  A grid row is stored when the *)
(* net power is known, a solar row in the minute in which the gateway      *)
(* spoke, which may be the one before.                                     *)
(***************************************************************************)
CurveRow(m, s, t) == [minute |-> m, source |-> s, of |-> t]
PointsOf(m, s) == {row \in curve : row.minute = m /\ row.source = s}
Told(m, s) == (CHOOSE row \in PointsOf(m, s) : TRUE).of
Stored(m, s) == PointsOf(m, s) # {}

\* Bound: the rows of one source and minute are of one telemetry, which is
\* then also what SQL takes for their average.
Alone(m, s) == \A row \in PointsOf(m, s) : row.of = reading

SolarRows(m) == IF reading.solar = None THEN {} ELSE {CurveRow(m, "solar", reading)}
GridRows == IF reading.net = None THEN {} ELSE {CurveRow(present, "grid", reading)}
BatteryRows == IF BatteryCurvePower(reading) = None THEN {} ELSE {CurveRow(present, "battery", reading)}

GridStatus ==
    \E m \in {present - 1, present} :
        /\ m >= 0 /\ Alone(m, "solar") /\ Alone(present, "grid")
        /\ curve' = curve \cup SolarRows(m) \cup GridRows
        /\ UNCHANGED <<reading, readings, present, bucket>>

BatteryStatus ==
    /\ Alone(present, "battery")
    /\ curve' = curve \cup BatteryRows
    /\ UNCHANGED <<reading, readings, present, bucket>>

(***************************************************************************)
(* One statement adds a sample to the average of its bucket, which is      *)
(* rounded every time.                                                     *)
(***************************************************************************)
Rounded(n, d) == IF n >= 0 THEN (2 * n + d) \div (2 * d) ELSE -((d - 2 * n) \div (2 * d))

Rolled(average, count, watts) == IF count = 0 THEN watts ELSE Rounded(average * count + watts, count + 1)

StorePowerCurvePoint(watts) ==
    /\ pooled' = pooled + 1
    /\ rolled' = Rolled(rolled, pooled, watts)
    /\ measured' = measured + watts

HouseholdStatus ==
    /\ pooled < MaxSamples /\ Alone(present, "household")
    /\ curve' = curve \cup {CurveRow(present, "household", reading)}
    /\ StorePowerCurvePoint(HouseholdLoad(reading))
    /\ UNCHANGED <<reading, readings, present>>

\* A message for the cache.
TelemetryChanges ==
    \E t \in Telemetries \ {reading} :
        /\ readings < MaxReadings
        /\ reading' = t /\ readings' = readings + 1
        /\ UNCHANGED <<present, curve, bucket>>

\* A rolled up bucket may end with any minute.
NextMinute ==
    /\ present < LastRowMinute /\ present' = present + 1
    /\ \/ UNCHANGED bucket
       \/ pooled' = 0 /\ rolled' = 0 /\ measured' = 0
    /\ UNCHANGED <<reading, readings, curve>>

ViewInit ==
    /\ reading \in Telemetries /\ readings = 0
    /\ present = 0 /\ curve = {}
    /\ pooled = 0 /\ rolled = 0 /\ measured = 0

ViewNext == GridStatus \/ BatteryStatus \/ HouseholdStatus \/ TelemetryChanges \/ NextMinute

ViewSpec == ViewInit /\ [][ViewNext]_viewVars

(***************************************************************************)
(* Dryad's share, from the rows of the last hour minute by minute: a zero  *)
(* is taken for what is missing, and the load is the household's row or,   *)
(* without one, what the other rows leave.                                 *)
(***************************************************************************)
CurveImport(t) == Positive(IF Or0(t.delivered) # 0 THEN t.delivered ELSE t.net)
CurveExport(t) == Positive(IF Or0(t.returned) # 0 THEN t.returned ELSE -t.net)

ImportOf(m) == IF Stored(m, "grid") THEN CurveImport(Told(m, "grid")) ELSE 0
ExportOf(m) == IF Stored(m, "grid") THEN CurveExport(Told(m, "grid")) ELSE 0
SolarOf(m) == IF Stored(m, "solar") THEN Positive(Told(m, "solar").solar) ELSE 0
BatteryOf(m) == IF Stored(m, "battery") THEN BatteryCurvePower(Told(m, "battery")) ELSE 0

CurveLoad(m) ==
    IF Stored(m, "household") THEN HouseholdLoad(Told(m, "household"))
    ELSE Positive(ImportOf(m) + SolarOf(m) - ExportOf(m) - Positive(-BatteryOf(m)) + Positive(BatteryOf(m)))

Minutes == {row.minute : row \in curve}

\* The part of a whole that was not brought, as a fraction between 0 and 1,
\* and no answer when the whole is nothing.
ShareNotBrought(brought, whole) == IF whole <= 0 THEN <<>> ELSE <<Positive(whole - brought), whole>>

ComputeAutarky ==
    ShareNotBrought(SumFunction([m \in Minutes |-> ImportOf(m)]), SumFunction([m \in Minutes |-> CurveLoad(m)]))

(***************************************************************************)
(* Properties.                                                             *)
(***************************************************************************)

\* A battery that is said to be idle moves nothing (payload_helpers.py:606).
IdleMovesNothing(t) == BatteryPhase(t) = "idle" => BatteryCharge(t) = 0 /\ BatteryDischarge(t) = 0

\* The values of the meter belong together when each direction is known and
\* the net power is their difference, or the net power only.
Coherent(t) ==
    /\ t.net # None
    /\ \/ t.delivered = None /\ t.returned = None
       \/ t.delivered # None /\ t.returned # None /\ t.net = t.delivered - t.returned

\* The rows of a minute tell one moment: they are of one telemetry, with a
\* row of the grid and either the household's or every other that there is
\* something to store for.
Whole(m) ==
    /\ Stored(m, "grid") /\ Coherent(Told(m, "grid"))
    /\ \A row \in curve : row.minute = m => row.of = Told(m, "grid")
    /\ \/ Stored(m, "household")
       \/ /\ Told(m, "grid").solar # None => Stored(m, "solar")
          /\ BatteryCurvePower(Told(m, "grid")) # None => Stored(m, "battery")

\* Whichever pages were asked for, and in whichever minutes: when the rows of
\* every minute tell one moment, Dryad's share is that of the imports and
\* loads the API showed at those moments, so that it makes no difference
\* whether the household's rows are there (dryad.py:95).
ShareIsOfTheLoad ==
    (\A m \in Minutes : Whole(m)) =>
        ComputeAutarky = ShareNotBrought(SumFunction([m \in Minutes |-> GridImport(Told(m, "grid"))]),
                                         SumFunction([m \in Minutes |-> HouseholdLoad(Told(m, "grid"))]))

\* The average of a bucket leaves the mean of its samples by a quarter watt
\* per sample at most: it is rounded with every sample, and what is rounded
\* away is never made up for (battery.py:243).
RollupsStayNear ==
    pooled > 0 => 4 * Magn(rolled * pooled - measured) <= pooled * (pooled + 1) - 2

\* The household's watts are counted alike by the API, its rolled up curve
\* and Dryad.
HouseholdIsAccounted == IdleMovesNothing(reading) /\ ShareIsOfTheLoad /\ RollupsStayNear
=============================================================================
