---------------------------- MODULE FloorSchedule ----------------------------
(***************************************************************************)
(* The floor that glides down through the night                            *)
(* (strategy/v2/floor_schedule.py) along the household's usual consumption *)
(* (strategy/v2/consumption_profile.py).                                   *)
(*                                                                         *)
(* Time is in units of which DayLength make a day.  A profile gives the    *)
(* usual energy per unit for each slot of the day, SlotLength units long.  *)
(* SoC, floor and energy are whole numbers of their units; a planned floor *)
(* is rounded down to a whole unit, where the code keeps a float.          *)
(***************************************************************************)
EXTENDS Integers

CONSTANTS
    DayLength,     \* time units of a day
    HorizonStart,  \* time of day at which the night starts
    HorizonEnd,    \* time of day at which it ends, the next morning
    SlotLength     \* time units of a slot of the consumption profile

ASSUME ClockAssumption ==
    /\ DayLength \in Nat \ {0} /\ SlotLength \in Nat \ {0}
    /\ HorizonStart \in 0..(DayLength - 1) /\ HorizonEnd \in 0..HorizonStart

Lower(a, b) == IF a < b THEN a ELSE b
Higher(a, b) == IF a > b THEN a ELSE b

(***************************************************************************)
(* Expected consumption.                                                   *)
(***************************************************************************)
SlotOf(t) == (t % DayLength) \div SlotLength

NextBoundary(t) == ((t \div SlotLength) + 1) * SlotLength

\* From start to end, one slot or part of a slot at a time.
ExpectedBetween(profile, start, end) ==
    LET walk[cursor \in start..end] ==
            IF cursor >= end THEN 0
            ELSE LET segmentEnd == Lower(end, NextBoundary(cursor))
                 IN  profile[SlotOf(cursor)] * (segmentEnd - cursor) + walk[segmentEnd]
    IN  IF end <= start THEN 0 ELSE walk[start]

(***************************************************************************)
(* The night an instant belongs to, or the next one.                       *)
(***************************************************************************)
TimeOfDay(t) == t % DayLength
Midnight(t) == t - TimeOfDay(t)

InMorningTail(t) == TimeOfDay(t) < HorizonStart /\ TimeOfDay(t) < HorizonEnd

NightStart(t) == Midnight(t) + HorizonStart - IF InMorningTail(t) THEN DayLength ELSE 0
NightEnd(t) == Midnight(t) + HorizonEnd + IF InMorningTail(t) THEN 0 ELSE DayLength
InHorizon(t) == NightStart(t) <= t /\ t < NightEnd(t)

(***************************************************************************)
(* The schedule of one night.                                              *)
(***************************************************************************)
NoSchedule == [start |-> -1, end |-> -1, floor |-> 0, startSoc |-> 0, total |-> 0,
               current |-> 0, used |-> 0, observed |-> -1]

Built(profile, now, soc, floor) ==
    [start |-> NightStart(now), end |-> NightEnd(now), floor |-> floor,
     startSoc |-> Higher(soc, floor), current |-> Higher(soc, floor),
     total |-> ExpectedBetween(profile, NightStart(now), NightEnd(now)),
     used |-> 0, observed |-> now]

\* The load of the moment stands for the whole gap since the last one.
Observed(f, now, load) ==
    [f EXCEPT !.used = @ + Higher(0, load) * Higher(0, now - f.observed), !.observed = now]

\* Actual over expected consumption in tenths, kept between 0.7 and 1.5.
DriftMin == 7
DriftMax == 15
Drift(f, elapsed) ==
    IF elapsed > 0 THEN Lower(DriftMax, Higher(DriftMin, (10 * f.used) \div elapsed)) ELSE 10

\* The part of the budget that the rest of the night is expected to need.
Reserve(f, remaining, drift) ==
    IF f.total > 0
    THEN Lower(f.startSoc - f.floor, ((f.startSoc - f.floor) * remaining * drift) \div (10 * f.total))
    ELSE 0

\* Mutant: the floor may rise again.
RecomputedRising(f, profile, now, soc) ==
    LET clamped == Lower(Higher(now, f.start), f.end)
        drift == Drift(f, ExpectedBetween(profile, f.start, clamped))
        planned == f.floor + Reserve(f, ExpectedBetween(profile, clamped, f.end), drift)
    IN  [f EXCEPT !.current = Higher(f.floor, Lower(planned, soc))]

Recomputed(f, profile, now, soc) ==
    LET clamped == Lower(Higher(now, f.start), f.end)
        drift == Drift(f, ExpectedBetween(profile, f.start, clamped))
        planned == f.floor + Reserve(f, ExpectedBetween(profile, clamped, f.end), drift)
    IN  [f EXCEPT !.current = Higher(f.floor, Lower(Lower(planned, soc), f.current))]

FloorAt(f, now) == IF now >= f.end THEN f.floor ELSE f.current
=============================================================================
