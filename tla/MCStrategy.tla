----------------------------- MODULE MCStrategy -----------------------------
(***************************************************************************)
(* StrategyService for TLC: one day of two hours, small watts and prices,  *)
(* and scenes, so that the rare events of one (settings, overrides, plans, *)
(* failures) do not multiply with those of another.                        *)
(***************************************************************************)
EXTENDS StrategyService

CONSTANTS MaxRare, Scenes

MCBase == [maxChargeW |-> 1, maxChargeA |-> 1, nominalV |-> 2, maxDischargeW |-> 2, gridTargetW |-> 0,
    rampFloorW |-> 1, rampHold |-> 1, rampCeilingW |-> 2, gain |-> [num |-> 2, den |-> 1], jitterW |-> 1,
    exportThresholdW |-> 1, exportHysteresisW |-> 1, socBand |-> 1, priceBiasW |-> 1, staleAfter |-> 1,
    logInterval |-> 1, floor |-> 1, ceiling |-> 3, richGhi |-> 2, poorGhi |-> 1, floorStep |-> 1, leastFloor |-> 0,
    ceilingStep |-> 1, mostCeiling |-> 4, gridCharge |-> TRUE, cheapPrice |-> 2, expensivePrice |-> 8]
MCSettings == {MCBase, [MCBase EXCEPT !.floor = 2, !.maxDischargeW = 1, !.gridTargetW = -3]}
MCCommands == {[mode |-> "force_off", watts |-> 0, exempt |-> FALSE, lasts |-> 1],
               [mode |-> "force_on", watts |-> 0, exempt |-> TRUE, lasts |-> Never],
               [mode |-> "force_discharge", watts |-> 5, exempt |-> TRUE, lasts |-> Never],
               [mode |-> "force_discharge", watts |-> 0, exempt |-> FALSE, lasts |-> Never]}
MCProfiles == {[s \in 0..3 |-> 1]}
MCPrices == {<<[start |-> 4, end |-> 5, price |-> 1], [start |-> 5, end |-> 6, price |-> 9]>>}
MCGrid == {-2, -1, 1}
MCPower == {-2, 0}

VARIABLES rare, scene

Common ==
    \/ BatterySoc \/ BatteryPower
    \/ GridSample \/ GridSampleWaits \/ NextTick
    \/ OverrideCleared \/ LogWritten \/ OverridePersisted \/ Reloaded \/ PlanMade \/ ProfileRefreshed
    \/ Elapse
Rare ==
    \/ BatteryVoltage \/ BridgeLastSeen \/ TradePrices \/ OverrideMessage
    \/ ClearFails \/ LogFails \/ PersistFails \/ PlanFails \/ Restart
    \/ Reload \/ Recalculate

InScene ==
    /\ scene # "night" => profile' = NoProfile /\ recalculation'.pc = "idle" /\ prices' = <<>>
    /\ scene \notin {"night", "reload"} => ~reloading' /\ settings' = MCBase
    /\ scene \notin {"overrides", "reload"} => override' = NoOverride
    /\ scene # "telemetry" => ~state'.voltageLow /\ state'.lastSeen = Never
    /\ scene \in {"overrides", "night"} => state'.net # -2
    /\ scene \in {"night", "reload"} => state'.power = 0
    /\ scene \in {"overrides", "reload"} => state'.soc # 3 /\ state'.net # -1 /\ now' # LastTime

MCInit == /\ Init /\ rare = 0 /\ scene \in Scenes
          /\ settings = MCBase
          /\ scene # "night" => profile = NoProfile
MCNext == /\ \/ Common /\ UNCHANGED rare
             \/ rare < (IF scene = "overrides" THEN MaxRare + 1 ELSE MaxRare) /\ Rare /\ rare' = rare + 1
          /\ UNCHANGED scene
          /\ InScene
MCSpec == MCInit /\ [][MCNext]_<<vars, rare, scene>>
=============================================================================
