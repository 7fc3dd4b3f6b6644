------------------------------ MODULE MCTimers ------------------------------
(***************************************************************************)
(* The machines that must move on with the time: the hysteresis            *)
(* controller, and the bridges of the meter and of the solar gateway,      *)
(* checked one per scene.  The scenes share no state, and each moves its   *)
(* own only.                                                               *)
(***************************************************************************)
EXTENDS MCHysteresis, DsmrBridge, EnphaseBridge, TLC

Panel(serial, array, watts) == [serial |-> serial, array |-> array, watts |-> watts]
MCInverterReports == {{}, {Panel("a", "x", 1), Panel("b", "x", 1), Panel(NoSerial, "y", 5)}}
MCProductions == {NoWatts, 1}
MCPollIntervals == [production |-> 1, inverter |-> 2]

VARIABLE scene

MCInit ==
    /\ Init /\ DsmrInit /\ EnphaseInit
    /\ scene \in {"hysteresis", "meter", "solar"}

MCNext ==
    /\ \/ scene = "hysteresis" /\ Next /\ UNCHANGED <<dsmrVars, enphaseVars>>
       \/ scene = "meter" /\ DsmrNext /\ UNCHANGED <<vars, enphaseVars>>
       \/ scene = "solar" /\ EnphaseNext /\ UNCHANGED <<vars, dsmrVars>>
    /\ UNCHANGED scene

\* The fairness of each, in the scene that moves it.
MCFairness ==
    /\ WF_vars(scene = "hysteresis" /\ AnySample) /\ WF_vars(scene = "hysteresis" /\ Elapse)
    /\ WF_dsmrVars(scene = "meter" /\ StatusDue) /\ WF_dsmrVars(scene = "meter" /\ StatusTold)
    /\ EnphaseFairness

MCSpec == MCInit /\ [][MCNext]_<<vars, dsmrVars, enphaseVars, scene>> /\ MCFairness
=============================================================================
