------------------------------ MODULE MCDrive ------------------------------
(***************************************************************************)
(* The two programs that drive the battery without a strategy, the control *)
(* service and the bridge of the inverter, checked one per scene.  They    *)
(* share no state, and a scene moves its own only.                         *)
(*                                                                         *)
(* In "control" the service must get on.  The bridge of the inverter has   *)
(* two scenes: in "faults" anything may fail and nothing is polled, in     *)
(* "polls" it is polled and nothing fails.                                 *)
(***************************************************************************)
EXTENDS MCControlApp, MCGoodWeBridge

VARIABLE scene

InverterScene ==
    /\ BridgeNext
    /\ scene = "faults" => ~Poll
    /\ scene = "polls" => ~WriteFails /\ ~RequestFails /\ ~Restart

\* A restart leaves an inverter that is still forced, as BridgeInit does.
MCInit ==
    /\ Init /\ BridgeInit
    /\ scene \in {"control", "faults", "polls"}
    /\ scene # "polls" => inverter.force = Zero

MCNext ==
    /\ UNCHANGED scene
    /\ \/ scene = "control" /\ Next /\ UNCHANGED bridgeVars
       \/ scene # "control" /\ InverterScene /\ UNCHANGED vars

\* The fairness of ControlApp, in its scene.
MCFairness ==
    /\ WF_vars(scene = "control" /\ RunTask)
    /\ WF_vars(scene = "control" /\ LoopWakes)
    /\ WF_vars(scene = "control" /\ waiting # <<>> /\ (DatabaseAnswers(1) \/ DatabaseRaises(1)))
    /\ SF_vars(scene = "control" /\ \E s \in SocLevels : Arrive(<<"soc", s>>))

MCSpec == MCInit /\ [][MCNext]_<<vars, bridgeVars, scene>> /\ MCFairness
=============================================================================
