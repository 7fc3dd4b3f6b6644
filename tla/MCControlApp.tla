---------------------------- MODULE MCControlApp ----------------------------
(* Small instances of ControlApp.  One watt stands for a flow that passes its *)
(* threshold, so that a target is all or nothing; 3 % is below, at or above   *)
(* a limit, depending on the settings and on the day.                         *)
EXTENDS ControlApp

MCDischargeStartW == -1
MCDischargeStopW == 0
MCGridSamples == {-1, 1}

\* A reload can put the battery at its ceiling or at its floor.
MCMovingLimits == {[floor |-> 1, ceiling |-> 3], [floor |-> 3, ceiling |-> 4]}
MCFixedLimits == {[floor |-> 1, ceiling |-> 3]}

OverrideOf(mode, watts) == [mode |-> mode, watts |-> watts, pause |-> Unset]
MCForcedDischarge == {OverrideOf("force_discharge", 1)}
MCWithoutDischarge == {OverrideOf("force_on", 1), OverrideOf("force_off", 0), OverrideOf("none", 0)}
\* force_off and a pause without an end are one branch of apply_override.
MCAllBranches == MCForcedDischarge \cup
    {OverrideOf("force_on", 1), OverrideOf("pause", 0), OverrideOf("none", 0)}

\* A bound of the run control, one concern at a time: an override; the state of
\* charge, with the settings and days that matter to it; or a bridge that goes,
\* which is met while the battery's power is unknown.
Alive == {ready[i] : i \in DOMAIN ready} \cup {waiting[i] : i \in DOMAIN waiting}
Queued(topic) == \E t \in Alive : t[1] = topic
Commanded == app.fsm.mode # "none" \/ Queued("override")
ChargeMoves ==
    \/ app.soc # UnknownSoc \/ Queued("soc")
    \/ fullCycle \/ app.limits \notin MCFixedLimits
Outage ==
    \/ app.seen = "stale" \/ Queued("lastSeen") \/ Queued("lastSeenStored")
    \/ <<"status", "offline">> \in Alive \/ Queued("statusStored")
    \/ app.status = "offline" /\ app.fsm # NewFsm
OneConcern ==
    /\ ChargeMoves => ~Commanded
    /\ Outage => ~Commanded /\ ~ChargeMoves /\ app.power = 0
=============================================================================
