--------------------------- MODULE SetpointPromise ---------------------------
(***************************************************************************)
(* What a strategy promises about the setpoint it publishes: a new one is  *)
(* within the limits and is never one that the state of the battery, as    *)
(* the strategy knows it at that moment, forbids.                          *)
(***************************************************************************)
EXTENDS Integers

VARIABLES
    setpoint,  \* the setpoint published last, retained by the broker
    known      \* what the strategy holds of the battery:
               \*   blind   its telemetry is too old, or its voltage too low
               \*   empty   it is at the floor in force
               \*   full    it is at its ceiling
               \*   exempt  the user has lifted the limits of the SoC
               \*   tops, bottoms   the limits a decision of this moment may obey

Allowed(w, k) ==
    /\ \E most \in k.tops : w <= most
    /\ \E least \in k.bottoms : least <= w
    /\ w # 0 => ~k.blind
    /\ ~k.exempt => ~(k.empty /\ w < 0) /\ ~(k.full /\ w > 0)

Learn == known' # known /\ UNCHANGED setpoint

\* Deciding and learning what forbids the decision may be one step.
Publish == setpoint' # setpoint /\ Allowed(setpoint', known')

Init == setpoint = 0

Spec == Init /\ [][Learn \/ Publish]_<<setpoint, known>>
=============================================================================
