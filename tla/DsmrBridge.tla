----------------------------- MODULE DsmrBridge -----------------------------
(***************************************************************************)
(* The bridge from the smart meter's broker to the Minyad broker           *)
(* (host-services/dsmr_bridge.py).  Four threads act: the network threads  *)
(* of the two clients, the status thread, which computes a status and then *)
(* publishes it, and the main one, which ends the others.                  *)
(*                                                                         *)
(* Everything is published retained and with QoS 0: without a connection   *)
(* it is lost.  The broker publishes the will when the bridge vanishes,    *)
(* not when it disconnects.  Powers are whole units.                       *)
(***************************************************************************)
EXTENDS Integers

CONSTANTS
    Fields,              \* the subscribed fields
    Delivered, Returned, \* the two that make the net power
    MeterValues,         \* what the meter may say of a field
    StaleTimeout, DeadTimeout,
    LastSecond           \* bound of the clock

ASSUME TimeoutAssumption ==
    /\ StaleTimeout \in Nat \ {0} /\ DeadTimeout \in Nat /\ StaleTimeout < DeadTimeout
    /\ {Delivered, Returned} \subseteq Fields

VARIABLES
    second,          \* time.monotonic()
    readings,        \* state, one value per field that was heard
    heardAt,         \* last_update_monotonic
    source, target,  \* source_connected, target_connected
    telling,         \* the status the status thread is about to publish
    phase,           \* of run(): "running", "told", "stopping", "stopped"
    gridStatus, gridNet,   \* the retained topics status and net_power_w
    overtaken              \* see the property

dsmrVars == <<second, readings, heardAt, source, target, telling, phase, gridStatus, gridNet, overtaken>>

Unheard == -1
Nothing == "nothing"

(***************************************************************************)
(* The source: a message of the meter, and the connection.                 *)
(***************************************************************************)
Complete(r) == r[Delivered] # Unheard /\ r[Returned] # Unheard
NetPower(r) == r[Delivered] - r[Returned]

\* A malformed payload is ignored and changes nothing.
Message ==
    \E field \in Fields, value \in MeterValues :
        /\ source /\ phase # "stopped"
        /\ readings' = [readings EXCEPT ![field] = value]
        /\ heardAt' = second
        /\ gridNet' = IF Complete(readings') /\ target THEN NetPower(readings') ELSE gridNet
        /\ UNCHANGED <<second, source, target, telling, phase, gridStatus, overtaken>>

SourceConnect ==
    /\ phase # "stopped" /\ ~source
    /\ source' = TRUE
    /\ UNCHANGED <<second, readings, heardAt, target, telling, phase, gridStatus, gridNet, overtaken>>

SourceDisconnect ==
    /\ phase # "stopped" /\ source
    /\ source' = FALSE
    /\ gridStatus' = IF target THEN "disconnected" ELSE gridStatus
    /\ UNCHANGED <<second, readings, heardAt, target, telling, phase, gridNet, overtaken>>

(***************************************************************************)
(* The target.                                                             *)
(***************************************************************************)
TargetConnect ==
    /\ phase # "stopped" /\ ~target
    /\ target' = TRUE
    /\ UNCHANGED <<second, readings, heardAt, source, telling, phase, gridStatus, gridNet, overtaken>>

TargetDisconnect ==
    /\ phase # "stopped" /\ target
    /\ target' = FALSE
    /\ gridStatus' = "disconnected"
    /\ UNCHANGED <<second, readings, heardAt, source, telling, phase, gridNet, overtaken>>

(***************************************************************************)
(* The status thread.                                                      *)
(***************************************************************************)
Age == second - heardAt

\* Mutant: the age alone decides.
StatusByAge ==
    IF heardAt = Unheard \/ Age > DeadTimeout THEN "disconnected"
    ELSE IF Age >= StaleTimeout THEN "stale"
    ELSE "ok"

CurrentStatus ==
    IF ~source \/ ~target \/ heardAt = Unheard \/ Age > DeadTimeout THEN "disconnected"
    ELSE IF Age >= StaleTimeout THEN "stale"
    ELSE "ok"

StatusDue ==
    /\ phase \in {"running", "told"} /\ telling = Nothing
    /\ telling' = CurrentStatus
    /\ UNCHANGED <<second, readings, heardAt, source, target, phase, gridStatus, gridNet, overtaken>>

StatusTold ==
    /\ telling # Nothing
    /\ telling' = Nothing
    /\ gridStatus' = IF target THEN telling ELSE gridStatus
    /\ overtaken' = (overtaken \/ (phase # "running" /\ telling # "disconnected"))
    /\ UNCHANGED <<second, readings, heardAt, source, target, phase, gridNet>>

(***************************************************************************)
(* The end of run(): told, the status thread joined, both clients stopped. *)
(* The join gives up after a while.                                        *)
(***************************************************************************)
ShutdownTold ==
    /\ phase = "running"
    /\ phase' = "told"
    /\ gridStatus' = IF target THEN "disconnected" ELSE gridStatus
    /\ UNCHANGED <<second, readings, heardAt, source, target, telling, gridNet, overtaken>>

StatusThreadStopped ==
    /\ phase = "told"
    /\ phase' = "stopping"
    /\ UNCHANGED <<second, readings, heardAt, source, target, telling, gridStatus, gridNet, overtaken>>

Disconnected ==
    /\ phase = "stopping"
    /\ phase' = "stopped"
    /\ source' = FALSE /\ target' = FALSE
    /\ UNCHANGED <<second, readings, heardAt, telling, gridStatus, gridNet, overtaken>>

Second ==
    /\ second < LastSecond
    /\ second' = second + 1
    /\ UNCHANGED <<readings, heardAt, source, target, telling, phase, gridStatus, gridNet, overtaken>>

DsmrInit ==
    /\ second = 0
    /\ readings = [f \in Fields |-> Unheard] /\ heardAt = Unheard
    /\ source = FALSE /\ target = FALSE
    /\ telling = Nothing /\ phase = "running"
    /\ gridStatus = "disconnected" /\ gridNet = 0
    /\ overtaken = FALSE

DsmrNext ==
    \/ Message \/ SourceConnect \/ SourceDisconnect \/ TargetConnect \/ TargetDisconnect
    \/ StatusDue \/ StatusTold
    \/ ShutdownTold \/ StatusThreadStopped \/ Disconnected
    \/ Second

\* The status thread runs: its loop waits, computes and publishes.
DsmrFairness == WF_dsmrVars(StatusDue) /\ WF_dsmrVars(StatusTold)

DsmrSpec == DsmrInit /\ [][DsmrNext]_dsmrVars /\ DsmrFairness

(***************************************************************************)
(* Properties.                                                             *)
(***************************************************************************)

\* The loss of the meter's broker and the end of the bridge end up in the
\* retained status (dsmr_bridge.py:230, :361), although the status thread may
\* publish an "ok" that it computed before: the next round corrects it.  Only
\* an "ok" that overtakes the end, when the thread has had its last round,
\* stays.
LossIsTold ==
    ~source \/ phase # "running" ~> (gridStatus = "disconnected" \/ overtaken \/ (source /\ phase = "running"))
=============================================================================
