----------------------------- MODULE BridgeReports -----------------------------
(***************************************************************************)
(* What the GoodWe bridge tells about itself and the battery               *)
(* (host-services/goodwe_bridge.py, the reading half of its backends), and *)
(* how those who listen judge its heartbeat: the strategy and Dryad with   *)
(* the stored interval and its grace, the control service and the API with *)
(* limits of their own.                                                    *)
(*                                                                         *)
(* The polling loop reads, tells, and waits for the interval that held     *)
(* when the wait began; a start of the control service polls at once,      *)
(* beside the loop.  Everything is told retained and with QoS 0: without a *)
(* connection it is lost.  The broker tells the will when the connection   *)
(* is lost.  The fields of a reading come and stay away together; of them  *)
(* the power and the mode are kept here.                                   *)
(***************************************************************************)
EXTENDS Integers

CONSTANTS
    Configured,     \* POLL_INTERVAL
    DefaultInterval, \* of the setting while no row has it
    Intervals,      \* what battery.inverter_poll_interval_s is set to
    Payloads,       \* other payloads of its topic, all of them invalid
    Grace,          \* battery.goodwe_poll_interval_grace_s
    FixedLimits,    \* the heartbeat ages the control service and the API allow
    ReadTime,       \* how long a read takes at most
    Answers,        \* what the inverter answers: [watts, code, label]
    Targets,        \* targets an accepted command may find
    LastInstant     \* bound of the clock

ASSUME ReportConstants ==
    /\ {Configured, DefaultInterval} \cup Intervals \cup FixedLimits \subseteq Nat \ {0}
    /\ \A p \in Payloads : p < 1
    /\ {Grace, ReadTime} \subseteq Nat

VARIABLES
    instant,
    linked,         \* the bridge is connected to the broker
    looping,        \* of the polling loop: "reading", "waiting", "stopped"
    spent,          \* since the read or the wait began
    promised,       \* the length of the last wait
    extra,          \* the read _immediate_poll_task is in: time spent, or Idle
    heard,          \* _mqtt_poll_interval
    storedInterval, \* the row
    told            \* retained: bridge status, last_seen, inverter, watts, mode

reportVars == <<instant, linked, looping, spent, promised, extra, heard, storedInterval, told>>

Idle == -1
NeverHeard == 0
UnknownMode == "unknown"
Untold == "untold"
NoAnswer == [watts |-> 0, mode |-> Untold]

(***************************************************************************)
(* A reading.  The composite backend asks the API only, and makes of every *)
(* failure a reading without values and without a Modbus error.            *)
(***************************************************************************)
BatteryModeLabel(code, label) ==
    CASE label \in {"charge", "discharge", "idle"} -> label
      [] label \notin {"charge", "discharge", "idle"} /\ code = 0 -> "idle"
      [] label \notin {"charge", "discharge", "idle"} /\ code = 1 -> "charge"
      [] label \notin {"charge", "discharge", "idle"} /\ code = 2 -> "discharge"
      [] OTHER -> UnknownMode

ApiStates == {[watts |-> a.watts, mode |-> BatteryModeLabel(a.code, a.label)] : a \in Answers}

ReadOptional == ApiStates \cup {NoAnswer}

Telemetry(state) == [state |-> state, modbusError |-> {}]

StatusForState(telemetry) == IF telemetry.modbusError = {} THEN "ok" ELSE "unreachable"

(***************************************************************************)
(* What is told.                                                           *)
(***************************************************************************)
Alive(topics) == [topics EXCEPT !.bridge = "online", !.lastSeen = instant]

WithValues(topics, state) ==
    IF state = NoAnswer THEN topics ELSE [topics EXCEPT !.watts = state.watts, !.mode = state.mode]

\* Mutant: only a reading with values is a sign of life.
ReportedIfHeard(topics, state) ==
    LET shown == [WithValues(topics, state) EXCEPT !.inverter = StatusForState(Telemetry(state))] IN
    IF state = NoAnswer THEN shown ELSE Alive(shown)

Reported(topics, state) ==
    Alive([WithValues(topics, state) EXCEPT !.inverter = StatusForState(Telemetry(state))])

Publish(topics) == told' = IF linked THEN topics ELSE told

(***************************************************************************)
(* The polling loop.                                                       *)
(***************************************************************************)
\* The MQTT value, the row, or what is configured when the database fails.
LoadPollInterval ==
    IF heard # NeverHeard THEN {heard} ELSE {storedInterval, Configured} \ {NeverHeard}

PollOnce ==
    \E state \in ReadOptional, interval \in LoadPollInterval :
        /\ looping = "reading"
        /\ Publish(Reported(told, state))
        /\ looping' = "waiting" /\ spent' = 0 /\ promised' = interval
        /\ UNCHANGED <<instant, linked, extra, heard, storedInterval>>

PollAgain ==
    /\ looping = "waiting" /\ spent = promised
    /\ looping' = "reading" /\ spent' = 0
    /\ UNCHANGED <<instant, linked, promised, extra, heard, storedInterval, told>>

\* The control service leaves IDLE; one such read at a time.
ScheduleImmediatePoll ==
    /\ linked /\ looping # "stopped" /\ extra = Idle
    /\ extra' = 0
    /\ UNCHANGED <<instant, linked, looping, spent, promised, heard, storedInterval, told>>

ImmediatePoll ==
    \E state \in ReadOptional :
        /\ extra # Idle /\ extra' = Idle
        /\ Publish(Reported(told, state))
        /\ UNCHANGED <<instant, linked, looping, spent, promised, heard, storedInterval>>

Commanded ==
    {[watts |-> -w, mode |-> "charge"] : w \in Targets} \cup {[watts |-> w, mode |-> "discharge"] : w \in Targets}
        \cup {[watts |-> 0, mode |-> "idle"]}

\* The accepted command is told before the inverter shows it, with the
\* target of that moment.
CommandAccepted ==
    \E state \in Commanded :
        /\ looping # "stopped"
        /\ Publish(WithValues(told, state))
        /\ UNCHANGED <<instant, linked, looping, spent, promised, extra, heard, storedInterval>>

(***************************************************************************)
(* The connection and the settings.                                        *)
(***************************************************************************)
OnConnect ==
    /\ ~linked /\ looping # "stopped"
    /\ linked' = TRUE /\ told' = Alive(told)
    /\ UNCHANGED <<instant, looping, spent, promised, extra, heard, storedInterval>>

OnDisconnect ==
    /\ linked
    /\ linked' = FALSE
    /\ told' = IF looping = "stopped" THEN told ELSE [told EXCEPT !.bridge = "offline"]
    /\ UNCHANGED <<instant, looping, spent, promised, extra, heard, storedInterval>>

\* The publication of a setting may be lost, so that the broker retains one
\* that was stored before.
HandlePollInterval ==
    \E payload \in Payloads \cup Intervals :
        /\ linked /\ looping # "stopped"
        /\ heard' = IF payload < 1 THEN heard ELSE payload
        /\ UNCHANGED <<instant, linked, looping, spent, promised, extra, storedInterval, told>>

PublishBatteryMqttSettings ==
    \E interval \in Intervals \ {storedInterval} :
        /\ storedInterval' = interval
        /\ UNCHANGED <<instant, linked, looping, spent, promised, extra, heard, told>>

\* The shutdown interrupts the wait; the farewell is the last that is told.
RunEnds ==
    /\ looping = "waiting"
    /\ looping' = "stopped" /\ extra' = Idle
    /\ Publish([told EXCEPT !.bridge = "offline", !.inverter = "unreachable"])
    /\ UNCHANGED <<instant, linked, spent, promised, heard, storedInterval>>

InstantPasses ==
    /\ instant < LastInstant /\ instant' = instant + 1
    /\ looping = "reading" => spent < ReadTime
    /\ looping = "waiting" => spent < promised
    /\ spent' = IF looping = "stopped" THEN spent ELSE spent + 1
    /\ extra < ReadTime
    /\ extra' = IF extra = Idle THEN Idle ELSE extra + 1
    /\ UNCHANGED <<linked, looping, promised, heard, storedInterval, told>>

(***************************************************************************)
(* Those who listen.                                                       *)
(***************************************************************************)
LastSeenAge == instant - told.lastSeen

DerivedBridgeStale == (IF storedInterval = NeverHeard THEN DefaultInterval ELSE storedInterval) + Grace

\* bridge_is_available, enrich_bridge_health, value_is_fresh_iso
LooksAlive(limit) == told.bridge = "online" /\ LastSeenAge <= limit

BatteryHealth(limit) == IF LooksAlive(limit) /\ told.mode # Untold THEN "ok" ELSE "warning"

(***************************************************************************)
(* The broker may retain what an earlier run said.                         *)
(***************************************************************************)
ReportInit ==
    /\ instant = 0 /\ linked = FALSE
    /\ looping = "reading" /\ spent = 0 /\ promised = 0 /\ extra = Idle
    /\ heard = NeverHeard /\ storedInterval \in Intervals \cup {NeverHeard}
    /\ told = [bridge |-> "offline", lastSeen |-> Idle, inverter |-> "unreachable", watts |-> 0, mode |-> Untold]

ReportNext ==
    \/ PollOnce \/ PollAgain \/ ScheduleImmediatePoll \/ ImmediatePoll \/ CommandAccepted
    \/ OnConnect \/ OnDisconnect \/ HandlePollInterval \/ PublishBatteryMqttSettings
    \/ RunEnds \/ InstantPasses

ReportSpec == ReportInit /\ [][ReportNext]_reportVars

(***************************************************************************)
(* Properties.                                                             *)
(***************************************************************************)

\* A bridge that is connected and waits no longer than a listener allows,
\* less the time of a read, looks alive to that listener at any moment:
\* between two polls, after a lost connection, while the inverter does not
\* answer (goodwe_bridge.py:363, :691, :763).  A wait that began before the
\* interval was lowered, and a limit shorter than the interval, are why the
\* wait is in it.  A bridge that ended or lost its connection does not.
HeartbeatsKeepUp ==
    /\ \A limit \in FixedLimits \cup {DerivedBridgeStale} :
         linked /\ looping # "stopped" /\ promised + ReadTime <= limit => LooksAlive(limit)
    /\ ~linked /\ looping # "stopped" => told.bridge = "offline"
=============================================================================
