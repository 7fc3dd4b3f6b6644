---------------------------- MODULE GoodWeBridge ----------------------------
(***************************************************************************)
(* The GoodWe bridge (host-services/goodwe_bridge.py) with its two         *)
(* backends and the inverter behind them.                                  *)
(*                                                                         *)
(* Every charge or discharge setpoint message starts a coroutine.  It runs *)
(* without interruption up to its first await: taking the write lock of    *)
(* ModbusBackend when that is taken, a register write, or a request of     *)
(* GoodWeBackend.  Both locks are asyncio.Locks and first come, first      *)
(* served, so each is a queue here whose head holds the lock: writes and   *)
(* requests.  A coroutine carries the targets it read at its start.        *)
(*                                                                         *)
(* Left out: publications, metrics and logs, dry_run, and control_state,   *)
(* which only starts a second poll.                                        *)
(*                                                                         *)
(* The goodwe library has none of the methods _call_first_available asks   *)
(* for on this inverter family, so a command is two requests.              *)
(***************************************************************************)
EXTENDS Integers, Sequences, FiniteSets

CONSTANTS
    SetpointWatts,      \* [direction |-> payloads of its setpoint topic]
    PowersRead,         \* battery power as the API reports it, discharge positive
    InverterMaxW,       \* INVERTER_MAX_W
    LimitMinChangeW,    \* MIN_TARGET_CHANGE_W
    SettlePowerW,       \* OPPOSITE_DIRECTION_SETTLE_POWER_W
    Interval,           \* MIN_WRITE_INTERVAL_SEC, in units of time
    Refresh,            \* WRITE_REFRESH_INTERVAL_SEC, in the same units
    Faults,             \* what can go wrong: "modbus", "api", "restart"
    MaxCoroutines       \* a bound on the coroutines alive at one time

Sides == {"charge", "discharge"}

ASSUME BridgeConstants ==
    /\ SetpointWatts \in [Sides -> SUBSET Int]
    /\ PowersRead \subseteq Int
    /\ InverterMaxW \in Nat \ {0}
    /\ {LimitMinChangeW, SettlePowerW, Interval, Refresh, MaxCoroutines} \subseteq Nat
    /\ Interval <= Refresh
    /\ Faults \subseteq {"modbus", "api", "restart"}

VARIABLES
    bridge,     \* the GoodWeBridge object
    modbus,     \* the ModbusBackend object: what it wrote last, and when
    writes,     \* coroutines at ModbusBackend._write_lock
    requests,   \* coroutines at GoodWeBackend._request_lock
    inverter,   \* limit registers and forced percentages in the device
    torn        \* history: was the last pair of writes or requests cut short?

bridgeVars == <<bridge, modbus, writes, requests, inverter, torn>>

Zero == [d \in Sides |-> 0]
Watts == [Sides -> Nat]

Command == [kind : {"charge", "discharge", "stop"}, watts : Nat]
NoCommand == [kind |-> "none", watts |-> 0]
Read == [kind |-> "read", watts |-> 0]

\* An age counts up to the longest time it is compared with and stays there.
Never == -1
Ages == {Never} \cup 0 .. Refresh
Fresh(age) == age \in 0 .. Interval - 1
Due(age) == age >= Refresh
AgedOnce(age, longest) == IF age \in 0 .. longest - 1 THEN age + 1 ELSE age

\* A reading without battery power steers like a reading of 0 W: power 0.
NewBridge == [target |-> Zero, last |-> Zero, writeAge |-> Never,
              command |-> NoCommand, commandAge |-> Never,
              power |-> 0, powerAge |-> Never]

NewModbus == [limit |-> Zero, age |-> Never]

\* The device keeps what an earlier run of the bridge left in it.
BridgeInit ==
    /\ bridge = NewBridge
    /\ modbus = NewModbus
    /\ writes = <<>>
    /\ requests = <<>>
    /\ \E d \in Sides, p \in {0, 50} :
         inverter = [limit |-> Zero, force |-> [Zero EXCEPT ![d] = p]]
    /\ torn = [write |-> FALSE, command |-> FALSE]

-----------------------------------------------------------------------------
(* Conversions and decisions *)

\* Mutant: a negative payload is taken as it is.
Unchecked(w) == w

NotNegative(w) == IF w > 0 THEN w ELSE 0
Clamped(w) == IF w < InverterMaxW THEN w ELSE InverterMaxW
LimitChange(v, w) == IF v < w THEN w - v ELSE v - w

\* _watts_to_pct; Python's round takes a half to the even neighbour.
Percent(w) ==
    LET n == 100 * Clamped(w)
        q == n \div InverterMaxW
        r == 2 * (n % InverterMaxW)
    IN  IF r > InverterMaxW \/ (r = InverterMaxW /\ q % 2 = 1) THEN q + 1 ELSE q

\* _opposite_direction_settling
Settling(d, w) ==
    /\ w > 0
    /\ Fresh(bridge.powerAge)
    /\ IF d = "charge" THEN bridge.power > SettlePowerW
                       ELSE bridge.power < -SettlePowerW

\* A positive target clears the other one.
Targets(d, w) ==
    IF w > 0 THEN [Zero EXCEPT ![d] = w] ELSE [bridge.target EXCEPT ![d] = w]

\* _select_api_command
Selected(t) ==
    IF t["charge"] > 0 /\ t["charge"] >= t["discharge"]
    THEN [kind |-> "charge", watts |-> t["charge"]]
    ELSE IF t["discharge"] > 0 THEN [kind |-> "discharge", watts |-> t["discharge"]]
    ELSE [kind |-> "stop", watts |-> 0]

\* Mutant: set_charge and set_discharge send their own percentage alone.
ForcedModeAlone(command) ==
    [d \in Sides |-> IF command.kind \in {d, "stop"} THEN Percent(command.watts)
                     ELSE inverter.force[d]]

\* What a command leaves in the device: both percentages are sent each time.
ForcedMode(command) ==
    [d \in Sides |-> IF command.kind = d THEN Percent(command.watts) ELSE 0]

BelowMinDelta(t, limit) ==
    /\ t # limit
    /\ \A d \in Sides : LimitChange(t[d], limit[d]) < LimitMinChangeW

\* _apply_actuator_targets: the bridge's own reasons to skip the registers
BridgeSkips(t, changed) ==
    \/ /\ t = bridge.last
       /\ ~changed
       /\ bridge.command # NoCommand
       /\ ~Due(bridge.writeAge)
    \/ ~changed /\ BelowMinDelta(t, bridge.last)
    \/ Fresh(bridge.writeAge)

\* ModbusBackend.set_battery_limits: its reasons, under the lock
BackendSkips(t, changed) ==
    LET limit == [d \in Sides |-> Clamped(t[d])]
    IN  \/ limit = modbus.limit /\ ~Due(modbus.age)
        \/ ~changed /\ BelowMinDelta(limit, modbus.limit)
        \/ Fresh(modbus.age)

\* _apply_api_command up to its await: the queue with the command for t, unless
\* the command accepted last is the same one.
Requested(t) ==
    IF Selected(t) = bridge.command /\ ~Due(bridge.commandAge)
    THEN requests
    ELSE Append(requests, [command |-> Selected(t), second |-> FALSE])

-----------------------------------------------------------------------------
(* Setpoint messages *)

\* handle_charge_setpoint, handle_discharge_setpoint up to the first await.  A
\* message dropped for settling and one that changes nothing are no steps.
Setpoint(d, watts) ==
    LET w == NotNegative(watts)
        t == Targets(d, w)
        changed == bridge.target[d] = 0 /\ w > 0
    IN  /\ Len(writes) + Len(requests) < MaxCoroutines
        /\ ~Settling(d, w)
        /\ t # bridge.target \/ bridge.command = NoCommand
        /\ bridge' = [bridge EXCEPT !.target = t]
        /\ IF BridgeSkips(t, changed) \/ (writes = <<>> /\ BackendSkips(t, changed))
           THEN requests' = Requested(t) /\ UNCHANGED writes
           ELSE /\ writes' = Append(writes,
                                [target |-> t, changed |-> changed,
                                 at |-> IF writes = <<>> THEN "charge" ELSE "lock"])
                /\ UNCHANGED requests
        /\ UNCHANGED <<modbus, inverter, torn>>

-----------------------------------------------------------------------------
(* ModbusBackend.set_battery_limits *)

\* Mutant: without a register write there is no API command either.
LeaveLockOnly ==
    /\ writes' = Tail(writes)
    /\ UNCHANGED requests

\* The coroutine that leaves the lock goes on to its API command at once.
LeaveLock ==
    /\ writes' = Tail(writes)
    /\ requests' = Requested(Head(writes).target)

AtRegister(d) == writes # <<>> /\ Head(writes).at = d

\* The next one in the queue is woken and checks what it finds.
TakeLock ==
    /\ writes # <<>>
    /\ Head(writes).at = "lock"
    /\ IF BackendSkips(Head(writes).target, Head(writes).changed)
       THEN LeaveLock
       ELSE writes' = [writes EXCEPT ![1].at = "charge"] /\ UNCHANGED requests
    /\ UNCHANGED <<bridge, modbus, inverter, torn>>

RegisterSet(d) == [inverter EXCEPT !.limit[d] = Clamped(Head(writes).target[d])]

WriteChargeRegister ==
    /\ AtRegister("charge")
    /\ inverter' = RegisterSet("charge")
    /\ writes' = [writes EXCEPT ![1].at = "discharge"]
    /\ torn' = [torn EXCEPT !.write = TRUE]
    /\ UNCHANGED <<bridge, modbus, requests>>

\* Mutant: both writes go to the charge register.
WriteChargeRegisterAgain ==
    /\ AtRegister("discharge")
    /\ inverter' = RegisterSet("charge")
    /\ modbus' = [limit |-> [d \in Sides |-> Clamped(Head(writes).target[d])],
                  age |-> 0]
    /\ writes' = [writes EXCEPT ![1].at = "settle"]
    /\ torn' = [torn EXCEPT !.write = FALSE]
    /\ UNCHANGED <<bridge, requests>>

WriteDischargeRegister ==
    /\ AtRegister("discharge")
    /\ inverter' = RegisterSet("discharge")
    /\ modbus' = [limit |-> [d \in Sides |-> Clamped(Head(writes).target[d])],
                  age |-> 0]
    /\ writes' = [writes EXCEPT ![1].at = "settle"]
    /\ torn' = [torn EXCEPT !.write = FALSE]
    /\ UNCHANGED <<bridge, requests>>

\* POST_WRITE_FEEDBACK_SETTLE_SEC is over: the bridge notes the success.
Settled ==
    /\ AtRegister("settle")
    /\ bridge' = [bridge EXCEPT !.last = Head(writes).target, !.writeAge = 0]
    /\ LeaveLock
    /\ UNCHANGED <<modbus, inverter, torn>>

\* Mutant: a failed write is noted like a successful one.
WriteFailsUnnoticed ==
    /\ "modbus" \in Faults
    /\ \E d \in Sides :
         /\ AtRegister(d)
         /\ inverter' \in {inverter, RegisterSet(d)}
    /\ bridge' = [bridge EXCEPT !.last = Head(writes).target, !.writeAge = 0]
    /\ LeaveLock
    /\ torn' = [torn EXCEPT !.write = TRUE]
    /\ UNCHANGED modbus

\* A write raises, whether or not it reached the device; _apply_modbus_limits
\* reports it and the API command follows all the same.
WriteFails ==
    /\ "modbus" \in Faults
    /\ \E d \in Sides :
         /\ AtRegister(d)
         /\ inverter' \in {inverter, RegisterSet(d)}
    /\ LeaveLock
    /\ torn' = [torn EXCEPT !.write = TRUE]
    /\ UNCHANGED <<bridge, modbus>>

-----------------------------------------------------------------------------
(* GoodWeBackend: set_charge, set_discharge, stop_forced_mode, read_status *)

\* The commands among the requests; the others are polls.
Pending == {i \in DOMAIN requests : requests[i].command # Read}

InRequest(d) ==
    /\ requests # <<>>
    /\ Head(requests).command # Read
    /\ Head(requests).second = (d = "discharge")

PercentSet(d) ==
    [inverter EXCEPT !.force[d] = ForcedMode(Head(requests).command)[d]]

ChargePercentSent ==
    /\ InRequest("charge")
    /\ inverter' = PercentSet("charge")
    /\ requests' = [requests EXCEPT ![1].second = TRUE]
    /\ torn' = [torn EXCEPT !.command = TRUE]
    /\ UNCHANGED <<bridge, modbus, writes>>

\* Mutant: the targets of the moment are noted as the accepted command.
NotesTheTargets ==
    /\ InRequest("discharge")
    /\ inverter' = PercentSet("discharge")
    /\ requests' = Tail(requests)
    /\ bridge' = [bridge EXCEPT !.command = Selected(bridge.target), !.commandAge = 0]
    /\ torn' = [torn EXCEPT !.command = FALSE]
    /\ UNCHANGED <<modbus, writes>>

DischargePercentSent ==
    /\ InRequest("discharge")
    /\ inverter' = PercentSet("discharge")
    /\ requests' = Tail(requests)
    /\ bridge' = [bridge EXCEPT !.command = Head(requests).command, !.commandAge = 0]
    /\ torn' = [torn EXCEPT !.command = FALSE]
    /\ UNCHANGED <<modbus, writes>>

\* _apply_api_command catches it and keeps the command accepted before.
RequestFails ==
    /\ "api" \in Faults
    /\ \E d \in Sides :
         /\ InRequest(d)
         /\ inverter' \in {inverter, PercentSet(d)}
    /\ requests' = Tail(requests)
    /\ torn' = [torn EXCEPT !.command = TRUE]
    /\ UNCHANGED <<bridge, modbus, writes>>

\* polling_loop and poll_once_safely each have at most one poll under way.
Poll ==
    /\ Len(writes) + Len(requests) < MaxCoroutines
    /\ Cardinality(DOMAIN requests \ Pending) < 2
    /\ requests' = Append(requests, [command |-> Read, second |-> FALSE])
    /\ UNCHANGED <<bridge, modbus, writes, inverter, torn>>

\* poll_once; the composite backend makes a failed read an empty one.
ReadAnswers ==
    /\ requests # <<>>
    /\ Head(requests).command = Read
    /\ requests' = Tail(requests)
    /\ \E p \in PowersRead \cup {0} :
         bridge' = [bridge EXCEPT !.power = p, !.powerAge = 0]
    /\ UNCHANGED <<modbus, writes, inverter, torn>>

-----------------------------------------------------------------------------
(* Time and restarts *)

Tick ==
    /\ bridge' = [bridge EXCEPT !.writeAge = AgedOnce(@, Refresh),
                                !.commandAge = AgedOnce(@, Refresh),
                                !.powerAge = AgedOnce(@, Interval)]
    /\ modbus' = [modbus EXCEPT !.age = AgedOnce(@, Refresh)]
    /\ UNCHANGED <<writes, requests, inverter, torn>>

Restart ==
    /\ "restart" \in Faults
    /\ bridge' = NewBridge
    /\ modbus' = NewModbus
    /\ writes' = <<>>
    /\ requests' = <<>>
    /\ UNCHANGED <<inverter, torn>>

BridgeNext ==
    \/ \E d \in Sides : \E w \in SetpointWatts[d] : Setpoint(d, w)
    \/ TakeLock
    \/ WriteChargeRegister
    \/ WriteDischargeRegister
    \/ Settled
    \/ WriteFails
    \/ ChargePercentSent
    \/ DischargePercentSent
    \/ RequestFails
    \/ Poll
    \/ ReadAnswers
    \/ Tick
    \/ Restart

BridgeSpec == BridgeInit /\ [][BridgeNext]_bridgeVars

-----------------------------------------------------------------------------
(* Properties *)

Write == [target : Watts, changed : BOOLEAN,
          at : {"lock", "charge", "discharge", "settle"}]
Request == [command : Command \cup {Read}, second : BOOLEAN]

\* Type correctness.  Only the head of a queue is at work.
BridgeTypeOK ==
    /\ bridge \in [target : Watts, last : Watts, writeAge : Ages,
                   command : Command \cup {NoCommand}, commandAge : Ages,
                   power : PowersRead \cup {0}, powerAge : Ages]
    /\ modbus \in [limit : Watts, age : Ages]
    /\ writes \in Seq(Write)
    /\ \A i \in 2 .. Len(writes) : writes[i].at = "lock"
    /\ requests \in Seq(Request)
    /\ \A i \in 2 .. Len(requests) : ~requests[i].second
    /\ inverter \in [limit : Watts, force : Watts]
    /\ torn \in [write : BOOLEAN, command : BOOLEAN]

\* The bridge's copy of the limits (_last_charge_setpoint_w and its like) and
\* the backend's (metrics.current_charge_limit_w) are updated at different
\* times; they differ only while the lock is held for the settling pause.
CopiesAgree ==
    ~AtRegister("settle") =>
        /\ modbus.limit = [d \in Sides |-> Clamped(bridge.last[d])]
        /\ bridge.writeAge = Never <=> modbus.age = Never
        /\ bridge.writeAge <= modbus.age

\* The two limit registers always come from one coroutine: what the backend
\* remembers is in the device, unless a write of the last pair failed or the
\* pair is being written.
RegistersAreOnePair ==
    modbus.age # Never /\ ~torn.write => inverter.limit = modbus.limit

\* The command the bridge believes to be active (_last_api_command) is the one
\* the device carries out, however coroutines interleave, unless a later one
\* was cut short or is being sent.
AcceptedCommandIsInForce ==
    bridge.command # NoCommand /\ ~torn.command =>
        inverter.force = ForcedMode(bridge.command)

\* The device is told to charge and to discharge at once only between the two
\* requests of set_charge, which sends the charge percentage first, or after a
\* pair that was cut short.
NeverForcedBothWays ==
    inverter.force["charge"] > 0 /\ inverter.force["discharge"] > 0 =>
        torn.command

\* The command in force when the coroutines under way are done, provided none
\* fails and each finds the last command changed, is the one for the targets.
InStep ==
    LET wanted == Selected(bridge.target)
    IN  IF writes # <<>> THEN Selected(writes[Len(writes)].target) = wanted
        ELSE IF Pending # {}
        THEN \A i \in Pending :
               (\A j \in Pending : j <= i) => requests[i].command = wanted
        ELSE bridge.command = wanted

\* What loses a command.
Overtakes ==           \* it skips the registers that an older one waits for
    writes # <<>> /\ writes' = writes /\ bridge'.target # bridge.target
ComparesTooEarly ==    \* it equals the last command, but another is under way
    /\ Pending # {}
    /\ Selected(bridge'.target) = bridge.command
    /\ requests' = requests
    /\ writes' = <<>>
LosesCommand == Overtakes \/ ComparesTooEarly \/ RequestFails \/ Restart

\* The bridge comes to command the inverter by its targets and stays so:
\* handlers and coroutines in any order keep the last command under way the one
\* the targets ask for, except the steps of LosesCommand.
CommandsFollowTargets == [][InStep => InStep' \/ LosesCommand]_bridgeVars

\* A stop stops: with nothing under way and both targets zero, the inverter is
\* not in forced mode.
StopStops ==
    /\ bridge.target = Zero
    /\ bridge.command # NoCommand
    /\ writes = <<>>
    /\ Pending = {}
    => inverter.force = Zero

=============================================================================
