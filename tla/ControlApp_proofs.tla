------------------------- MODULE ControlApp_proofs -------------------------
(* Theorems about ControlApp, for every choice of its constants.            *)
EXTENDS ControlApp, HysteresisFsm_proofs

\* An object the handlers may find and leave.
AppOK(a) == a \in App /\ FsmInv(a.fsm)

-----------------------------------------------------------------------------
(* What the methods make of the object *)

\* The fields whose types the lemmas below use.
LEMMA AppFields ==
    ASSUME NEW a, AppOK(a)
    PROVE  /\ FsmOK(a.fsm) /\ a.fsm \in Fsm
           /\ a.fsm.state \in States
           /\ a.grid \in Int /\ a.power \in Int
           /\ a.setpoint \in Nat /\ a.charge \in Nat /\ a.discharge \in Nat
<1>1. /\ a.fsm \in Fsm /\ FsmInv(a.fsm)
      /\ a.grid \in GridSamples \cup {0} /\ a.power \in BatteryPowers \cup {0}
      /\ a.setpoint \in Nat /\ a.charge \in Nat /\ a.discharge \in Nat
  BY DEF AppOK, App
<1>2. a.fsm.state \in States
  BY <1>1 DEF Fsm
<1>3. GridSamples \cup {0} \subseteq Int /\ BatteryPowers \cup {0} \subseteq Int
  BY WattsAreIntegers
<1> QED
  BY <1>1, <1>2, <1>3 DEF FsmOK

\* The targets and caps are amounts of power.
LEMMA Watts ==
    /\ \A w \in Int : Positive(w) \in Nat
    /\ \A w \in Nat, cap \in Nat : AtMost(w, cap) \in Nat
    /\ \A a : AppOK(a) => ChargeTarget(a) \in Nat /\ DischargeTarget(a) \in Nat
<1>1. \A w \in Int : Positive(w) \in Nat
  BY DEF Positive
<1>2. \A w \in Nat, cap \in Nat : AtMost(w, cap) \in Nat
  BY DEF AtMost
<1>3. ASSUME NEW a, AppOK(a)
      PROVE  ChargeTarget(a) \in Nat /\ DischargeTarget(a) \in Nat
  BY <1>1, <1>3, AppFields DEF ChargeTarget, DischargeTarget
<1> QED
  BY <1>1, <1>2, <1>3

\* A new controller in an object of the type.
LEMMA WithFsmOK ==
    ASSUME NEW a, AppOK(a), NEW f, FsmOK(f)
    PROVE  AppOK([a EXCEPT !.fsm = f])
BY DEF AppOK, App, FsmOK

\* _force_controller_idle
LEMMA IdledOK ==
    ASSUME NEW a, AppOK(a)
    PROVE  AppOK(Idled(a))
BY AppFields, ForcedOK, WithFsmOK DEF Idled

\* publish_battery_limits
LEMMA PublishedOK ==
    ASSUME NEW a, AppOK(a), NEW c \in Nat, NEW d \in Nat, NEW changed
    PROVE  AppOK(Published(a, c, d, changed))
BY DEF AppOK, App, Published

\* A new setpoint.
LEMMA WithSetpointOK ==
    ASSUME NEW a, AppOK(a), NEW w \in Nat
    PROVE  AppOK([a EXCEPT !.setpoint = w])
BY DEF AppOK, App

\* stop_charging
LEMMA StoppedOK ==
    ASSUME NEW a, AppOK(a)
    PROVE  AppOK(Stopped(a))
<1>1. 0 \in Nat
  OBVIOUS
<1> QED
  BY <1>1, WithSetpointOK, PublishedOK DEF Stopped

\* publish_setpoint
LEMMA ChargeSetOK ==
    ASSUME NEW a, AppOK(a), NEW w \in Nat, NEW changed
    PROVE  AppOK(ChargeSet(a, w, changed))
<1>1. AtMost(w, MaxChargeW) \in Nat /\ 0 \in Nat
  BY Watts, WattsAreIntegers
<1> QED
  BY <1>1, WithSetpointOK, PublishedOK, IdledOK DEF ChargeSet

\* publish_discharge_setpoint
LEMMA DischargeSetOK ==
    ASSUME NEW a, AppOK(a), NEW w \in Nat, NEW changed
    PROVE  AppOK(DischargeSet(a, w, changed))
<1>1. AtMost(w, MaxDischargeW) \in Nat /\ 0 \in Nat
  BY Watts, WattsAreIntegers
<1> QED
  BY <1>1, WithSetpointOK, PublishedOK, IdledOK DEF DischargeSet

\* mark_bridge_unavailable
LEMMA UnreachableOK ==
    ASSUME NEW a, AppOK(a)
    PROVE  AppOK(Unreachable(a))
<1>1. 0 \in Nat
  OBVIOUS
<1> QED
  BY <1>1, IdledOK, WithSetpointOK DEF Unreachable

\* _apply_soc_guard
LEMMA GuardedOK ==
    ASSUME NEW a, AppOK(a), NEW s \in Int
    PROVE  AppOK(Guarded(a, s)) /\ Masked(a, s) \in Int
<1>1. AppOK(Guarded(a, s))
  BY IdledOK DEF Guarded
<1>2. Masked(a, s) \in Int
  BY ThresholdsAreWatts DEF Masked
<1> QED
  BY <1>1, <1>2

\* apply_slow_balance never asks for a negative limit.
LEMMA BalancedOK ==
    ASSUME NEW a, AppOK(a), NEW direction
    PROVE  Balanced(a, direction) \in Nat
<1> DEFINE export == Positive(-a.grid - GridDeadbandW)
           import == Positive(a.grid - GridDeadbandW)
           more   == IF direction = "CHARGING" THEN export ELSE import
           less   == IF direction = "CHARGING" THEN import ELSE export
           cap    == IF direction = "CHARGING" THEN MaxChargeW ELSE MaxDischargeW
           raw    == CASE more > 0 -> a.setpoint + Adjustment(more)
                       [] more <= 0 /\ less > 0 -> a.setpoint - Adjustment(less)
                       [] OTHER -> a.setpoint
<1>1. more \in Nat /\ less \in Nat /\ cap \in Nat
  <2>1. export \in Nat /\ import \in Nat
    BY AppFields, WattsAreIntegers DEF Positive
  <2>2. MaxChargeW \in Nat /\ MaxDischargeW \in Nat
    BY WattsAreIntegers
  <2> HIDE DEF export, import
  <2> QED
    BY <2>1, <2>2
<1>2. ASSUME NEW r \in Nat
      PROVE  Adjustment(r) \in Int
  <2>1. r \div GainDivisor \in Int
    BY WattsAreIntegers
  <2> QED
    BY <2>1, WattsAreIntegers DEF Adjustment, AtMost
<1>3. raw \in Int
  BY <1>1, <1>2, AppFields
<1>4. Positive(AtMost(raw, cap)) \in Nat
  BY <1>1, <1>3 DEF Positive, AtMost
<1> QED
  BY <1>4 DEF Balanced

-----------------------------------------------------------------------------
(* The event loop *)

\* A task's locals have the types its name says.
LEMMA TaskLocals ==
    ASSUME NEW t \in Task
    PROVE  /\ t[1] = "grid" => t[2] \in GridSamples
           /\ t[1] \in {"gridStop", "gridStopped"} => t[2] \in Int /\ t[3] \in GridSamples
           /\ t[1] = "gridAdopted" => t[2] \in Int /\ t[3] \in Nat
           /\ t[1] = "adoptionRefused" => t[2] \in Int
           /\ t[1] = "chargeRefused" => t[2] \in BOOLEAN
           /\ t[1] = "schedule" => t[2] \in Callback
           /\ t[1] = "power" => t[2] \in BatteryPowers
           /\ t[1] = "soc" => t[2] \in SocLevels
           /\ t[1] = "status" => t[2] \in Statuses
           /\ t[1] = "lastSeen" => t[2] \in Heartbeats
           /\ t[1] = "override" => t[2] \in Overrides
BY DEF Task, Callback

\* The tasks a handler leaves behind.
LEMMA TasksLeft ==
    /\ \A n \in {"reload", "reloaded", "stop", "socStop", "telemetryStored",
                 "statusStored", "lastSeenStored", "loop", "loopStale"} : <<n>> \in Task
    /\ \A c \in Callback : <<c>> \in Task /\ <<"schedule", c>> \in Task
    /\ \A s \in Int, g \in GridSamples :
         <<"gridStop", s, g>> \in Task /\ <<"gridStopped", s, g>> \in Task
    /\ \A s \in Int, w \in Nat : <<"gridAdopted", s, w>> \in Task
    /\ \A s \in Int : <<"adoptionRefused", s>> \in Task
    /\ \A b \in BOOLEAN : <<"chargeRefused", b>> \in Task
BY DEF Task

\* One task is a sequence of tasks.
LEMMA OneTask ==
    ASSUME NEW t \in Task
    PROVE  <<t>> \in Seq(Task) /\ <<>> \in Seq(Task)
OBVIOUS

\* The callbacks of a transition are tasks.
LEMMA CallbacksOK == \A f, g : Callbacks(f, g) \in Seq(Task)
<1> SUFFICES ASSUME NEW f, NEW g PROVE Callbacks(f, g) \in Seq(Task)
  OBVIOUS
<1> DEFINE start == IF g.state = "CHARGING" THEN "startCharging" ELSE "startDischarging"
<1>1. start \in Callback /\ "stopCharging" \in Callback
  BY DEF Callback
<1>2. <<"schedule", start>> \in Task /\ <<"schedule", "stopCharging">> \in Task
  BY <1>1, TasksLeft
<1> HIDE DEF start
<1>3. /\ << <<"schedule", start>> >> \in Seq(Task)
      /\ << <<"schedule", "stopCharging">> >> \in Seq(Task)
      /\ <<>> \in Seq(Task)
  BY <1>2
<1>4. \A p \in Seq(Task), q \in Seq(Task) : p \o q \in Seq(Task)
  OBVIOUS
<1> QED
  BY <1>3, <1>4 DEF Callbacks, start

\* The inductive invariant.
IInv == TypeOK /\ ControllerConsistent

LEMMA IInvApp == IInv => AppOK(app)
BY DEF IInv, TypeOK, ControllerConsistent, AppOK

\* A handler that leaves a well-formed object and tasks keeps the invariant.
LEMMA LeavesOK ==
    ASSUME IInv, ready # <<>>,
           NEW a, AppOK(a), NEW tasks \in Seq(Task), NEW w \in Seq(Task),
           Leaves(a, tasks, w)
    PROVE  IInv'
<1>1. app' \in App /\ FsmInv(app'.fsm)
  BY DEF Leaves, AppOK
<1>2. Tail(ready) \in Seq(Task)
  BY DEF IInv, TypeOK
<1>3. ready' \in Seq(Task) /\ waiting' \in Seq(Task)
  BY <1>2 DEF Leaves, IInv, TypeOK
<1>4. fullCycle' \in Fridays
  BY DEF Leaves, IInv, TypeOK
<1> QED
  BY <1>1, <1>3, <1>4 DEF IInv, TypeOK, ControllerConsistent

\* The running task is a task.
LEMMA RunningTask ==
    ASSUME IInv, NEW n, Running(n)
    PROVE  ready # <<>> /\ Head(ready) \in Task /\ Head(ready)[1] = n
BY DEF IInv, TypeOK, Running

-----------------------------------------------------------------------------
(* Grid samples *)

\* apply_slow_balance and what it publishes.
LEMMA SlowBalanceOK ==
    ASSUME IInv, ready # <<>>, NEW a, AppOK(a),
           NEW direction, NEW tasks \in Seq(Task),
           SlowBalance(a, direction, tasks)
    PROVE  IInv'
<1> DEFINE target == Balanced(a, direction)
           Written(retry) == IF direction = "CHARGING" THEN ChargeSet(a, target, retry)
                                                       ELSE DischargeSet(a, target, retry)
<1>1. target \in Nat
  BY BalancedOK
<1> HIDE DEF target
<1>2. \A retry : AppOK(Written(retry))
  BY <1>1, ChargeSetOK, DischargeSetOK
<1>3. <<>> \in Seq(Task)
  OBVIOUS
<1>4. CASE Leaves(a, tasks, <<>>)
  BY <1>3, <1>4, LeavesOK
<1>5. CASE \E retry \in {FALSE, Ineffective(a, direction, target)} :
             Leaves(Written(retry), tasks, <<>>)
  BY <1>2, <1>3, <1>5, LeavesOK
<1> QED
  BY <1>4, <1>5 DEF SlowBalance, target

\* From the controller's tick to the end of the handler.
LEMMA TickAndPublishOK ==
    ASSUME IInv, ready # <<>>, NEW a, AppOK(a),
           NEW surplus \in Int, NEW rebalanced \in BOOLEAN,
           TickAndPublish(a, surplus, rebalanced)
    PROVE  IInv'
<1> DEFINE f == Ticked(a.fsm, surplus)
           b == [a EXCEPT !.fsm = f]
           calls == Callbacks(a.fsm, f)
           started(d) == a.fsm.state # d /\ f.state = d
           more == IF ChargeRefused(b, ChargeTarget(b))
                   THEN << <<"chargeRefused", rebalanced>> >> ELSE <<>>
           stop == IF DischargeRefused(b, DischargeTarget(b))
                   THEN << <<"stop">> >> ELSE <<>>
<1>1. AppOK(b)
  BY AppFields, TickedOK, WithFsmOK
<1>2. calls \in Seq(Task) /\ <<>> \in Seq(Task)
  BY CallbacksOK
<1>3. more \in Seq(Task) /\ stop \in Seq(Task)
  BY TasksLeft, OneTask
<1>4. calls \o more \in Seq(Task) /\ calls \o stop \in Seq(Task)
  <2> HIDE DEF calls, more, stop
  <2> QED
    BY <1>2, <1>3
<1>5. ChargeTarget(b) \in Nat /\ DischargeTarget(b) \in Nat
  BY <1>1, Watts
<1>6. \/ Leaves(ChargeSet(b, ChargeTarget(b), TRUE), calls \o more, <<>>)
      \/ SlowBalance(b, "CHARGING", calls)
      \/ Leaves(DischargeSet(b, DischargeTarget(b), TRUE), calls \o stop, <<>>)
      \/ SlowBalance(b, "DISCHARGING", calls)
      \/ Leaves(b, calls, <<>>)
  BY DEF TickAndPublish
<1> HIDE DEF b, calls, more, stop
<1>7. CASE Leaves(ChargeSet(b, ChargeTarget(b), TRUE), calls \o more, <<>>)
  BY <1>1, <1>2, <1>4, <1>5, <1>7, ChargeSetOK, LeavesOK
<1>8. CASE SlowBalance(b, "CHARGING", calls)
  BY <1>1, <1>2, <1>8, SlowBalanceOK
<1>9. CASE Leaves(DischargeSet(b, DischargeTarget(b), TRUE), calls \o stop, <<>>)
  BY <1>1, <1>2, <1>4, <1>5, <1>9, DischargeSetOK, LeavesOK
<1>10. CASE SlowBalance(b, "DISCHARGING", calls)
  BY <1>1, <1>2, <1>10, SlowBalanceOK
<1>11. CASE Leaves(b, calls, <<>>)
  BY <1>1, <1>2, <1>11, LeavesOK
<1> QED
  BY <1>6, <1>7, <1>8, <1>9, <1>10, <1>11

\* _rebalance_untracked_idle_discharge, then the tick.
LEMMA RebalanceAndTickOK ==
    ASSUME IInv, ready # <<>>, NEW a, AppOK(a),
           NEW surplus \in Int, NEW grid \in Int,
           RebalanceAndTick(a, surplus, grid)
    PROVE  IInv'
<1> DEFINE b == [a EXCEPT !.fsm = Forced(@, "DISCHARGING")]
           t == <<"gridAdopted", surplus, Positive(a.power + grid)>>
<1>1. AppOK(b)
  BY AppFields, ForcedOK, WithFsmOK
<1>2. t \in Task
  <2>1. a.power + grid \in Int
    BY AppFields
  <2>2. Positive(a.power + grid) \in Nat
    BY <2>1, Watts
  <2> QED
    BY <2>2, TasksLeft
<1>3. \/ Leaves(b, <<>>, <<t>>)
      \/ TickAndPublish(a, surplus, FALSE)
  BY DEF RebalanceAndTick
<1> HIDE DEF b, t
<1> QED
  BY <1>1, <1>2, <1>3, OneTask, LeavesOK, TickAndPublishOK

\* handle_grid_power_topic, up to its first suspension.
LEMMA GridSampleOK == IInv /\ GridSample => IInv'
<1> SUFFICES ASSUME IInv, GridSample PROVE IInv'
  OBVIOUS
<1> DEFINE w == Local(2)
           a == [app EXCEPT !.grid = w]
           b == Guarded(a, -w)
           surplus == Masked(a, -w)
           t == <<"gridStop", surplus, w>>
<1>1. ready # <<>> /\ w \in GridSamples /\ w \in Int
  BY RunningTask, TaskLocals, WattsAreIntegers DEF GridSample, Local
<1>2. AppOK(a)
  BY <1>1, IInvApp DEF AppOK, App
<1>3. AppOK(b) /\ surplus \in Int
  BY <1>1, <1>2, GuardedOK
<1>4. t \in Task
  BY <1>1, <1>3, TasksLeft
<1>5. \/ Leaves(a, <<>>, <<>>)
      \/ Leaves(b, << t >>, <<>>)
      \/ RebalanceAndTick(a, surplus, w)
  BY DEF GridSample
<1> HIDE DEF w, a, b, surplus, t
<1> QED
  BY <1>1, <1>2, <1>3, <1>4, <1>5, OneTask, LeavesOK, RebalanceAndTickOK

\* Its continuations: after the stop, after the database, after the adoption.
LEMMA GridStopOK == IInv /\ GridStop => IInv'
<1> SUFFICES ASSUME IInv, GridStop PROVE IInv'
  OBVIOUS
<1>1. ready # <<>> /\ Local(2) \in Int /\ Local(3) \in GridSamples
  BY RunningTask, TaskLocals DEF GridStop, Local
<1>2. <<"gridStopped", Local(2), Local(3)>> \in Task
  BY <1>1, TasksLeft
<1>3. AppOK(Stopped(app))
  BY IInvApp, StoppedOK
<1> QED
  BY <1>1, <1>2, <1>3, OneTask, LeavesOK DEF GridStop

LEMMA GridStoppedOK == IInv /\ GridStopped => IInv'
<1> SUFFICES ASSUME IInv, GridStopped PROVE IInv'
  OBVIOUS
<1>1. ready # <<>> /\ Local(2) \in Int /\ Local(3) \in Int
  BY RunningTask, TaskLocals, WattsAreIntegers DEF GridStopped, Local
<1> QED
  BY <1>1, IInvApp, RebalanceAndTickOK DEF GridStopped

LEMMA GridAdoptedOK == IInv /\ GridAdopted => IInv'
<1> SUFFICES ASSUME IInv, GridAdopted PROVE IInv'
  OBVIOUS
<1>1. ready # <<>> /\ Local(2) \in Int /\ Local(3) \in Nat
  BY RunningTask, TaskLocals DEF GridAdopted, Local
<1>2. AppOK(DischargeSet(app, Local(3), FALSE))
  BY <1>1, IInvApp, DischargeSetOK
<1>3. <<"adoptionRefused", Local(2)>> \in Task
  BY <1>1, TasksLeft
<1> QED
  BY <1>1, <1>2, <1>3, OneTask, LeavesOK, TickAndPublishOK DEF GridAdopted

LEMMA AdoptionRefusedOK == IInv /\ AdoptionRefused => IInv'
<1> SUFFICES ASSUME IInv, AdoptionRefused PROVE IInv'
  OBVIOUS
<1>1. ready # <<>> /\ Local(2) \in Int
  BY RunningTask, TaskLocals DEF AdoptionRefused, Local
<1> QED
  BY <1>1, IInvApp, StoppedOK, TickAndPublishOK DEF AdoptionRefused

LEMMA ChargeRefusedStopOK == IInv /\ ChargeRefusedStop => IInv'
<1> SUFFICES ASSUME IInv, ChargeRefusedStop PROVE IInv'
  OBVIOUS
<1>1. ready # <<>>
  BY RunningTask DEF ChargeRefusedStop
<1>2. AppOK(Stopped(app)) /\ <<>> \in Seq(Task)
  BY IInvApp, StoppedOK
<1> QED
  BY <1>1, <1>2, SlowBalanceOK, LeavesOK DEF ChargeRefusedStop

-----------------------------------------------------------------------------
(* Callbacks, overrides and settings *)

\* The coroutines the callbacks schedule.
LEMMA CallbackOK ==
    IInv /\ (CreateTask \/ StartCharging \/ StartDischarging \/ StopCharging \/ Stop) => IInv'
<1> SUFFICES ASSUME IInv,
                    CreateTask \/ StartCharging \/ StartDischarging \/ StopCharging \/ Stop
             PROVE  IInv'
  OBVIOUS
<1>1. AppOK(app) /\ <<>> \in Seq(Task) /\ << <<"stop">> >> \in Seq(Task)
  BY IInvApp, TasksLeft
<1>2. CASE CreateTask
  <2>1. ready # <<>> /\ <<Local(2)>> \in Task
    BY <1>2, RunningTask, TaskLocals, TasksLeft DEF CreateTask, Local
  <2>2. << <<Local(2)>> >> \in Seq(Task)
    BY <2>1
  <2>3. Leaves(app, << <<Local(2)>> >>, <<>>)
    BY <1>2 DEF CreateTask
  <2> QED
    BY <1>1, <2>1, <2>2, <2>3, LeavesOK
<1>3. CASE StartCharging
  <2>1. ready # <<>> /\ AppOK(ChargeSet(app, ChargeTarget(app), FALSE))
    BY <1>1, <1>3, RunningTask, Watts, ChargeSetOK DEF StartCharging
  <2> QED
    BY <1>1, <1>3, <2>1, LeavesOK DEF StartCharging
<1>4. CASE StartDischarging
  <2>1. ready # <<>> /\ AppOK(DischargeSet(app, DischargeTarget(app), FALSE))
    BY <1>1, <1>4, RunningTask, Watts, DischargeSetOK DEF StartDischarging
  <2> QED
    BY <1>1, <1>4, <2>1, LeavesOK DEF StartDischarging
<1>5. CASE StopCharging
  BY <1>1, <1>5, RunningTask, LeavesOK DEF StopCharging
<1>6. CASE Stop
  BY <1>1, <1>6, RunningTask, StoppedOK, LeavesOK DEF Stop
<1> QED
  BY <1>2, <1>3, <1>4, <1>5, <1>6

\* apply_override
LEMMA ApplyOverrideOK == IInv /\ ApplyOverride => IInv'
<1> SUFFICES ASSUME IInv, ApplyOverride PROVE IInv'
  OBVIOUS
<1> DEFINE o == Local(2)
           f == Overridden(app.fsm, o.mode, o.pause)
           a == [app EXCEPT !.fsm = f]
           calls == Callbacks(app.fsm, f)
           refused == << <<"stop">> >>
           cleared == [app EXCEPT !.fsm = Cleared(@), !.setpoint = 0]
           afterCharge == IF ChargeRefused(a, o.watts) THEN refused ELSE <<>>
           afterDischarge == IF DischargeRefused(a, o.watts) THEN refused ELSE <<>>
<1>1. ready # <<>> /\ o.mode \in Modes /\ o.watts \in Nat /\ o.pause \in Pauses
  BY RunningTask, TaskLocals, CommandsAreWellFormed DEF ApplyOverride, Local
<1>2. AppOK(a)
  BY <1>1, IInvApp, AppFields, OverriddenOK, WithFsmOK
<1>3. AppOK(cleared)
  <2>1. FsmOK(Cleared(app.fsm))
    BY IInvApp, AppFields, ResumedOK
  <2> QED
    BY <2>1, IInvApp DEF AppOK, App, FsmOK
<1>4. /\ calls \in Seq(Task) /\ refused \in Seq(Task) /\ <<>> \in Seq(Task)
      /\ afterCharge \in Seq(Task) /\ afterDischarge \in Seq(Task)
  BY CallbacksOK, TasksLeft
<1>5. /\ AppOK(ChargeSet(a, o.watts, FALSE))
      /\ AppOK(DischargeSet(a, o.watts, FALSE))
  BY <1>1, <1>2, ChargeSetOK, DischargeSetOK
<1>6. \/ Leaves(cleared, <<>>, <<>>)
      \/ Leaves(ChargeSet(a, o.watts, FALSE), calls \o afterCharge, <<>>)
      \/ Leaves(DischargeSet(a, o.watts, FALSE), calls \o afterDischarge, <<>>)
      \/ Leaves(a, calls \o refused, <<>>)
  BY <1>1 DEF ApplyOverride, Modes
<1> HIDE DEF o, a, calls, refused, cleared, afterCharge, afterDischarge
<1>7. /\ calls \o afterCharge \in Seq(Task)
      /\ calls \o afterDischarge \in Seq(Task)
      /\ calls \o refused \in Seq(Task)
  BY <1>4
<1> QED
  BY <1>1, <1>2, <1>3, <1>4, <1>5, <1>6, <1>7, LeavesOK

\* reload_settings and the guard after it.
LEMMA ReloadOK == IInv /\ (Reload \/ Reloaded) => IInv'
<1> SUFFICES ASSUME IInv, Reload \/ Reloaded PROVE IInv'
  OBVIOUS
<1>1. AppOK(app) /\ <<>> \in Seq(Task)
  BY IInvApp
<1>2. CASE Reload
  BY <1>1, <1>2, RunningTask, TasksLeft, OneTask, LeavesOK DEF Reload
<1>3. CASE Reloaded
  <2>1. ready # <<>>
    BY <1>3, RunningTask DEF Reloaded
  <2>2. PICK l \in SocLimits :
          Leaves(Guarded([app EXCEPT !.limits = l, !.fsm = NewFsm], 0), <<>>, <<>>)
    BY <1>3 DEF Reloaded
  <2>3. AppOK([app EXCEPT !.limits = l, !.fsm = NewFsm])
    BY <1>1, NewFsmOK DEF AppOK, App, FsmOK
  <2>4. AppOK(Guarded([app EXCEPT !.limits = l, !.fsm = NewFsm], 0))
    BY <2>3, GuardedOK
  <2> QED
    BY <1>1, <2>1, <2>2, <2>4, LeavesOK
<1> QED
  BY <1>2, <1>3

-----------------------------------------------------------------------------
(* Battery telemetry and bridge health *)

\* handle_battery_topic and the stop of its guard.
LEMMA BatteryOK ==
    IInv /\ (SocReport \/ SocStop \/ PowerReport \/ TelemetryStored) => IInv'
<1> SUFFICES ASSUME IInv, SocReport \/ SocStop \/ PowerReport \/ TelemetryStored
             PROVE  IInv'
  OBVIOUS
<1>1. AppOK(app)
  BY IInvApp
<1>2. /\ << <<"socStop">> >> \in Seq(Task)
      /\ << <<"telemetryStored">> >> \in Seq(Task)
      /\ <<>> \in Seq(Task)
  BY TasksLeft
<1>3. CASE SocReport
  <2> DEFINE a == [app EXCEPT !.soc = Local(2)]
  <2>1. ready # <<>> /\ Local(2) \in SocLevels
    BY <1>3, RunningTask, TaskLocals DEF SocReport, Local
  <2>2. AppOK(a)
    BY <1>1, <2>1 DEF AppOK, App
  <2>3. AppOK(Guarded(a, 0))
    BY <2>2, GuardedOK
  <2>4. \/ Leaves(Guarded(a, 0), << <<"socStop">> >>, <<>>)
        \/ Leaves(a, <<>>, << <<"telemetryStored">> >>)
    BY <1>3 DEF SocReport
  <2> HIDE DEF a
  <2> QED
    BY <1>2, <2>1, <2>2, <2>3, <2>4, LeavesOK
<1>4. CASE SocStop
  BY <1>1, <1>2, <1>4, RunningTask, StoppedOK, LeavesOK DEF SocStop
<1>5. CASE PowerReport
  <2>1. ready # <<>> /\ Local(2) \in BatteryPowers
    BY <1>5, RunningTask, TaskLocals DEF PowerReport, Local
  <2>2. AppOK([app EXCEPT !.power = Local(2)])
    BY <1>1, <2>1 DEF AppOK, App
  <2>3. Leaves([app EXCEPT !.power = Local(2)], <<>>, << <<"telemetryStored">> >>)
    BY <1>5 DEF PowerReport
  <2> QED
    BY <1>2, <2>1, <2>2, <2>3, LeavesOK
<1>6. CASE TelemetryStored
  <2>1. ready # <<>>
    BY <1>6, RunningTask DEF TelemetryStored
  <2>2. AppOK([app EXCEPT !.seen = "fresh"])
    BY <1>1 DEF AppOK, App
  <2>3. \/ Leaves([app EXCEPT !.seen = "fresh"], <<>>, <<>>)
        \/ Leaves(app, <<>>, <<>>)
    BY <1>6 DEF TelemetryStored
  <2> QED
    BY <1>1, <1>2, <2>1, <2>2, <2>3, LeavesOK
<1> QED
  BY <1>3, <1>4, <1>5, <1>6

\* handle_bridge_status, handle_bridge_last_seen and publish_state_loop.
LEMMA BridgeOK ==
    /\ IInv
    /\ BridgeStatus \/ StatusStored \/ BridgeHeartbeat \/ LastSeenStored
         \/ StateLoop \/ LoopStale
    => IInv'
<1> SUFFICES ASSUME IInv,
                    BridgeStatus \/ StatusStored \/ BridgeHeartbeat \/ LastSeenStored
                      \/ StateLoop \/ LoopStale
             PROVE  IInv'
  OBVIOUS
<1>1. AppOK(app) /\ AppOK(Unreachable(app))
  BY IInvApp, UnreachableOK
<1>2. /\ << <<"statusStored">> >> \in Seq(Task)
      /\ << <<"lastSeenStored">> >> \in Seq(Task)
      /\ << <<"loopStale">> >> \in Seq(Task)
      /\ <<>> \in Seq(Task)
  BY TasksLeft
<1>3. CASE BridgeStatus
  <2> DEFINE a == [app EXCEPT !.status = Local(2)]
  <2>1. ready # <<>> /\ Local(2) \in Statuses
    BY <1>3, RunningTask, TaskLocals DEF BridgeStatus, Local
  <2>2. AppOK(a)
    BY <1>1, <2>1 DEF AppOK, App
  <2>3. \/ Leaves(a, <<>>, << <<"statusStored">> >>)
        \/ Leaves(a, <<>>, <<>>)
    BY <1>3 DEF BridgeStatus
  <2> HIDE DEF a
  <2> QED
    BY <1>2, <2>1, <2>2, <2>3, LeavesOK
<1>4. CASE StatusStored
  BY <1>1, <1>2, <1>4, RunningTask, LeavesOK DEF StatusStored
<1>5. CASE BridgeHeartbeat
  <2> DEFINE s == IF Local(2) = "invalid" THEN "never" ELSE Local(2)
             a == [app EXCEPT !.seen = s]
  <2>1. ready # <<>> /\ Local(2) \in Heartbeats
    BY <1>5, RunningTask, TaskLocals DEF BridgeHeartbeat, Local
  <2>2. s \in {"never", "fresh", "stale"}
    BY <2>1, CommandsAreWellFormed
  <2>3. AppOK(a)
    <3> HIDE DEF s
    <3> QED
      BY <1>1, <2>2 DEF AppOK, App
  <2>4. Leaves(a, <<>>, << <<"lastSeenStored">> >>)
    BY <1>5 DEF BridgeHeartbeat
  <2> HIDE DEF a
  <2> QED
    BY <1>2, <2>1, <2>3, <2>4, LeavesOK
<1>6. CASE LastSeenStored
  <2>1. ready # <<>>
    BY <1>6, RunningTask DEF LastSeenStored
  <2>2. \/ Leaves(app, <<>>, <<>>)
        \/ Leaves(Unreachable(app), <<>>, <<>>)
    BY <1>6 DEF LastSeenStored
  <2> QED
    BY <1>1, <1>2, <2>1, <2>2, LeavesOK
<1>7. CASE StateLoop
  <2>1. ready # <<>>
    BY <1>7, RunningTask DEF StateLoop
  <2>2. \/ Leaves(app, <<>>, << <<"loopStale">> >>)
        \/ Leaves(app, <<>>, <<>>)
    BY <1>7 DEF StateLoop
  <2> QED
    BY <1>1, <1>2, <2>1, <2>2, LeavesOK
<1>8. CASE LoopStale
  BY <1>1, <1>2, <1>8, RunningTask, LeavesOK DEF LoopStale
<1> QED
  BY <1>3, <1>4, <1>5, <1>6, <1>7, <1>8

-----------------------------------------------------------------------------
(* The environment *)

\* A message arrives.
LEMMA MessagesOK == IInv /\ Messages => IInv'
<1> SUFFICES ASSUME IInv, NEW m \in Task, Arrive(m) PROVE IInv'
  BY DEF Messages, Task
<1> QED
  BY DEF Arrive, IInv, TypeOK, ControllerConsistent

\* The database returns or raises.
LEMMA DatabaseOK == IInv /\ Database => IInv'
<1> SUFFICES ASSUME IInv, NEW i \in DOMAIN waiting,
                    DatabaseAnswers(i) \/ DatabaseRaises(i)
             PROVE  IInv'
  BY DEF Database
<1>1. waiting \in Seq(Task) /\ ready \in Seq(Task) /\ i \in 1 .. Len(waiting)
  BY DEF IInv, TypeOK
<1>2. waiting[i] \in Task
  BY <1>1
<1> DEFINE before == SubSeq(waiting, 1, i - 1)
           after == SubSeq(waiting, i + 1, Len(waiting))
<1>3. before \in Seq(Task) /\ after \in Seq(Task)
  BY <1>1
<1>4. ready' \in Seq(Task) /\ waiting' \in Seq(Task)
  <2> DEFINE t == waiting[i]
  <2>1. waiting' = before \o after /\ (ready' = ready \/ ready' = Append(ready, t))
    BY DEF DatabaseAnswers, DatabaseRaises
  <2> HIDE DEF before, after
  <2>2. waiting' \in Seq(Task)
    BY <1>3, <2>1
  <2>3. ready' \in Seq(Task)
    <3>1. t \in Task
      BY <1>2
    <3> HIDE DEF t
    <3>2. Append(ready, t) \in Seq(Task)
      BY <1>1, <3>1
    <3> QED
      BY <1>1, <2>1, <3>2
  <2> QED
    BY <2>2, <2>3
<1> QED
  BY <1>4 DEF DatabaseAnswers, DatabaseRaises, IInv, TypeOK, ControllerConsistent

\* The state loop wakes and time passes.
LEMMA TimeOK == IInv /\ (LoopWakes \/ Elapse \/ HeartbeatGrowsStale \/ Midnight) => IInv'
<1> SUFFICES ASSUME IInv, LoopWakes \/ Elapse \/ HeartbeatGrowsStale \/ Midnight
             PROVE  IInv'
  OBVIOUS
<1>1. AppOK(app)
  BY IInvApp
<1>2. CASE LoopWakes
  <2>1. <<"loop">> \in Task
    BY TasksLeft
  <2> QED
    BY <1>2, <2>1 DEF LoopWakes, IInv, TypeOK, ControllerConsistent
<1>3. CASE Elapse
  <2>1. FsmOK(Aged(app.fsm))
    BY <1>1, AppFields, AgedOK
  <2>2. AppOK(app')
    BY <1>1, <1>3, <2>1, WithFsmOK DEF Elapse
  <2> QED
    BY <1>3, <2>2 DEF Elapse, AppOK, IInv, TypeOK, ControllerConsistent
<1>4. CASE HeartbeatGrowsStale
  <2>1. AppOK(app')
    BY <1>1, <1>4 DEF HeartbeatGrowsStale, AppOK, App
  <2> QED
    BY <1>4, <2>1 DEF HeartbeatGrowsStale, AppOK, IInv, TypeOK, ControllerConsistent
<1>5. CASE Midnight
  BY <1>5 DEF Midnight, IInv, TypeOK, ControllerConsistent
<1> QED
  BY <1>2, <1>3, <1>4, <1>5

-----------------------------------------------------------------------------
(* The invariant *)

\* The service starts with a new controller and nothing to do.
LEMMA InitOK == Init => IInv
<1> SUFFICES ASSUME Init PROVE IInv
  OBVIOUS
<1>1. PICK l \in SocLimits :
        app = [fsm |-> NewFsm, soc |-> UnknownSoc, limits |-> l,
               grid |-> 0, power |-> 0,
               status |-> "offline", seen |-> "never",
               setpoint |-> 0, charge |-> 0, discharge |-> 0]
  BY DEF Init
<1>2. AppOK(app)
  BY <1>1, NewFsmOK DEF AppOK, App, FsmOK
<1>3. ready \in Seq(Task) /\ waiting \in Seq(Task) /\ fullCycle \in Fridays
  BY DEF Init
<1> QED
  BY <1>2, <1>3 DEF AppOK, IInv, TypeOK, ControllerConsistent

\* Every step keeps the invariant.
LEMMA NextOK == IInv /\ [Next]_vars => IInv'
<1> SUFFICES ASSUME IInv, [Next]_vars PROVE IInv'
  OBVIOUS
<1>1. CASE RunTask
  BY <1>1, GridSampleOK, GridStopOK, GridStoppedOK, GridAdoptedOK, AdoptionRefusedOK,
     ChargeRefusedStopOK, CallbackOK, ApplyOverrideOK, ReloadOK, BatteryOK, BridgeOK
     DEF RunTask
<1>2. CASE UNCHANGED vars
  BY <1>2 DEF vars, IInv, TypeOK, ControllerConsistent
<1> QED
  BY <1>1, <1>2, MessagesOK, DatabaseOK, TimeOK DEF Next

\* Both parts of the invariant hold in every reachable state.
THEOREM AppInvariance == Spec => []IInv
BY InitOK, NextOK, PTL DEF Spec

\* The object, the queue and the suspended tasks keep their types: whatever
\* the handlers' order, no limit and no setpoint is ever negative.
THEOREM AppTypeCorrect == Spec => []TypeOK
<1>1. IInv => TypeOK
  BY DEF IInv
<1> QED
  BY <1>1, AppInvariance, PTL

\* Ticks, overrides, reloads and main.py's writes to the private fields always
\* leave a controller whose own methods could have left it.
THEOREM ControllerStaysConsistent == Spec => []ControllerConsistent
<1>1. IInv => ControllerConsistent
  BY DEF IInv
<1> QED
  BY <1>1, AppInvariance, PTL

-----------------------------------------------------------------------------
(* Raises respect the SoC limits *)

\* Objects a and b agree on everything this section is about.
SameLimits(a, b) ==
    /\ b.charge = a.charge /\ b.discharge = a.discharge
    /\ b.soc = a.soc /\ b.limits = a.limits

\* From object a to object b no limit rises against the SoC.
SocRespected(a, b) ==
    /\ b.charge > a.charge => ~AtCeiling(b)
    /\ b.discharge > a.discharge => ~AtFloor(b)
    /\ b.soc = a.soc /\ b.limits = a.limits

LEMMA SameRespected ==
    ASSUME NEW a, NEW b, AppOK(a), SameLimits(a, b)
    PROVE  SocRespected(a, b)
BY AppFields DEF SameLimits, SocRespected

\* Two changes in a row.
LEMMA RespectedTwice ==
    ASSUME NEW a, NEW b, NEW c, AppOK(a), AppOK(b), AppOK(c),
           SocRespected(a, b), SocRespected(b, c)
    PROVE  SocRespected(a, c)
<1>1. /\ a.charge \in Nat /\ b.charge \in Nat /\ c.charge \in Nat
      /\ a.discharge \in Nat /\ b.discharge \in Nat /\ c.discharge \in Nat
  BY AppFields
<1>2. /\ b.soc = a.soc /\ b.limits = a.limits
      /\ c.soc = b.soc /\ c.limits = b.limits
  BY DEF SocRespected
<1>3. (AtCeiling(b) <=> AtCeiling(c)) /\ (AtFloor(b) <=> AtFloor(c))
  BY <1>2 DEF AtCeiling, SocCeiling, AtFloor
<1> QED
  BY <1>1, <1>2, <1>3 DEF SocRespected

\* Setting the state machine leaves the limits.
LEMMA WithFsmSame ==
    ASSUME NEW a, AppOK(a), NEW f PROVE SameLimits(a, [a EXCEPT !.fsm = f])
BY DEF SameLimits, AppOK, App

LEMMA IdledSame == ASSUME NEW a, AppOK(a) PROVE SameLimits(a, Idled(a))
BY WithFsmSame DEF Idled

LEMMA GuardedSame ==
    ASSUME NEW a, AppOK(a), NEW s PROVE SameLimits(a, Guarded(a, s))
BY IdledSame DEF Guarded, SameLimits

LEMMA UnreachableSame == ASSUME NEW a, AppOK(a) PROVE SameLimits(a, Unreachable(a))
BY DEF SameLimits, Unreachable, Idled, AppOK, App

\* publish_battery_limits publishes both limits or none.
LEMMA PublishedLimits ==
    ASSUME NEW a, AppOK(a), NEW c \in Nat, NEW d \in Nat, NEW changed,
           NEW b, b = Published(a, c, d, changed)
    PROVE  /\ SameLimits(a, b) \/ (b.charge = c /\ b.discharge = d)
           /\ b.fsm = a.fsm /\ b.soc = a.soc /\ b.limits = a.limits
BY DEF Published, SameLimits, AppOK, App

LEMMA StoppedLimits ==
    ASSUME NEW a, AppOK(a)
    PROVE  /\ Stopped(a).charge \in {0, a.charge} /\ Stopped(a).discharge \in {0, a.discharge}
           /\ Stopped(a).soc = a.soc /\ Stopped(a).limits = a.limits
           /\ Available(a) => Stopped(a).charge = 0 /\ Stopped(a).discharge = 0
BY DEF Stopped, Published, AppOK, App, Available

LEMMA StoppedRespected ==
    ASSUME NEW a, AppOK(a)
    PROVE  SocRespected(a, Stopped(a))
BY StoppedLimits, AppFields DEF SocRespected

\* publish_setpoint raises the charge limit only below the ceiling.
LEMMA ChargeSetRespected ==
    ASSUME NEW a, AppOK(a), NEW w \in Nat, NEW changed
    PROVE  SocRespected(a, ChargeSet(a, w, changed))
<1> DEFINE b == [a EXCEPT !.setpoint = AtMost(w, MaxChargeW)]
           z == [a EXCEPT !.setpoint = 0]
           v == AtMost(w, MaxChargeW)
           c == Published(b, v, 0, changed)
<1>1. v \in Nat /\ 0 \in Nat
  BY Watts, WattsAreIntegers
<1>2. w = 0 => v = 0
  BY WattsAreIntegers DEF AtMost
<1>3. AppOK(b) /\ AppOK(z)
  BY <1>1, WithSetpointOK
<1>4. SameLimits(a, b) /\ SameLimits(a, z)
  BY DEF SameLimits, AppOK, App
<1>5. CASE ~Available(a)
  <2>1. ChargeSet(a, w, changed) = z
    BY <1>5 DEF ChargeSet, ChargeRefused
  <2> HIDE DEF z
  <2> QED
    BY <1>4, <2>1, SameRespected
<1>6. CASE Available(a) /\ ChargeRefused(a, w)
  <2>1. SameLimits(a, a)
    BY DEF SameLimits
  <2> QED
    BY <1>6, <2>1, IdledSame, SameRespected DEF ChargeSet
<1>7. CASE Available(a) /\ ~ChargeRefused(a, w)
  <2>1. w = 0 \/ ~AtCeiling(a)
    BY <1>7 DEF ChargeRefused
  <2>2. ChargeSet(a, w, changed) = c
    BY <1>7 DEF ChargeSet
  <2>3. /\ SameLimits(b, c) \/ (c.charge = v /\ c.discharge = 0)
        /\ c.soc = b.soc /\ c.limits = b.limits
    <3>1. c = Published(b, v, 0, changed) /\ AppOK(b) /\ v \in Nat /\ 0 \in Nat
      BY <1>1, <1>3
    <3> HIDE DEF b, c, v, z
    <3> QED
      BY <3>1, PublishedLimits
  <2> HIDE DEF b, c, v
  <2>4. AtCeiling(c) <=> AtCeiling(a)
    BY <1>4, <2>3 DEF AtCeiling, SocCeiling, SameLimits
  <2>5. a.charge \in Nat /\ a.discharge \in Nat
    BY AppFields
  <2> QED
    BY <1>1, <1>2, <1>4, <2>1, <2>2, <2>3, <2>4, <2>5 DEF SocRespected, SameLimits
<1> QED
  BY <1>5, <1>6, <1>7

\* publish_discharge_setpoint raises the discharge limit only above the floor.
LEMMA DischargeSetRespected ==
    ASSUME NEW a, AppOK(a), NEW w \in Nat, NEW changed
    PROVE  SocRespected(a, DischargeSet(a, w, changed))
<1> DEFINE b == [a EXCEPT !.setpoint = AtMost(w, MaxDischargeW)]
           z == [a EXCEPT !.setpoint = 0]
           v == AtMost(w, MaxDischargeW)
           c == Published(b, 0, v, changed)
<1>1. v \in Nat /\ 0 \in Nat
  BY Watts, WattsAreIntegers
<1>2. w = 0 => v = 0
  BY WattsAreIntegers DEF AtMost
<1>3. AppOK(b) /\ AppOK(z)
  BY <1>1, WithSetpointOK
<1>4. SameLimits(a, b) /\ SameLimits(a, z)
  BY DEF SameLimits, AppOK, App
<1>5. CASE ~Available(a)
  <2>1. DischargeSet(a, w, changed) = z
    BY <1>5 DEF DischargeSet, DischargeRefused
  <2> HIDE DEF z
  <2> QED
    BY <1>4, <2>1, SameRespected
<1>6. CASE Available(a) /\ DischargeRefused(a, w)
  <2>1. SameLimits(a, a)
    BY DEF SameLimits
  <2> QED
    BY <1>6, <2>1, IdledSame, SameRespected DEF DischargeSet
<1>7. CASE Available(a) /\ ~DischargeRefused(a, w)
  <2>1. w = 0 \/ ~AtFloor(a)
    BY <1>7 DEF DischargeRefused
  <2>2. DischargeSet(a, w, changed) = c
    BY <1>7 DEF DischargeSet
  <2>3. /\ SameLimits(b, c) \/ (c.charge = 0 /\ c.discharge = v)
        /\ c.soc = b.soc /\ c.limits = b.limits
    <3>1. c = Published(b, 0, v, changed) /\ AppOK(b) /\ v \in Nat /\ 0 \in Nat
      BY <1>1, <1>3
    <3> HIDE DEF b, c, v, z
    <3> QED
      BY <3>1, PublishedLimits
  <2> HIDE DEF b, c, v
  <2>4. AtFloor(c) <=> AtFloor(a)
    BY <1>4, <2>3 DEF AtFloor, SameLimits
  <2>5. a.charge \in Nat /\ a.discharge \in Nat
    BY AppFields
  <2> QED
    BY <1>1, <1>2, <1>4, <2>1, <2>2, <2>3, <2>4, <2>5 DEF SocRespected, SameLimits
<1> QED
  BY <1>5, <1>6, <1>7

\* The slow balance, the tick and the adoption, from the object they find to
\* the one they leave.
LEMMA SlowBalanceRespected ==
    ASSUME NEW a, AppOK(a), NEW direction, NEW tasks, SlowBalance(a, direction, tasks)
    PROVE  SocRespected(a, app')
<1> DEFINE target == Balanced(a, direction)
           Written(retry) == IF direction = "CHARGING" THEN ChargeSet(a, target, retry)
                                                       ELSE DischargeSet(a, target, retry)
<1>1. target \in Nat
  BY BalancedOK
<1>2. app' = a \/ \E retry : app' = Written(retry)
  BY DEF SlowBalance, Leaves
<1> HIDE DEF target
<1>3. \A retry : SocRespected(a, Written(retry))
  BY <1>1, ChargeSetRespected, DischargeSetRespected
<1>4. SameLimits(a, a)
  BY DEF SameLimits
<1> HIDE DEF Written
<1> QED
  BY <1>2, <1>3, <1>4, SameRespected

LEMMA TickAndPublishRespected ==
    ASSUME NEW a, AppOK(a), NEW surplus \in Int, NEW rebalanced,
           TickAndPublish(a, surplus, rebalanced)
    PROVE  SocRespected(a, app')
<1> DEFINE f == Ticked(a.fsm, surplus)
           b == [a EXCEPT !.fsm = f]
           calls == Callbacks(a.fsm, f)
<1>1. AppOK(b)
  BY AppFields, TickedOK, WithFsmOK
<1>2. SameLimits(a, b) /\ SameLimits(b, b)
  BY WithFsmSame DEF SameLimits
<1>3. ChargeTarget(b) \in Nat /\ DischargeTarget(b) \in Nat
  BY <1>1, Watts
<1>4. \/ app' = ChargeSet(b, ChargeTarget(b), TRUE)
      \/ SlowBalance(b, "CHARGING", calls)
      \/ app' = DischargeSet(b, DischargeTarget(b), TRUE)
      \/ SlowBalance(b, "DISCHARGING", calls)
      \/ app' = b
  BY DEF TickAndPublish, Leaves
<1> HIDE DEF b, calls
<1>5. SocRespected(b, app')
  BY <1>1, <1>2, <1>3, <1>4, SlowBalanceRespected, ChargeSetRespected,
     DischargeSetRespected, SameRespected
<1>6. app'.charge > a.charge <=> app'.charge > b.charge
  BY <1>2 DEF SameLimits
<1>7. app'.discharge > a.discharge <=> app'.discharge > b.discharge
  BY <1>2 DEF SameLimits
<1> QED
  BY <1>2, <1>5, <1>6, <1>7 DEF SocRespected, SameLimits

LEMMA RebalanceAndTickRespected ==
    ASSUME NEW a, AppOK(a), NEW surplus \in Int, NEW grid,
           RebalanceAndTick(a, surplus, grid)
    PROVE  SocRespected(a, app')
<1>1. CASE TickAndPublish(a, surplus, FALSE)
  BY <1>1, TickAndPublishRespected
<1>2. CASE app' = [a EXCEPT !.fsm = Forced(@, "DISCHARGING")]
  BY <1>2, WithFsmSame, SameRespected
<1> QED
  BY <1>1, <1>2 DEF RebalanceAndTick, Leaves

\* What the property says of one step.
Respected ==
    /\ app'.charge > app.charge => ~AtCeiling(app')
    /\ app'.discharge > app.discharge => ~AtFloor(app')

LEMMA RespectedIsRespected ==
    ASSUME SocRespected(app, app') PROVE Respected
BY DEF SocRespected, Respected

LEMMA NoRaise ==
    ASSUME AppOK(app), app'.charge = app.charge, app'.discharge = app.discharge
    PROVE  Respected
BY AppFields DEF Respected

\* handle_grid_power_topic and its continuations.
LEMMA GridRespected ==
    IInv /\ (GridSample \/ GridStop \/ GridStopped \/ GridAdopted
               \/ AdoptionRefused \/ ChargeRefusedStop) => Respected
<1> SUFFICES ASSUME IInv,
                    GridSample \/ GridStop \/ GridStopped \/ GridAdopted
                      \/ AdoptionRefused \/ ChargeRefusedStop
             PROVE  Respected
  OBVIOUS
<1>1. AppOK(app) /\ AppOK(Stopped(app)) /\ SocRespected(app, Stopped(app))
  BY IInvApp, StoppedOK, StoppedRespected
<1>2. AppOK(app')
  BY IInvApp, GridSampleOK, GridStopOK, GridStoppedOK, GridAdoptedOK, AdoptionRefusedOK,
     ChargeRefusedStopOK DEF IInv, TypeOK, ControllerConsistent, AppOK
<1>3. CASE GridSample
  <2> DEFINE w == Local(2)
             a == [app EXCEPT !.grid = w]
             b == Guarded(a, -w)
             surplus == Masked(a, -w)
  <2>1. w \in GridSamples /\ -w \in Int
    BY <1>3, RunningTask, TaskLocals, WattsAreIntegers DEF GridSample, Local
  <2>2. AppOK(a) /\ SameLimits(app, a)
    BY <1>1, <2>1 DEF AppOK, App, SameLimits
  <2>3. surplus \in Int /\ SameLimits(a, b) /\ SameLimits(a, a)
    BY <2>1, <2>2, GuardedOK, GuardedSame DEF SameLimits
  <2>4. app' = a \/ app' = b \/ RebalanceAndTick(a, surplus, w)
    BY <1>3 DEF GridSample, Leaves
  <2> HIDE DEF w, a, b, surplus
  <2>5. SocRespected(app, a)
    BY <1>1, <2>2, SameRespected
  <2>6. SocRespected(a, app')
    BY <2>2, <2>3, <2>4, SameRespected, RebalanceAndTickRespected
  <2> QED
    BY <1>1, <1>2, <2>2, <2>5, <2>6, RespectedTwice, RespectedIsRespected
<1>4. CASE GridStop
  BY <1>1, <1>4, RespectedIsRespected DEF GridStop, Leaves
<1>5. CASE GridStopped
  <2>1. Local(2) \in Int
    BY <1>5, RunningTask, TaskLocals DEF GridStopped, Local
  <2> QED
    BY <1>1, <1>5, <2>1, RebalanceAndTickRespected, RespectedIsRespected DEF GridStopped
<1>6. CASE GridAdopted
  <2> DEFINE a == DischargeSet(app, Local(3), FALSE)
  <2>1. Local(2) \in Int /\ Local(3) \in Nat
    BY <1>6, RunningTask, TaskLocals DEF GridAdopted, Local
  <2>2. AppOK(a) /\ SocRespected(app, a)
    BY <1>1, <2>1, DischargeSetOK, DischargeSetRespected
  <2>3. app' = a \/ TickAndPublish(a, Local(2), TRUE)
    BY <1>6 DEF GridAdopted, Leaves
  <2> HIDE DEF a
  <2> QED
    BY <1>1, <1>2, <2>1, <2>2, <2>3, TickAndPublishRespected, RespectedTwice,
       RespectedIsRespected
<1>7. CASE AdoptionRefused
  <2>1. Local(2) \in Int
    BY <1>7, RunningTask, TaskLocals DEF AdoptionRefused, Local
  <2>2. SocRespected(Stopped(app), app')
    BY <1>1, <1>7, <2>1, TickAndPublishRespected DEF AdoptionRefused
  <2> QED
    BY <1>1, <1>2, <2>2, RespectedTwice, RespectedIsRespected
<1>8. CASE ChargeRefusedStop
  <2>1. app' = Stopped(app) \/ SlowBalance(Stopped(app), "DISCHARGING", <<>>)
    BY <1>8 DEF ChargeRefusedStop, Leaves
  <2>2. CASE app' = Stopped(app)
    BY <1>1, <2>2, RespectedIsRespected
  <2>3. CASE SlowBalance(Stopped(app), "DISCHARGING", <<>>)
    BY <1>1, <1>2, <2>3, SlowBalanceRespected, RespectedTwice, RespectedIsRespected
  <2> QED
    BY <2>1, <2>2, <2>3
<1> QED
  BY <1>3, <1>4, <1>5, <1>6, <1>7, <1>8

\* Callbacks and overrides.
LEMMA CommandRespected ==
    IInv /\ (CreateTask \/ StartCharging \/ StartDischarging \/ StopCharging \/ Stop
               \/ ApplyOverride) => Respected
<1> SUFFICES ASSUME IInv,
                    CreateTask \/ StartCharging \/ StartDischarging \/ StopCharging \/ Stop
                      \/ ApplyOverride
             PROVE  Respected
  OBVIOUS
<1>1. AppOK(app) /\ SocRespected(app, Stopped(app))
  BY IInvApp, StoppedRespected
<1>2. CASE CreateTask \/ StopCharging
  BY <1>1, <1>2, NoRaise DEF CreateTask, StopCharging, Leaves
<1>3. CASE StartCharging
  <2>1. ChargeTarget(app) \in Nat /\ app' = ChargeSet(app, ChargeTarget(app), FALSE)
    BY <1>1, <1>3, Watts DEF StartCharging, Leaves
  <2> QED
    BY <1>1, <2>1, ChargeSetRespected, RespectedIsRespected
<1>4. CASE StartDischarging
  <2>1. DischargeTarget(app) \in Nat /\ app' = DischargeSet(app, DischargeTarget(app), FALSE)
    BY <1>1, <1>4, Watts DEF StartDischarging, Leaves
  <2> QED
    BY <1>1, <2>1, DischargeSetRespected, RespectedIsRespected
<1>5. CASE Stop
  BY <1>1, <1>5, RespectedIsRespected DEF Stop, Leaves
<1>6. CASE ApplyOverride
  <2> DEFINE o == Local(2)
             f == Overridden(app.fsm, o.mode, o.pause)
             a == [app EXCEPT !.fsm = f]
             cleared == [app EXCEPT !.fsm = Cleared(@), !.setpoint = 0]
  <2>1. o.mode \in Modes /\ o.watts \in Nat /\ o.pause \in Pauses
    BY <1>6, RunningTask, TaskLocals, CommandsAreWellFormed DEF ApplyOverride, Local
  <2>2. AppOK(a) /\ SameLimits(app, a) /\ SameLimits(app, cleared) /\ SameLimits(a, a)
    <3>1. AppOK(a)
      BY <1>1, <2>1, AppFields, OverriddenOK, WithFsmOK
    <3>2. SameLimits(app, a)
      BY <1>1, WithFsmSame
    <3>3. SameLimits(app, cleared) /\ SameLimits(a, a)
      BY <1>1 DEF SameLimits, AppOK, App
    <3> QED
      BY <3>1, <3>2, <3>3
  <2>3. \/ app' = cleared
        \/ app' = ChargeSet(a, o.watts, FALSE)
        \/ app' = DischargeSet(a, o.watts, FALSE)
        \/ app' = a
    BY <1>6, <2>1 DEF ApplyOverride, Leaves, Modes
  <2> HIDE DEF o, a, cleared
  <2>4. CASE app' = cleared
    BY <1>1, <2>2, <2>4, SameRespected, RespectedIsRespected
  <2>5. CASE app' # cleared
    <3>1. SocRespected(a, app')
      BY <2>1, <2>2, <2>3, <2>5, SameRespected, ChargeSetRespected, DischargeSetRespected
    <3>2. AppOK(app')
      BY <1>6, IInvApp, ApplyOverrideOK DEF IInv, TypeOK, ControllerConsistent, AppOK
    <3> QED
      BY <1>1, <2>2, <3>1, <3>2, SameRespected, RespectedTwice, RespectedIsRespected
  <2> QED
    BY <2>4, <2>5
<1> QED
  BY <1>2, <1>3, <1>4, <1>5, <1>6

\* Reports, outages and settings leave the limits as they are or take them back.
LEMMA ReportRespected ==
    IInv /\ (Reload \/ Reloaded \/ SocReport \/ SocStop \/ PowerReport \/ TelemetryStored
               \/ BridgeStatus \/ StatusStored \/ BridgeHeartbeat \/ LastSeenStored
               \/ StateLoop \/ LoopStale) => Respected
<1> SUFFICES ASSUME IInv,
                    Reload \/ Reloaded \/ SocReport \/ SocStop \/ PowerReport
                      \/ TelemetryStored \/ BridgeStatus \/ StatusStored \/ BridgeHeartbeat
                      \/ LastSeenStored \/ StateLoop \/ LoopStale
             PROVE  Respected
  OBVIOUS
<1>1. AppOK(app) /\ SocRespected(app, Stopped(app)) /\ SameLimits(app, Unreachable(app))
  BY IInvApp, StoppedRespected, UnreachableSame
<1>2. CASE Reload \/ PowerReport \/ TelemetryStored \/ BridgeStatus \/ BridgeHeartbeat \/ StateLoop
  <2>1. app'.charge = app.charge /\ app'.discharge = app.discharge
    BY <1>1, <1>2 DEF Reload, PowerReport, TelemetryStored, BridgeStatus, BridgeHeartbeat,
                      StateLoop, Leaves, AppOK, App
  <2> QED
    BY <1>1, <2>1, NoRaise
<1>3. CASE StatusStored \/ LastSeenStored \/ LoopStale
  <2>1. app' = app \/ app' = Unreachable(app)
    BY <1>3 DEF StatusStored, LastSeenStored, LoopStale, Leaves
  <2> QED
    BY <1>1, <2>1, NoRaise DEF SameLimits
<1>4. CASE SocStop
  BY <1>1, <1>4, RespectedIsRespected DEF SocStop, Leaves
<1>5. CASE SocReport
  <2> DEFINE a == [app EXCEPT !.soc = Local(2)]
  <2>1. Local(2) \in SocLevels
    BY <1>5, RunningTask, TaskLocals DEF SocReport, Local
  <2>2. AppOK(a) /\ a.charge = app.charge /\ a.discharge = app.discharge
    BY <1>1, <2>1 DEF AppOK, App
  <2>3. app' = a \/ app' = Guarded(a, 0)
    BY <1>5 DEF SocReport, Leaves
  <2> HIDE DEF a
  <2> QED
    BY <1>1, <2>2, <2>3, GuardedSame, NoRaise DEF SameLimits
<1>6. CASE Reloaded
  <2>1. PICK l \in SocLimits :
          app' = Guarded([app EXCEPT !.limits = l, !.fsm = NewFsm], 0)
    BY <1>6 DEF Reloaded, Leaves
  <2> DEFINE a == [app EXCEPT !.limits = l, !.fsm = NewFsm]
  <2>2. AppOK(a) /\ a.charge = app.charge /\ a.discharge = app.discharge
    BY <1>1, NewFsmOK DEF AppOK, App, FsmOK
  <2> HIDE DEF a
  <2> QED
    BY <1>1, <2>1, <2>2, GuardedSame, NoRaise DEF SameLimits, a
<1> QED
  BY <1>2, <1>3, <1>4, <1>5, <1>6

\* No limit is raised for a battery that is full or empty, at any of the places
\* that publish one and whatever happened while they waited.
THEOREM RaisesAreSafe == Spec => RaisesRespectSoc
<1>1. IInv /\ [Next]_vars => [Respected]_vars
  <2> SUFFICES ASSUME IInv, Next PROVE Respected \/ UNCHANGED vars
    BY DEF vars
  <2>1. CASE RunTask
    BY <2>1, GridRespected, CommandRespected, ReportRespected DEF RunTask
  <2>2. CASE Messages \/ Database \/ LoopWakes \/ Midnight
    BY <2>2, IInvApp, NoRaise
       DEF Messages, Arrive, Database, DatabaseAnswers, DatabaseRaises, LoopWakes, Midnight
  <2>3. CASE Elapse \/ HeartbeatGrowsStale
    <3>1. app'.charge = app.charge /\ app'.discharge = app.discharge
      BY <2>3, IInvApp DEF Elapse, HeartbeatGrowsStale, AppOK, App
    <3> QED
      BY <3>1, IInvApp, NoRaise
  <2> QED
    BY <2>1, <2>2, <2>3 DEF Next
<1>2. [][Respected]_vars <=> RaisesRespectSoc
  BY PTL DEF Respected, RaisesRespectSoc
<1> QED
  BY <1>1, <1>2, AppInvariance, PTL DEF Spec

-----------------------------------------------------------------------------
(* Owners *)

\* A task that is a stop on its way, and a queue that holds one.
Stopping(t) == \/ t[1] \in StoppingTasks
               \/ t[1] = "schedule" /\ t[2] = "stopCharging"
Pending(q) == \E i \in DOMAIN q : Stopping(q[i])

\* The limits of object a have owners, if p says whether a stop is pending.
Owned(a, p) ==
    /\ a.charge > 0 => a.fsm.state = "CHARGING" \/ a.fsm.mode = "force_on" \/ p
    /\ a.discharge > 0 => a.fsm.state = "DISCHARGING" \/ a.fsm.mode = "force_discharge" \/ p

LEMMA OwnedIsOwned == LimitsOwned <=> Owned(app, Pending(ready))
BY DEF LimitsOwned, Owned, Pending, StopPending, Stopping

\* A stop stays in the queue until it runs, and a stop left behind is in it.
LEMMA PendingLater ==
    ASSUME NEW q \in Seq(Task), q # <<>>, NEW ts \in Seq(Task),
           (Pending(q) /\ ~Stopping(Head(q))) \/ Pending(ts)
    PROVE  Pending(Tail(q) \o ts)
<1> DEFINE r == Tail(q) \o ts
<1>1. /\ Len(r) = Len(q) - 1 + Len(ts) /\ r \in Seq(Task)
      /\ \A i \in 1 .. Len(q) - 1 : r[i] = q[i + 1]
      /\ \A i \in 1 .. Len(ts) : r[Len(q) - 1 + i] = ts[i]
      /\ Len(q) \in Nat /\ Len(ts) \in Nat /\ Len(q) > 0
  OBVIOUS
<1> HIDE DEF r
<1>2. CASE Pending(ts)
  <2>1. PICK i \in 1 .. Len(ts) : Stopping(ts[i])
    BY <1>2 DEF Pending
  <2>2. Len(q) - 1 + i \in 1 .. Len(r) /\ Stopping(r[Len(q) - 1 + i])
    BY <1>1, <2>1
  <2>3. Pending(r)
    BY <1>1, <2>2 DEF Pending
  <2> QED
    BY <2>3 DEF r
<1>3. CASE Pending(q) /\ ~Stopping(Head(q))
  <2>1. PICK i \in 1 .. Len(q) : Stopping(q[i])
    BY <1>3 DEF Pending
  <2>2. i # 1
    BY <1>3, <2>1
  <2>3. i - 1 \in 1 .. Len(q) - 1 /\ i - 1 \in 1 .. Len(r)
    BY <1>1, <2>1, <2>2
  <2>4. r[i - 1] = q[i]
    BY <1>1, <2>3
  <2>5. Pending(r)
    BY <1>1, <2>1, <2>3, <2>4 DEF Pending
  <2> QED
    BY <2>5 DEF r
<1> QED
  BY <1>2, <1>3

\* The running task is not a stop, so a pending one is behind it.
Behind == Pending(ready) /\ ~Stopping(Head(ready))

\* A handler whose object is owned by itself or by a pending stop.
LEMMA LeavesOwned ==
    ASSUME IInv, ready # <<>>, NEW a, NEW tasks \in Seq(Task), NEW w,
           Leaves(a, tasks, w), Owned(a, Behind \/ Pending(tasks))
    PROVE  LimitsOwned'
<1>1. ready \in Seq(Task) /\ app' = a /\ ready' = Tail(ready) \o tasks
  BY DEF IInv, TypeOK, Leaves
<1>2. Behind \/ Pending(tasks) => Pending(ready')
  BY <1>1, PendingLater DEF Behind
<1>3. Owned(app', Pending(ready'))
  BY <1>1, <1>2 DEF Owned
<1> QED
  BY <1>3 DEF LimitsOwned, Owned, Pending, StopPending, Stopping

\* The queue grows: no stop is lost.
LEMMA GrowsOwned ==
    ASSUME IInv, LimitsOwned, NEW t,
           app'.charge = app.charge, app'.discharge = app.discharge,
           app'.fsm.state = app.fsm.state, app'.fsm.mode = app.fsm.mode,
           ready' = ready \/ ready' = Append(ready, t)
    PROVE  LimitsOwned'
<1>1. ready \in Seq(Task)
  BY DEF IInv, TypeOK
<1>2. Pending(ready) => Pending(ready')
  <2> SUFFICES ASSUME NEW i \in DOMAIN ready, Stopping(ready[i])
               PROVE  i \in DOMAIN ready' /\ ready'[i] = ready[i]
    BY DEF Pending
  <2> QED
    BY <1>1
<1>3. Owned(app', Pending(ready'))
  BY <1>2, OwnedIsOwned DEF Owned
<1> QED
  BY <1>3 DEF LimitsOwned, Owned, Pending, StopPending, Stopping

\* A single stop left behind.
LEMMA PendingOne ==
    ASSUME NEW t, Stopping(t)
    PROVE  Pending(<<t>>) /\ \A s \in Seq(Task) : t \in Task => Pending(s \o <<t>>)
<1>1. Pending(<<t>>)
  BY DEF Pending
<1>2. ASSUME NEW s \in Seq(Task), t \in Task PROVE Pending(s \o <<t>>)
  <2>1. Len(s) + 1 \in DOMAIN (s \o <<t>>) /\ (s \o <<t>>)[Len(s) + 1] = t
    OBVIOUS
  <2> QED
    BY <2>1 DEF Pending
<1> QED
  BY <1>1, <1>2

LEMMA PendingConcat ==
    ASSUME NEW p \in Seq(Task), NEW q \in Seq(Task), Pending(p)
    PROVE  Pending(p \o q)
<1>1. PICK i \in DOMAIN p : Stopping(p[i])
  BY DEF Pending
<1>2. i \in DOMAIN (p \o q) /\ (p \o q)[i] = p[i]
  OBVIOUS
<1> QED
  BY <1>1, <1>2 DEF Pending

\* A direction that ends schedules a stop.
LEMMA CallbacksStop ==
    ASSUME NEW f, NEW g, f.state \in Directions, g.state # f.state
    PROVE  Pending(Callbacks(f, g))
<1> DEFINE start == IF Starts(f.state, g.state)
                    THEN << <<"schedule", IF g.state = "CHARGING" THEN "startCharging"
                                                                  ELSE "startDischarging">> >>
                    ELSE <<>>
           t == <<"schedule", "stopCharging">>
<1>1. Callbacks(f, g) = start \o << t >>
  BY DEF Callbacks, Stops
<1>2. start \in Seq(Task) /\ t \in Task
  BY TasksLeft, OneTask DEF Callback
<1>3. Stopping(t)
  BY DEF Stopping
<1> HIDE DEF start, t
<1> QED
  BY <1>1, <1>2, <1>3, PendingOne

-----------------------------------------------------------------------------
(* What the methods make of the owners *)

\* A pending stop owns everything, and more reasons to be owned never hurt.
LEMMA OwnedMonotonic ==
    ASSUME NEW a, NEW p \in BOOLEAN, NEW q \in BOOLEAN, Owned(a, p), p => q
    PROVE  Owned(a, q)
BY DEF Owned

\* A tick never touches an override other than a pause.
LEMMA TickedMode ==
    ASSUME NEW f \in Fsm, NEW s
    PROVE  Ticked(f, s).mode = f.mode \/ f.mode = "pause"
<1>1. ASSUME f.mode # "pause" PROVE Ticked(f, s).mode = f.mode
  <2>1. Resumed(f) = f
    BY <1>1 DEF Resumed
  <2>2. Evaluated(f, s).mode = f.mode
    BY DEF Evaluated, TickedCooldown, Reevaluated, Bypassed, TickedIdle, TickedActive,
           CoolingDown, Entered, Fsm, States
  <2> QED
    BY <2>1, <2>2 DEF Ticked
<1> QED
  BY <1>1

\* After stop_charging nothing is out, if the bridge hears it.
LEMMA StoppedOwned ==
    ASSUME NEW a, AppOK(a), Available(a), NEW p
    PROVE  Owned(Stopped(a), p) /\ Available(Stopped(a))
<1>1. Available(Stopped(a))
  BY DEF Stopped, Published, Available, AppOK, App
<1> QED
  BY <1>1, StoppedLimits DEF Owned

\* publish_setpoint and publish_discharge_setpoint in the direction they are for.
LEMMA ChargeSetOwned ==
    ASSUME NEW a, AppOK(a), NEW w \in Nat, NEW changed, NEW p \in BOOLEAN,
           Owned(a, p), a.fsm.state = "CHARGING", ~ChargeRefused(a, w)
    PROVE  Owned(ChargeSet(a, w, changed), p)
<1> DEFINE v == AtMost(w, MaxChargeW)
           b == [a EXCEPT !.setpoint = v]
           z == [a EXCEPT !.setpoint = 0]
<1>1. v \in Nat /\ 0 \in Nat
  BY Watts, WattsAreIntegers
<1>2. AppOK(b) /\ SameLimits(a, b) /\ b.fsm = a.fsm /\ SameLimits(a, z) /\ z.fsm = a.fsm
  <2>1. AppOK(b)
    BY <1>1, WithSetpointOK
  <2> QED
    BY <2>1 DEF SameLimits, AppOK, App
<1>3. ChargeSet(a, w, changed) \in {z, Published(b, v, 0, changed)}
  BY DEF ChargeSet
<1>4. Owned(b, p) /\ Owned(z, p)
  BY <1>2 DEF Owned, SameLimits
<1> HIDE DEF b, v, z
<1>5. ASSUME NEW c, c = Published(b, v, 0, changed)
      PROVE  Owned(c, p)
  <2>1. /\ SameLimits(b, c) \/ (c.charge = v /\ c.discharge = 0)
        /\ c.fsm = b.fsm
    BY <1>1, <1>2, <1>5, PublishedLimits
  <2> QED
    BY <1>2, <1>4, <2>1 DEF Owned, SameLimits
<1> QED
  BY <1>3, <1>4, <1>5

LEMMA DischargeSetOwned ==
    ASSUME NEW a, AppOK(a), NEW w \in Nat, NEW changed, NEW p \in BOOLEAN,
           Owned(a, p), a.fsm.state = "DISCHARGING", ~DischargeRefused(a, w)
    PROVE  Owned(DischargeSet(a, w, changed), p)
<1> DEFINE v == AtMost(w, MaxDischargeW)
           b == [a EXCEPT !.setpoint = v]
           z == [a EXCEPT !.setpoint = 0]
<1>1. v \in Nat /\ 0 \in Nat
  BY Watts, WattsAreIntegers
<1>2. AppOK(b) /\ SameLimits(a, b) /\ b.fsm = a.fsm /\ SameLimits(a, z) /\ z.fsm = a.fsm
  <2>1. AppOK(b)
    BY <1>1, WithSetpointOK
  <2> QED
    BY <2>1 DEF SameLimits, AppOK, App
<1>3. DischargeSet(a, w, changed) \in {z, Published(b, 0, v, changed)}
  BY DEF DischargeSet
<1>4. Owned(b, p) /\ Owned(z, p)
  BY <1>2 DEF Owned, SameLimits
<1> HIDE DEF b, v, z
<1>5. ASSUME NEW c, c = Published(b, 0, v, changed)
      PROVE  Owned(c, p)
  <2>1. /\ SameLimits(b, c) \/ (c.charge = 0 /\ c.discharge = v)
        /\ c.fsm = b.fsm
    BY <1>1, <1>2, <1>5, PublishedLimits
  <2> QED
    BY <1>2, <1>4, <2>1 DEF Owned, SameLimits
<1> QED
  BY <1>3, <1>4, <1>5

\* The slow balance of the active direction is never refused.
LEMMA SlowBalanceOwned ==
    ASSUME IInv, ready # <<>>, NEW a, AppOK(a), NEW direction \in Directions,
           a.fsm.state = direction, NEW tasks \in Seq(Task),
           Owned(a, Behind \/ Pending(tasks)), SlowBalance(a, direction, tasks)
    PROVE  LimitsOwned'
<1> DEFINE target == Balanced(a, direction)
           Written(retry) == IF direction = "CHARGING" THEN ChargeSet(a, target, retry)
                                                       ELSE DischargeSet(a, target, retry)
           p == Behind \/ Pending(tasks)
<1>1. target \in Nat
  BY BalancedOK
<1>2. /\ direction = "CHARGING" => ~ChargeRefused(a, target)
      /\ direction = "DISCHARGING" => ~DischargeRefused(a, target)
  BY DEF Balanced, ChargeRefused, DischargeRefused
<1>3. Leaves(a, tasks, <<>>) \/ \E retry : Leaves(Written(retry), tasks, <<>>)
  BY DEF SlowBalance
<1>4. p \in BOOLEAN
  BY DEF Behind, Pending
<1> HIDE DEF target, p
<1>5. \A retry : Owned(Written(retry), p)
  BY <1>1, <1>2, <1>4, ChargeSetOwned, DischargeSetOwned DEF Directions, p
<1> HIDE DEF Written
<1> QED
  BY <1>3, <1>5, LeavesOwned DEF p

\* From the tick to the end of the handler: a direction that ends leaves its
\* stop behind, and what is published belongs to the state that is entered.
LEMMA TickAndPublishOwned ==
    ASSUME IInv, ready # <<>>, NEW a, AppOK(a), Owned(a, Behind),
           NEW surplus \in Int, NEW rebalanced \in BOOLEAN,
           TickAndPublish(a, surplus, rebalanced)
    PROVE  LimitsOwned'
<1> DEFINE f == Ticked(a.fsm, surplus)
           b == [a EXCEPT !.fsm = f]
           calls == Callbacks(a.fsm, f)
           p == Behind \/ Pending(calls)
           more == << <<"chargeRefused", rebalanced>> >>
           stop == << <<"stop">> >>
           charged == ChargeSet(b, ChargeTarget(b), TRUE)
           discharged == DischargeSet(b, DischargeTarget(b), TRUE)
           startsCharging == a.fsm.state # "CHARGING" /\ f.state = "CHARGING"
           startsDischarging == a.fsm.state # "DISCHARGING" /\ f.state = "DISCHARGING"
<1>1. /\ FsmOK(f) /\ f \in Fsm /\ a.fsm \in Fsm /\ a.fsm.state \in States
      /\ f.mode = a.fsm.mode \/ a.fsm.mode = "pause"
  BY AppFields, TickedOK, TickedMode DEF FsmOK
<1>2. AppOK(b) /\ b.fsm = f /\ SameLimits(a, b)
  <2>1. AppOK(b)
    BY <1>1, WithFsmOK
  <2>2. b.fsm = f
    BY DEF AppOK, App
  <2> QED
    BY <2>1, <2>2, WithFsmSame
<1>3. calls \in Seq(Task)
  BY CallbacksOK
<1>4. a.fsm.state \in Directions /\ f.state # a.fsm.state => Pending(calls)
  BY CallbacksStop
<1>5. /\ more \in Seq(Task) /\ stop \in Seq(Task) /\ <<>> \in Seq(Task)
      /\ Pending(more) /\ Pending(stop)
  <2>1. more \in Seq(Task) /\ stop \in Seq(Task) /\ <<>> \in Seq(Task)
    BY TasksLeft, OneTask
  <2>2. Pending(more) /\ Pending(stop)
    BY PendingOne DEF Stopping, StoppingTasks
  <2> QED
    BY <2>1, <2>2
<1>6. p \in BOOLEAN
  BY DEF Behind, Pending
<1>7. ChargeTarget(b) \in Nat /\ DischargeTarget(b) \in Nat
  BY <1>2, Watts
<1>8. \/ /\ startsCharging /\ ~ChargeRefused(b, ChargeTarget(b))
         /\ Leaves(charged, calls \o <<>>, <<>>)
      \/ Leaves(charged, calls \o more, <<>>)
      \/ f.state = "CHARGING" /\ SlowBalance(b, "CHARGING", calls)
      \/ /\ startsDischarging /\ ~DischargeRefused(b, DischargeTarget(b))
         /\ Leaves(discharged, calls \o <<>>, <<>>)
      \/ Leaves(discharged, calls \o stop, <<>>)
      \/ f.state = "DISCHARGING" /\ SlowBalance(b, "DISCHARGING", calls)
      \/ Leaves(b, calls, <<>>)
  BY DEF TickAndPublish
<1> HIDE DEF calls, more, stop, charged, discharged, f
<1>9. Owned(b, p)
  <2>1. CASE a.fsm.state \in Directions /\ f.state # a.fsm.state
    BY <1>4, <2>1 DEF Owned
  <2>2. CASE ~(a.fsm.state \in Directions /\ f.state # a.fsm.state)
    <3>1. /\ a.fsm.state = "CHARGING" => f.state = "CHARGING"
          /\ a.fsm.state = "DISCHARGING" => f.state = "DISCHARGING"
      BY <2>2 DEF Directions
    <3> HIDE DEF b
    <3> QED
      BY <1>1, <1>2, <3>1 DEF Owned, SameLimits
  <2> QED
    BY <2>1, <2>2
<1> HIDE DEF b
<1>10. CASE /\ startsCharging /\ ~ChargeRefused(b, ChargeTarget(b))
            /\ Leaves(charged, calls \o <<>>, <<>>)
  <2>1. Owned(charged, p)
    BY <1>2, <1>6, <1>7, <1>9, <1>10, ChargeSetOwned DEF charged
  <2>2. calls \o <<>> = calls
    BY <1>3
  <2> QED
    BY <1>3, <1>10, <2>1, <2>2, LeavesOwned
<1>11. CASE Leaves(charged, calls \o more, <<>>)
  <2>1. Pending(calls \o more) /\ calls \o more \in Seq(Task)
    BY <1>3, <1>5, PendingOne, TasksLeft DEF more, Stopping, StoppingTasks
  <2> QED
    BY <1>11, <2>1, LeavesOwned DEF Owned
<1>12. CASE f.state = "CHARGING" /\ SlowBalance(b, "CHARGING", calls)
  BY <1>2, <1>3, <1>9, <1>12, SlowBalanceOwned DEF Directions
<1>13. CASE /\ startsDischarging /\ ~DischargeRefused(b, DischargeTarget(b))
            /\ Leaves(discharged, calls \o <<>>, <<>>)
  <2>1. Owned(discharged, p)
    BY <1>2, <1>6, <1>7, <1>9, <1>13, DischargeSetOwned DEF discharged
  <2>2. calls \o <<>> = calls
    BY <1>3
  <2> QED
    BY <1>3, <1>13, <2>1, <2>2, LeavesOwned
<1>14. CASE Leaves(discharged, calls \o stop, <<>>)
  <2>1. Pending(calls \o stop) /\ calls \o stop \in Seq(Task)
    BY <1>3, <1>5, PendingOne, TasksLeft DEF stop, Stopping, StoppingTasks
  <2> QED
    BY <1>14, <2>1, LeavesOwned DEF Owned
<1>15. CASE f.state = "DISCHARGING" /\ SlowBalance(b, "DISCHARGING", calls)
  BY <1>2, <1>3, <1>9, <1>15, SlowBalanceOwned DEF Directions
<1>16. CASE Leaves(b, calls, <<>>)
  BY <1>3, <1>9, <1>16, LeavesOwned
<1> QED
  BY <1>8, <1>10, <1>11, <1>12, <1>13, <1>14, <1>15, <1>16

\* The adoption takes over an IDLE controller, which owned nothing by its state.
LEMMA RebalanceAndTickOwned ==
    ASSUME IInv, ready # <<>>, NEW a, AppOK(a), Owned(a, Behind),
           NEW surplus \in Int, NEW grid,
           RebalanceAndTick(a, surplus, grid)
    PROVE  LimitsOwned'
<1> DEFINE g == Forced(a.fsm, "DISCHARGING")
           b == [a EXCEPT !.fsm = g]
           t == <<"gridAdopted", surplus, Positive(a.power + grid)>>
<1>1. CASE TickAndPublish(a, surplus, FALSE)
  BY <1>1, TickAndPublishOwned
<1>2. CASE a.fsm.state = "IDLE" /\ Leaves(b, <<>>, <<t>>)
  <2>1. g.mode = a.fsm.mode
    BY AppFields DEF Forced, Entered, Fsm
  <2>2. b.fsm = g /\ SameLimits(a, b)
    <3>1. b.fsm = g
      BY DEF AppOK, App
    <3> QED
      BY <3>1, WithFsmSame
  <2>3. Owned(b, Behind)
    <3> HIDE DEF b, g
    <3> QED
      BY <1>2, <2>1, <2>2 DEF Owned, SameLimits
  <2>4. Owned(b, Behind \/ Pending(<<>>))
    BY <2>3 DEF Owned
  <2>5. <<>> \in Seq(Task)
    OBVIOUS
  <2> HIDE DEF b, t
  <2> QED
    BY <1>2, <2>4, <2>5, LeavesOwned
<1> QED
  BY <1>1, <1>2 DEF RebalanceAndTick

\* What the steps below start from.
LEMMA OwnedNow ==
    ASSUME IInv, LimitsOwned, NEW n, Running(n)
    PROVE  /\ ready # <<>> /\ AppOK(app) /\ <<>> \in Seq(Task)
           /\ Behind \in BOOLEAN /\ ~Pending(<<>>)
           /\ ~Stopping(Head(ready)) => Owned(app, Behind)
<1>1. ready # <<>> /\ AppOK(app) /\ <<>> \in Seq(Task)
  BY RunningTask, IInvApp
<1>2. Behind \in BOOLEAN /\ ~Pending(<<>>)
  BY DEF Behind, Pending
<1>3. ~Stopping(Head(ready)) => Owned(app, Behind)
  BY OwnedIsOwned DEF Owned, Behind
<1> QED
  BY <1>1, <1>2, <1>3

\* handle_grid_power_topic and its continuations, with the bridge available.
LEMMA GridOwned ==
    /\ IInv /\ LimitsOwned /\ Available(app)
    /\ \/ GridSample \/ GridStop \/ GridStopped \/ AdoptionRefused \/ ChargeRefusedStop
       \/ GridAdopted /\ app.fsm.state = "DISCHARGING"
    => LimitsOwned'
<1> SUFFICES ASSUME IInv, LimitsOwned, Available(app),
                    \/ GridSample \/ GridStop \/ GridStopped \/ AdoptionRefused
                    \/ ChargeRefusedStop
                    \/ GridAdopted /\ app.fsm.state = "DISCHARGING"
             PROVE  LimitsOwned'
  OBVIOUS
<1>1. AppOK(app) /\ AppOK(Stopped(app)) /\ \A p : Owned(Stopped(app), p)
  BY IInvApp, StoppedOK, StoppedOwned
<1>2. CASE GridSample
  <2> DEFINE w == Local(2)
             a == [app EXCEPT !.grid = w]
             b == Guarded(a, -w)
             surplus == Masked(a, -w)
             t == <<"gridStop", surplus, w>>
  <2>1. w \in GridSamples /\ -w \in Int /\ w \in Int
    BY <1>2, RunningTask, TaskLocals, WattsAreIntegers DEF GridSample, Local
  <2>2. AppOK(a) /\ SameLimits(app, a) /\ a.fsm = app.fsm
    BY <1>1, <2>1 DEF AppOK, App, SameLimits
  <2>3. surplus \in Int /\ t \in Task
    BY <2>1, <2>2, GuardedOK, TasksLeft
  <2>4. ready # <<>> /\ <<>> \in Seq(Task) /\ Owned(app, Behind)
    BY <1>2, OwnedNow DEF GridSample, Running, Stopping, StoppingTasks
  <2>5. Owned(a, Behind) /\ Owned(a, Behind \/ Pending(<<>>))
    <3> HIDE DEF a
    <3> QED
      BY <2>2, <2>4 DEF Owned, SameLimits
  <2>6. Pending(<<t>>)
    BY PendingOne DEF Stopping, StoppingTasks
  <2>7. Leaves(a, <<>>, <<>>) \/ Leaves(b, << t >>, <<>>) \/ RebalanceAndTick(a, surplus, w)
    BY <1>2 DEF GridSample
  <2> HIDE DEF w, a, b, surplus, t
  <2>8. CASE Leaves(a, <<>>, <<>>)
    BY <2>4, <2>5, <2>8, LeavesOwned
  <2>9. CASE Leaves(b, << t >>, <<>>)
    <3>1. <<t>> \in Seq(Task)
      BY <2>3
    <3> QED
      BY <2>4, <2>6, <2>9, <3>1, LeavesOwned DEF Owned
  <2>10. CASE RebalanceAndTick(a, surplus, w)
    BY <2>1, <2>2, <2>3, <2>4, <2>5, <2>10, RebalanceAndTickOwned
  <2> QED
    BY <2>7, <2>8, <2>9, <2>10
<1>3. CASE GridStop
  <2>1. ready # <<>> /\ <<>> \in Seq(Task) /\ Owned(Stopped(app), Behind \/ Pending(<<>>))
    BY <1>1, <1>3, OwnedNow DEF GridStop
  <2> QED
    BY <1>3, <2>1, LeavesOwned DEF GridStop
<1>4. CASE GridStopped
  <2>1. Local(2) \in Int /\ ready # <<>> /\ Owned(app, Behind)
    BY <1>4, RunningTask, TaskLocals, OwnedNow
       DEF GridStopped, Local, Running, Stopping, StoppingTasks
  <2> QED
    BY <1>1, <1>4, <2>1, RebalanceAndTickOwned DEF GridStopped
<1>5. CASE AdoptionRefused
  <2>1. Local(2) \in Int /\ ready # <<>>
    BY <1>5, RunningTask, TaskLocals DEF AdoptionRefused, Local
  <2> QED
    BY <1>1, <1>5, <2>1, TickAndPublishOwned DEF AdoptionRefused
<1>6. CASE ChargeRefusedStop
  <2> DEFINE a == Stopped(app)
  <2>1. ready # <<>> /\ <<>> \in Seq(Task)
    BY <1>6, OwnedNow DEF ChargeRefusedStop
  <2>2. a.fsm = app.fsm
    BY <1>1 DEF Stopped, Published, AppOK, App
  <2>3. \/ a.fsm.state = "DISCHARGING" /\ SlowBalance(a, "DISCHARGING", <<>>)
        \/ Leaves(a, <<>>, <<>>)
    BY <1>6, <2>2 DEF ChargeRefusedStop
  <2>4. Owned(a, Behind \/ Pending(<<>>)) /\ AppOK(a) /\ "DISCHARGING" \in Directions
    BY <1>1 DEF Directions
  <2> HIDE DEF a
  <2> QED
    BY <2>1, <2>3, <2>4, SlowBalanceOwned, LeavesOwned
<1>7. CASE GridAdopted /\ app.fsm.state = "DISCHARGING"
  <2> DEFINE a == DischargeSet(app, Local(3), FALSE)
             t == <<"adoptionRefused", Local(2)>>
  <2>1. Local(2) \in Int /\ Local(3) \in Nat
    BY <1>7, RunningTask, TaskLocals DEF GridAdopted, Local
  <2>2. ready # <<>> /\ <<>> \in Seq(Task) /\ Behind \in BOOLEAN /\ Owned(app, Behind)
    BY <1>7, OwnedNow DEF GridAdopted, Running, Stopping, StoppingTasks
  <2>3. CASE DischargeRefused(app, Local(3))
    <3>1. <<t>> \in Seq(Task) /\ Pending(<<t>>)
      BY <2>1, TasksLeft, PendingOne DEF Stopping, StoppingTasks
    <3>2. Leaves(a, <<t>>, <<>>)
      BY <1>7, <2>3 DEF GridAdopted
    <3> HIDE DEF a, t
    <3> QED
      BY <2>2, <3>1, <3>2, LeavesOwned DEF Owned
  <2>4. CASE ~DischargeRefused(app, Local(3))
    <3>1. AppOK(a) /\ Owned(a, Behind)
      BY <1>1, <1>7, <2>1, <2>2, <2>4, DischargeSetOK, DischargeSetOwned
    <3>2. TickAndPublish(a, Local(2), TRUE)
      BY <1>7, <2>4 DEF GridAdopted
    <3> HIDE DEF a
    <3> QED
      BY <2>1, <2>2, <3>1, <3>2, TickAndPublishOwned
  <2> QED
    BY <2>3, <2>4
<1> QED
  BY <1>2, <1>3, <1>4, <1>5, <1>6, <1>7

\* The coroutines of the callbacks, run in the state they were scheduled for.
LEMMA CallbackOwned ==
    /\ IInv /\ LimitsOwned /\ Available(app)
    /\ \/ CreateTask \/ StopCharging \/ Stop
       \/ StartCharging /\ app.fsm.state = "CHARGING"
       \/ StartDischarging /\ app.fsm.state = "DISCHARGING"
    => LimitsOwned'
<1> SUFFICES ASSUME IInv, LimitsOwned, Available(app),
                    \/ CreateTask \/ StopCharging \/ Stop
                    \/ StartCharging /\ app.fsm.state = "CHARGING"
                    \/ StartDischarging /\ app.fsm.state = "DISCHARGING"
             PROVE  LimitsOwned'
  OBVIOUS
<1> DEFINE stop == << <<"stop">> >>
<1>1. stop \in Seq(Task) /\ Pending(stop)
  BY TasksLeft, OneTask, PendingOne DEF Stopping, StoppingTasks
<1> HIDE DEF stop
<1>2. CASE CreateTask
  <2> DEFINE h == Head(ready)
             t == <<h[2]>>
  <2>1. ready # <<>> /\ t \in Task /\ h[1] = "schedule"
    BY <1>2, RunningTask, TaskLocals, TasksLeft DEF CreateTask
  <2>2. Leaves(app, <<t>>, <<>>)
    BY <1>2 DEF CreateTask, Local
  <2>3. Stopping(h) => Stopping(t)
    BY <2>1 DEF Stopping, StoppingTasks
  <2>4. ~Stopping(h) => Owned(app, Behind)
    BY <1>2, OwnedNow DEF CreateTask
  <2> HIDE DEF t
  <2>5. Stopping(t) => Pending(<<t>>)
    BY PendingOne
  <2>6. Owned(app, Behind \/ Pending(<<t>>)) /\ <<t>> \in Seq(Task)
    BY <2>1, <2>3, <2>4, <2>5 DEF Owned
  <2> QED
    BY <2>1, <2>2, <2>6, LeavesOwned
<1>3. CASE StopCharging
  <2>1. ready # <<>> /\ Leaves(app, stop, <<>>)
    BY <1>3, OwnedNow DEF StopCharging, stop
  <2> QED
    BY <1>1, <2>1, LeavesOwned DEF Owned
<1>4. CASE Stop
  <2>1. ready # <<>> /\ <<>> \in Seq(Task) /\ Leaves(Stopped(app), <<>>, <<>>)
    BY <1>4, OwnedNow DEF Stop
  <2>2. Owned(Stopped(app), Behind \/ Pending(<<>>))
    BY IInvApp, StoppedOwned
  <2> QED
    BY <2>1, <2>2, LeavesOwned
<1>5. CASE StartCharging /\ app.fsm.state = "CHARGING"
  <2> DEFINE a == ChargeSet(app, ChargeTarget(app), FALSE)
  <2>1. /\ ready # <<>> /\ AppOK(app) /\ <<>> \in Seq(Task) /\ Behind \in BOOLEAN
        /\ Owned(app, Behind)
    BY <1>5, OwnedNow DEF StartCharging, Running, Stopping, StoppingTasks
  <2>2. ChargeTarget(app) \in Nat
    BY <2>1, Watts
  <2>3. \/ Leaves(a, stop, <<>>)
        \/ ~ChargeRefused(app, ChargeTarget(app)) /\ Leaves(a, <<>>, <<>>)
    BY <1>5 DEF StartCharging, stop
  <2>4. ~ChargeRefused(app, ChargeTarget(app)) => Owned(a, Behind)
    BY <1>5, <2>1, <2>2, ChargeSetOwned
  <2> HIDE DEF a
  <2> QED
    BY <1>1, <2>1, <2>3, <2>4, LeavesOwned DEF Owned
<1>6. CASE StartDischarging /\ app.fsm.state = "DISCHARGING"
  <2> DEFINE a == DischargeSet(app, DischargeTarget(app), FALSE)
  <2>1. /\ ready # <<>> /\ AppOK(app) /\ <<>> \in Seq(Task) /\ Behind \in BOOLEAN
        /\ Owned(app, Behind)
    BY <1>6, OwnedNow DEF StartDischarging, Running, Stopping, StoppingTasks
  <2>2. DischargeTarget(app) \in Nat
    BY <2>1, Watts
  <2>3. \/ Leaves(a, stop, <<>>)
        \/ ~DischargeRefused(app, DischargeTarget(app)) /\ Leaves(a, <<>>, <<>>)
    BY <1>6 DEF StartDischarging, stop
  <2>4. ~DischargeRefused(app, DischargeTarget(app)) => Owned(a, Behind)
    BY <1>6, <2>1, <2>2, DischargeSetOwned
  <2> HIDE DEF a
  <2> QED
    BY <1>1, <2>1, <2>3, <2>4, LeavesOwned DEF Owned
<1> QED
  BY <1>2, <1>3, <1>4, <1>5, <1>6

\* A limit that must go to 0 does so unless it is too small to be published.
LEMMA PublishedZero ==
    ASSUME NEW a, AppOK(a), NEW w \in Nat, NEW b
    PROVE  /\ b = Published(a, w, 0, FALSE) /\ ~(0 < a.discharge /\ a.discharge < MinTargetChangeW)
                => b.discharge = 0 /\ b.fsm = a.fsm
           /\ b = Published(a, 0, w, FALSE) /\ ~(0 < a.charge /\ a.charge < MinTargetChangeW)
                => b.charge = 0 /\ b.fsm = a.fsm
<1>1. a.charge \in Nat /\ a.discharge \in Nat /\ MinTargetChangeW \in Nat
  BY AppFields, WattsAreIntegers
<1>2. \A x \in Nat : Distance(0, x) = x
  BY DEF Distance
<1>3. ASSUME b = Published(a, w, 0, FALSE),
             ~(0 < a.discharge /\ a.discharge < MinTargetChangeW)
      PROVE  b.discharge = 0 /\ b.fsm = a.fsm
  BY <1>1, <1>2, <1>3 DEF Published, AppOK, App
<1>4. ASSUME b = Published(a, 0, w, FALSE),
             ~(0 < a.charge /\ a.charge < MinTargetChangeW)
      PROVE  b.charge = 0 /\ b.fsm = a.fsm
  BY <1>1, <1>2, <1>4 DEF Published, AppOK, App
<1> QED
  BY <1>3, <1>4

\* The commands of the two forcing overrides.
LEMMA ForcedChargeOwned ==
    ASSUME NEW a, AppOK(a), a.fsm.mode = "force_on", Available(a), NEW w \in Nat,
           ~ChargeRefused(a, w), ~(0 < a.discharge /\ a.discharge < MinTargetChangeW), NEW p \in BOOLEAN
    PROVE  Owned(ChargeSet(a, w, FALSE), p)
<1> DEFINE v == AtMost(w, MaxChargeW)
           b == [a EXCEPT !.setpoint = v]
           c == Published(b, v, 0, FALSE)
<1>1. v \in Nat /\ AppOK(b)
  BY Watts, WattsAreIntegers, WithSetpointOK
<1>2. b.fsm = a.fsm /\ b.discharge = a.discharge
  BY DEF AppOK, App
<1>3. ChargeSet(a, w, FALSE) = c
  BY DEF ChargeSet
<1>4. c = Published(b, v, 0, FALSE)
  OBVIOUS
<1> HIDE DEF v, b, c
<1>5. c.discharge = 0 /\ c.fsm = b.fsm
  BY <1>1, <1>2, <1>4, PublishedZero
<1>6. c.fsm.mode = "force_on" /\ ~(0 > 0)
  BY <1>2, <1>5
<1>7. Owned(c, p)
  BY <1>5, <1>6 DEF Owned
<1> QED
  BY <1>3, <1>7

LEMMA ForcedDischargeOwned ==
    ASSUME NEW a, AppOK(a), a.fsm.mode = "force_discharge", Available(a), NEW w \in Nat,
           ~DischargeRefused(a, w), ~(0 < a.charge /\ a.charge < MinTargetChangeW), NEW p \in BOOLEAN
    PROVE  Owned(DischargeSet(a, w, FALSE), p)
<1> DEFINE v == AtMost(w, MaxDischargeW)
           b == [a EXCEPT !.setpoint = v]
           c == Published(b, 0, v, FALSE)
<1>1. v \in Nat /\ AppOK(b)
  BY Watts, WattsAreIntegers, WithSetpointOK
<1>2. b.fsm = a.fsm /\ b.charge = a.charge
  BY DEF AppOK, App
<1>3. DischargeSet(a, w, FALSE) = c
  BY DEF DischargeSet
<1>4. c = Published(b, 0, v, FALSE)
  OBVIOUS
<1> HIDE DEF v, b, c
<1>5. c.charge = 0 /\ c.fsm = b.fsm
  BY <1>1, <1>2, <1>4, PublishedZero
<1>6. c.fsm.mode = "force_discharge" /\ ~(0 > 0)
  BY <1>2, <1>5
<1>7. Owned(c, p)
  BY <1>5, <1>6 DEF Owned
<1> QED
  BY <1>3, <1>7

\* apply_override, for a command that is not too near what is published.
LEMMA OverrideOwned ==
    IInv /\ LimitsOwned /\ Available(app) /\ ~SmallLimit
      /\ ApplyOverride /\ Local(2).mode # "none" => LimitsOwned'
<1> SUFFICES ASSUME IInv, LimitsOwned, Available(app), ~SmallLimit,
                    ApplyOverride, Local(2).mode # "none"
             PROVE  LimitsOwned'
  OBVIOUS
<1> DEFINE o == Local(2)
           f == Overridden(app.fsm, o.mode, o.pause)
           a == [app EXCEPT !.fsm = f]
           calls == Callbacks(app.fsm, f)
           refused == << <<"stop">> >>
           charged == ChargeSet(a, o.watts, FALSE)
           discharged == DischargeSet(a, o.watts, FALSE)
<1>1. /\ o.mode \in Modes /\ o.watts \in Nat /\ o.pause \in Pauses
      /\ ready # <<>> /\ AppOK(app)
  BY RunningTask, TaskLocals, CommandsAreWellFormed, IInvApp DEF ApplyOverride, Local
<1>2. AppOK(a) /\ a.fsm = f /\ SameLimits(app, a) /\ Available(a)
  <2>1. AppOK(a)
    BY <1>1, AppFields, OverriddenOK, WithFsmOK
  <2>2. a.fsm = f /\ Available(a)
    BY <1>1 DEF AppOK, App, Available
  <2> QED
    BY <1>1, <2>1, <2>2, WithFsmSame
<1>3. f.mode = o.mode
  BY <1>1, AppFields DEF Overridden, Entered, Fsm
<1>4. /\ ~(0 < a.charge /\ a.charge < MinTargetChangeW)
      /\ ~(0 < a.discharge /\ a.discharge < MinTargetChangeW)
  BY <1>2 DEF SmallLimit, SameLimits
<1>5. calls \in Seq(Task) /\ calls \o <<>> = calls
  <2>1. calls \in Seq(Task)
    BY CallbacksOK
  <2> HIDE DEF calls
  <2> QED
    BY <2>1
<1>6. calls \o refused \in Seq(Task) /\ Pending(calls \o refused)
  <2>1. refused \in Seq(Task) /\ <<"stop">> \in Task /\ Stopping(<<"stop">>)
    BY TasksLeft, OneTask DEF Stopping, StoppingTasks
  <2> HIDE DEF calls
  <2> QED
    BY <1>5, <2>1, PendingOne
<1>7. \/ \E x : Leaves(x, calls \o refused, <<>>)
      \/ /\ o.mode = "force_on" /\ ~ChargeRefused(a, o.watts)
         /\ Leaves(charged, calls \o <<>>, <<>>)
      \/ /\ o.mode = "force_discharge" /\ ~DischargeRefused(a, o.watts)
         /\ Leaves(discharged, calls \o <<>>, <<>>)
  BY <1>1 DEF ApplyOverride, Modes
<1> HIDE DEF o, f, a, calls, refused, charged, discharged
<1>8. CASE \E x : Leaves(x, calls \o refused, <<>>)
  BY <1>1, <1>6, <1>8, LeavesOwned DEF Owned
<1>9. CASE /\ o.mode = "force_on" /\ ~ChargeRefused(a, o.watts)
           /\ Leaves(charged, calls \o <<>>, <<>>)
  <2>1. Owned(charged, Behind \/ Pending(calls))
    <3>1. (Behind \/ Pending(calls)) \in BOOLEAN
      OBVIOUS
    <3> QED
      BY <3>1, <1>1, <1>2, <1>3, <1>4, <1>9, ForcedChargeOwned DEF charged
  <2> QED
    BY <1>1, <1>5, <1>9, <2>1, LeavesOwned
<1>10. CASE /\ o.mode = "force_discharge" /\ ~DischargeRefused(a, o.watts)
            /\ Leaves(discharged, calls \o <<>>, <<>>)
  <2>1. Owned(discharged, Behind \/ Pending(calls))
    <3>1. (Behind \/ Pending(calls)) \in BOOLEAN
      OBVIOUS
    <3> QED
      BY <3>1, <1>1, <1>2, <1>3, <1>4, <1>10, ForcedDischargeOwned DEF discharged
  <2> QED
    BY <1>1, <1>5, <1>10, <2>1, LeavesOwned
<1> QED
  BY <1>7, <1>8, <1>9, <1>10

\* A handler that leaves the limits, the state and the override as they are.
LEMMA ReportLeavesOwned ==
    ASSUME IInv, LimitsOwned, NEW n, Running(n), ~Stopping(Head(ready)),
           NEW a, a.charge = app.charge, a.discharge = app.discharge, a.fsm = app.fsm, NEW w, Leaves(a, <<>>, w)
    PROVE  LimitsOwned'
<1>1. ready # <<>> /\ <<>> \in Seq(Task) /\ Owned(app, Behind)
  BY OwnedNow
<1>2. Owned(a, Behind \/ Pending(<<>>))
  BY <1>1 DEF Owned
<1> QED
  BY <1>1, <1>2, LeavesOwned

\* Battery reports, the reading of settings and the health of the bridge, apart
\* from the outages.
LEMMA ReportOwned ==
    /\ IInv /\ LimitsOwned /\ Available(app)
    /\ Reload \/ SocReport \/ SocStop \/ PowerReport \/ TelemetryStored
         \/ BridgeStatus \/ BridgeHeartbeat \/ StateLoop
    => LimitsOwned'
<1> SUFFICES ASSUME IInv, LimitsOwned, Available(app),
                    Reload \/ SocReport \/ SocStop \/ PowerReport \/ TelemetryStored
                      \/ BridgeStatus \/ BridgeHeartbeat \/ StateLoop
             PROVE  LimitsOwned'
  OBVIOUS
<1>1. AppOK(app)
  BY IInvApp
<1>2. CASE Reload \/ StateLoop
  <2>1. Running("reload") \/ Running("loop")
    BY <1>2 DEF Reload, StateLoop
  <2>2. ~Stopping(Head(ready))
    BY <2>1 DEF Running, Stopping, StoppingTasks
  <2>3. \E w : Leaves(app, <<>>, w)
    BY <1>2 DEF Reload, StateLoop
  <2> QED
    BY <2>1, <2>2, <2>3, ReportLeavesOwned
<1>3. CASE PowerReport \/ TelemetryStored \/ BridgeStatus \/ BridgeHeartbeat
  <2>1. \E n \in {"power", "telemetryStored", "status", "lastSeen"} : Running(n)
    BY <1>3 DEF PowerReport, TelemetryStored, BridgeStatus, BridgeHeartbeat
  <2>2. ~Stopping(Head(ready))
    BY <2>1 DEF Running, Stopping, StoppingTasks
  <2>3. \E a, w : /\ a.charge = app.charge /\ a.discharge = app.discharge
                  /\ a.fsm = app.fsm /\ Leaves(a, <<>>, w)
    <3>1. CASE PowerReport
      <4> DEFINE a == [app EXCEPT !.power = Local(2)]
      <4>1. a.charge = app.charge /\ a.discharge = app.discharge /\ a.fsm = app.fsm
        BY <1>1 DEF AppOK, App
      <4>2. Leaves(a, <<>>, << <<"telemetryStored">> >>)
        BY <3>1 DEF PowerReport
      <4> QED
        BY <4>1, <4>2
    <3>2. CASE TelemetryStored
      <4> DEFINE a == [app EXCEPT !.seen = "fresh"]
      <4>1. a.charge = app.charge /\ a.discharge = app.discharge /\ a.fsm = app.fsm
        BY <1>1 DEF AppOK, App
      <4>2. Leaves(a, <<>>, <<>>) \/ Leaves(app, <<>>, <<>>)
        BY <3>2 DEF TelemetryStored
      <4> HIDE DEF a
      <4> QED
        BY <4>1, <4>2
    <3>3. CASE BridgeStatus
      <4> DEFINE a == [app EXCEPT !.status = Local(2)]
      <4>1. a.charge = app.charge /\ a.discharge = app.discharge /\ a.fsm = app.fsm
        BY <1>1 DEF AppOK, App
      <4>2. \E w : Leaves(a, <<>>, w)
        BY <3>3 DEF BridgeStatus
      <4> HIDE DEF a
      <4> QED
        BY <4>1, <4>2
    <3>4. CASE BridgeHeartbeat
      <4> DEFINE a == [app EXCEPT !.seen = IF Local(2) = "invalid" THEN "never" ELSE Local(2)]
      <4>1. a.charge = app.charge /\ a.discharge = app.discharge /\ a.fsm = app.fsm
        BY <1>1 DEF AppOK, App
      <4>2. \E w : Leaves(a, <<>>, w)
        BY <3>4 DEF BridgeHeartbeat
      <4> HIDE DEF a
      <4> QED
        BY <4>1, <4>2
    <3> QED
      BY <1>3, <3>1, <3>2, <3>3, <3>4
  <2> QED
    BY <2>1, <2>2, <2>3, ReportLeavesOwned
<1>4. CASE SocStop
  <2>1. ready # <<>> /\ <<>> \in Seq(Task)
    BY <1>4, OwnedNow DEF SocStop
  <2>2. Owned(Stopped(app), Behind \/ Pending(<<>>))
    BY <1>1, StoppedOwned
  <2> QED
    BY <1>4, <2>1, <2>2, LeavesOwned DEF SocStop
<1>5. CASE SocReport
  <2> DEFINE a == [app EXCEPT !.soc = Local(2)]
             b == Guarded(a, 0)
             stop == << <<"socStop">> >>
  <2>1. ready # <<>> /\ Running("soc") /\ ~Stopping(Head(ready))
    BY <1>5, OwnedNow DEF SocReport, Running, Stopping, StoppingTasks
  <2>2. a.charge = app.charge /\ a.discharge = app.discharge /\ a.fsm = app.fsm
    BY <1>1 DEF AppOK, App
  <2>3. stop \in Seq(Task) /\ Pending(stop)
    BY TasksLeft, OneTask, PendingOne DEF Stopping, StoppingTasks
  <2>4. Leaves(b, stop, <<>>) \/ \E w : Leaves(a, <<>>, w)
    BY <1>5 DEF SocReport
  <2> HIDE DEF a, b, stop
  <2>5. CASE Leaves(b, stop, <<>>)
    BY <2>1, <2>3, <2>5, LeavesOwned DEF Owned
  <2>6. CASE \E w : Leaves(a, <<>>, w)
    BY <2>1, <2>2, <2>6, ReportLeavesOwned
  <2> QED
    BY <2>4, <2>5, <2>6
<1> QED
  BY <1>2, <1>3, <1>4, <1>5

\* Messages, the database and the clock take no stop from the queue.
LEMMA EnvironmentOwned ==
    /\ IInv /\ LimitsOwned
    /\ Messages \/ Database \/ LoopWakes \/ Elapse \/ HeartbeatGrowsStale \/ Midnight
    => LimitsOwned'
<1> SUFFICES ASSUME IInv, LimitsOwned,
                    Messages \/ Database \/ LoopWakes \/ Elapse \/ HeartbeatGrowsStale \/ Midnight
             PROVE  LimitsOwned'
  OBVIOUS
<1>1. AppOK(app) /\ app.fsm \in Fsm
  BY IInvApp, AppFields
<1>2. CASE Messages \/ Database \/ LoopWakes \/ Midnight
  <2>1. app' = app /\ (ready' = ready \/ \E t : ready' = Append(ready, t))
    BY <1>2 DEF Messages, Arrive, Database, DatabaseAnswers, DatabaseRaises, LoopWakes, Midnight
  <2> QED
    BY <2>1, GrowsOwned
<1>3. CASE Elapse
  <2>1. app'.charge = app.charge /\ app'.discharge = app.discharge /\ app'.fsm = Aged(app.fsm)
    BY <1>1, <1>3 DEF Elapse, AppOK, App
  <2>2. Aged(app.fsm).state = app.fsm.state /\ Aged(app.fsm).mode = app.fsm.mode
    BY <1>1 DEF Aged, Fsm
  <2> QED
    BY <1>3, <2>1, <2>2, GrowsOwned DEF Elapse
<1>4. CASE HeartbeatGrowsStale
  <2>1. app'.charge = app.charge /\ app'.discharge = app.discharge /\ app'.fsm = app.fsm
    BY <1>1, <1>4 DEF HeartbeatGrowsStale, AppOK, App
  <2> QED
    BY <1>4, <2>1, GrowsOwned DEF HeartbeatGrowsStale
<1> QED
  BY <1>2, <1>3, <1>4

\* Only the steps of Orphaning ever leave a published limit that no state, no
\* override and no pending stop will withdraw.
THEOREM OnlyTheseOrphan == Spec => OwnersAreKept
<1>1. IInv /\ [Next]_vars => [LimitsOwned => LimitsOwned' \/ Orphaning]_vars
  <2> SUFFICES ASSUME IInv, Next, LimitsOwned, ~Orphaning PROVE LimitsOwned'
    OBVIOUS
  <2>1. CASE RunTask
    <3>1. Available(app)
      BY <2>1 DEF Orphaning
    <3>2. ApplyOverride => ~SmallLimit /\ Local(2).mode # "none"
      BY DEF Orphaning
    <3>3. /\ GridAdopted => app.fsm.state = "DISCHARGING"
          /\ StartCharging => app.fsm.state = "CHARGING"
          /\ StartDischarging => app.fsm.state = "DISCHARGING"
          /\ ~Reloaded /\ ~StatusStored /\ ~LastSeenStored /\ ~LoopStale
      BY DEF Orphaning
    <3> QED
      BY <2>1, <3>1, <3>2, <3>3, GridOwned, CallbackOwned, OverrideOwned, ReportOwned
         DEF RunTask
  <2> QED
    BY <2>1, EnvironmentOwned DEF Next
<1>2. [][LimitsOwned => LimitsOwned' \/ Orphaning]_vars <=> OwnersAreKept
  BY PTL DEF OwnersAreKept
<1> QED
  BY <1>1, <1>2, AppInvariance, PTL DEF Spec
=============================================================================
