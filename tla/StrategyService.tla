--------------------------- MODULE StrategyService ---------------------------
(***************************************************************************)
(* The service of strategy v2 (strategy/v2/service.py) as the primary      *)
(* strategy: an asyncio program that takes samples and commands from MQTT, *)
(* holds tick_lock for a whole tick, and gives up its turn inside a tick   *)
(* whenever the database is asked.  What runs in those gaps, such as       *)
(* telemetry, overrides, reloads and the nightly recalculation, is an      *)
(* action of its own; a gap ends with the database's answer or its error.  *)
(*                                                                         *)
(* Times are units of the clock now.  A restart may happen at any moment;  *)
(* the broker keeps the last setpoint, the database the override's row and *)
(* the plans of the days.                                                  *)
(***************************************************************************)
EXTENDS SoCGuard, Overrides, DayPlanner, FiniteSets

CONSTANTS
    SettingsChoices,   \* the settings a reload may find
    GridSamples, BatteryPowers, SocLevels, Voltages,   \* what telemetry says; Voltages: is it too low
    HeartbeatAges,     \* how old an arriving heartbeat may be
    Irradiations, PriceTables,                         \* what the planner is told
    Profiles,          \* the consumption profiles the database may hold
    Commands,          \* the override messages
    RecalculateHour, FirstTime, LastTime, MaxWaiting, MaxWrites

\* Time starts late enough that no night of the model begins before zero.
ASSUME TimeAssumption ==
    /\ FirstTime \in Nat /\ HorizonEnd <= FirstTime
    /\ LastTime \in Nat /\ FirstTime <= LastTime
    /\ MaxWaiting \in Nat /\ MaxWrites \in Nat

\* What telemetry, the user and the database may say.
ASSUME InputAssumption ==
    /\ GridSamples \subseteq Int /\ BatteryPowers \subseteq Int
    /\ SocLevels \subseteq Nat /\ HeartbeatAges \subseteq Nat /\ Voltages \subseteq BOOLEAN
    /\ \A c \in Commands : c.watts \in Int
    /\ Profiles \subseteq [0..((DayLength - 1) \div SlotLength) -> Int]

\* The limits are not negative (BATTERY_KEYS); the gain is a fraction.
ASSUME SettingsAssumption ==
    /\ FullCycleCeiling \in Int
    /\ \A s \in SettingsChoices :
        /\ {s.maxChargeW, s.maxChargeA, s.nominalV, s.maxDischargeW} \subseteq Nat
        /\ {s.gridTargetW, s.rampFloorW, s.rampHold, s.rampCeilingW, s.jitterW, s.exportThresholdW,
             s.exportHysteresisW, s.priceBiasW, s.socBand, s.staleAfter} \subseteq Int
        /\ {s.floor, s.floorStep, s.leastFloor, s.ceiling, s.ceilingStep, s.mostCeiling} \subseteq Int
        /\ s.gain.num \in Int /\ s.gain.den \in Nat \ {0}

VARIABLES
    now,
    settings, plan, prices, profile,
    dayPlans,     \* the plans in the database
    state,        \* the ExecutorState
    exec, guard, schedule,
    override, started, row,   \* OverrideManager.current, ._cycle_started, its row
    writes,       \* overrides whose row is being written, outside a tick
    last, loggedAt,           \* last_decision, last_adjustment_log_at
    tick,         \* the tick that holds tick_lock
    waiting,      \* the ticks that wait for it
    recalculation, reloading,
    wire,         \* the setpoint the broker retains
    unlogged, spoiled         \* see the properties

telemetry == <<prices, profile, settings>>
memory == <<exec, guard, schedule, override, started, last, loggedAt>>
store == <<row, dayPlans>>
history == <<unlogged, spoiled>>
vars == <<now, plan, state, memory, telemetry, store, writes, tick, waiting, recalculation, reloading, wire, history>>

NoProfile == <<>>
NoPlan == <<>>
NoDecision == [made |-> FALSE, setpoint |-> 0]
NoRecalculation == [pc |-> "idle", day |-> 0, prices |-> <<>>]

Unheard == [net |-> 0, soc |-> Unknown, power |-> 0, voltageLow |-> FALSE, lastSeen |-> Never, setpoint |-> 0]

Limits(s) == [least |-> -s.maxDischargeW, most |-> EffectiveMaxChargeW(s)]

NoTick == [pc |-> "free", raw |-> 0, setpoint |-> 0, stamp |-> 0, seen |-> Unheard, plan |-> NoPlan,
           limits |-> [least |-> 0, most |-> 0]]

Days == DayOf(FirstTime)..(DayOf(LastTime) + 1)
PlanOf(s, day) == IF dayPlans[day] = NoPlan THEN DefaultDayPlan(s, day) ELSE dayPlans[day]

(***************************************************************************)
(* The end of a tick: the guard, the publication and the log.              *)
(***************************************************************************)
Floor(f, t) == IF f = NoSchedule THEN plan.floor ELSE FloorAt(f, t.stamp)

LogDue(adjusted, changed, stamp) ==
    adjusted /\ ~changed /\ (loggedAt = Never \/ stamp - loggedAt >= settings.logInterval)

LogTime(t, logged) == IF t.setpoint = t.raw THEN Never ELSE IF logged THEN t.stamp ELSE loggedAt

\* Mutant: the decision is remembered as the executor made it.
CompletedUnadjusted(t, st, logged) ==
    /\ last' = [made |-> TRUE, setpoint |-> t.raw]
    /\ state' = [st EXCEPT !.setpoint = t.setpoint]
    /\ loggedAt' = LogTime(t, logged)
    /\ tick' = NoTick

Completed(t, st, logged) ==
    /\ last' = [made |-> TRUE, setpoint |-> t.setpoint]
    /\ state' = [st EXCEPT !.setpoint = t.setpoint]
    /\ loggedAt' = LogTime(t, logged)
    /\ tick' = NoTick

Finish(t, w, st, f, skip) ==
    LET decided == [t EXCEPT !.setpoint = Guarded(guard, settings, st, Floor(f, t), plan.ceiling, t.stamp, skip, w)]
        changed == ~last.made \/ decided.setpoint # last.setpoint
    IN  /\ guard' = GuardMemory(guard, settings, st, Floor(f, t), plan.ceiling, t.stamp, skip)
        /\ wire' = IF changed THEN decided.setpoint ELSE wire
        /\ unlogged' = (unlogged /\ ~changed)
        /\ IF changed \/ LogDue(decided.setpoint # decided.raw, changed, t.stamp)
           THEN /\ tick' = [decided EXCEPT !.pc = "logging"]
                /\ state' = st
                /\ UNCHANGED <<last, loggedAt>>
           ELSE Completed(decided, st, FALSE)

(***************************************************************************)
(* OverrideManager.apply_with_reason, from where it last gave up its turn, *)
(* and the rest of the tick if it does not do so again.                    *)
(***************************************************************************)
ApplyOverride(t, st, f) ==
    IF CycleComplete(override, started, settings, t.seen)
    THEN /\ override' = NoOverride /\ started' = FALSE
         /\ tick' = [t EXCEPT !.pc = "cycled"]
         /\ state' = st
         /\ UNCHANGED <<guard, last, loggedAt, wire, unlogged>>
    ELSE /\ started' = (started \/ CycleStarts(override, settings, t.seen))
         /\ Finish(t, Applied(override, settings, t.plan, t.seen, t.raw), st, f, BypassesSocLimits(override))
         /\ UNCHANGED override

\* update_floor_schedule: a night without SoC has no schedule.
Load(st) == st.net + st.power
ScheduleFor(st) ==
    IF profile = NoProfile THEN schedule
    ELSE IF ~InHorizon(now) \/ st.soc = Unknown THEN NoSchedule
    ELSE LET base == IF schedule.start # NightStart(now) THEN Built(profile, now, st.soc, plan.floor) ELSE schedule
         IN  Recomputed(Observed(base, now, Load(st)), profile, now, st.soc)

Begun(st) == [pc |-> "begun", raw |-> Candidate(exec, settings, plan, st, now), setpoint |-> 0,
              stamp |-> now, seen |-> st, plan |-> plan, limits |-> Limits(settings)]

Begin(st) ==
    /\ exec' = Ticked(exec, settings, plan, st, now)
    /\ schedule' = ScheduleFor(st)
    /\ IF Expired(override, now)
       THEN /\ override' = NoOverride /\ started' = FALSE
            /\ tick' = [Begun(st) EXCEPT !.pc = "expiring"]
            /\ state' = st
            /\ UNCHANGED <<guard, last, loggedAt, wire, unlogged>>
       ELSE ApplyOverride(Begun(st), st, ScheduleFor(st))
    /\ UNCHANGED <<now, plan, telemetry, store, writes, recalculation, reloading, spoiled>>

(***************************************************************************)
(* Messages.                                                               *)
(***************************************************************************)
TickFree == tick.pc = "free"

Telemetry(st) ==
    /\ state' = st
    /\ UNCHANGED <<now, plan, memory, telemetry, store, writes, tick, waiting, recalculation, reloading, wire, history>>

BatterySoc == \E soc \in SocLevels : Telemetry([state EXCEPT !.soc = soc])
BatteryPower == \E power \in BatteryPowers : Telemetry([state EXCEPT !.power = power])
BatteryVoltage == \E low \in Voltages : Telemetry([state EXCEPT !.voltageLow = low])
BridgeLastSeen == \E age \in HeartbeatAges : age <= now /\ Telemetry([state EXCEPT !.lastSeen = now - age])

\* A sample ticks at once, or after the ticks that were there before it.
GridSample ==
    \E net \in GridSamples :
        /\ TickFree /\ waiting = 0
        /\ Begin([state EXCEPT !.net = net])
        /\ UNCHANGED waiting

GridSampleWaits ==
    \E net \in GridSamples :
        /\ ~TickFree \/ waiting > 0
        /\ waiting < MaxWaiting
        /\ waiting' = waiting + 1
        /\ state' = [state EXCEPT !.net = net]
        /\ UNCHANGED <<now, plan, memory, telemetry, store, writes, tick, recalculation, reloading, wire, history>>

NextTick ==
    /\ TickFree /\ waiting > 0
    /\ waiting' = waiting - 1
    /\ Begin(state)

TradePrices ==
    \E rows \in PriceTables :
        /\ prices' = rows
        /\ UNCHANGED <<now, plan, state, memory, profile, settings, store, writes, tick, waiting, recalculation, reloading, wire, history>>

(***************************************************************************)
(* A tick whose override write was answered, or failed.                    *)
(***************************************************************************)
Persisting == tick.pc \in {"expiring", "cycled"}

OverrideCleared ==
    /\ Persisting
    /\ row' = NoOverride
    /\ spoiled' = ((spoiled /\ override # NoOverride) \/ writes # {})
    /\ IF tick.pc = "expiring"
       THEN ApplyOverride(tick, state, schedule)
       ELSE /\ Finish(tick, tick.raw, state, schedule, BypassesSocLimits(override))
            /\ UNCHANGED <<override, started>>
    /\ UNCHANGED <<now, plan, exec, schedule, telemetry, dayPlans, writes, waiting, recalculation, reloading>>

\* The tick ends with the exception; the executor has had its turn.
ClearFails ==
    /\ Persisting
    /\ tick' = NoTick
    /\ spoiled' = TRUE
    /\ UNCHANGED <<now, plan, state, memory, telemetry, store, writes, waiting, recalculation, reloading, wire, unlogged>>

LogWritten ==
    /\ tick.pc = "logging"
    /\ Completed(tick, state, TRUE)
    /\ UNCHANGED <<now, plan, exec, guard, schedule, override, started, telemetry, store, writes, waiting,
                   recalculation, reloading, wire, history>>

LogFails ==
    /\ tick.pc = "logging"
    /\ tick' = NoTick
    /\ unlogged' = TRUE
    /\ UNCHANGED <<now, plan, state, memory, telemetry, store, writes, waiting, recalculation, reloading, wire, spoiled>>

(***************************************************************************)
(* Overrides from the user: in force at once, in the database later.       *)
(***************************************************************************)
Command(c) == [mode |-> Normalized(c.mode), watts |-> c.watts, exempt |-> c.exempt,
               expires |-> IF c.lasts = Never THEN Never ELSE now + c.lasts]

OverrideMessage ==
    \E c \in Commands :
        /\ Cardinality(writes) < MaxWrites
        /\ override' = Command(c) /\ started' = FALSE
        /\ writes' = writes \cup {Command(c)}
        /\ spoiled' = (spoiled \/ writes # {} \/ Persisting)
        /\ UNCHANGED <<now, plan, state, exec, guard, schedule, last, loggedAt, telemetry, store, tick, waiting,
                       recalculation, reloading, wire, unlogged>>

OverridePersisted ==
    \E w \in writes :
        /\ row' = w
        /\ writes' = writes \ {w}
        /\ spoiled' = (spoiled /\ (override # w \/ writes # {w} \/ Persisting))
        /\ UNCHANGED <<now, plan, state, memory, telemetry, dayPlans, tick, waiting, recalculation, reloading, wire, unlogged>>

PersistFails ==
    \E w \in writes :
        /\ writes' = writes \ {w}
        /\ spoiled' = TRUE
        /\ UNCHANGED <<now, plan, state, memory, telemetry, store, tick, waiting, recalculation, reloading, wire, unlogged>>

(***************************************************************************)
(* Reload and the nightly recalculation, which plans the next day and puts *)
(* the plan in force at once; both give up their turn.                     *)
(***************************************************************************)
Reload ==
    /\ ~reloading
    /\ reloading' = TRUE
    /\ UNCHANGED <<now, plan, state, memory, telemetry, store, writes, tick, waiting, recalculation, wire, history>>

Reloaded ==
    /\ reloading
    /\ reloading' = FALSE
    /\ settings' \in SettingsChoices \cup {settings}
    /\ UNCHANGED <<now, plan, state, memory, prices, profile, store, writes, tick, waiting, recalculation, wire, history>>

Recalculate ==
    /\ recalculation.pc = "idle"
    /\ TimeOfDay(now) = RecalculateHour
    /\ recalculation' = [pc |-> "planning", day |-> DayOf(now) + 1, prices |-> prices]
    /\ UNCHANGED <<now, plan, state, memory, telemetry, store, writes, tick, waiting, reloading, wire, history>>

PlanMade ==
    \E ghi \in Irradiations :
        /\ recalculation.pc = "planning"
        /\ plan' = BuildPlan(settings, recalculation.day, ghi, recalculation.prices)
        /\ dayPlans' = [dayPlans EXCEPT ![recalculation.day] = plan']
        /\ recalculation' = [recalculation EXCEPT !.pc = "profiling"]
        /\ UNCHANGED <<now, state, memory, telemetry, row, writes, tick, waiting, reloading, wire, history>>

PlanFails ==
    /\ recalculation.pc = "planning"
    /\ recalculation' = NoRecalculation
    /\ UNCHANGED <<now, plan, state, memory, telemetry, store, writes, tick, waiting, reloading, wire, history>>

\* Mutant: the schedule outlives the plan it was made for.
ProfileRefreshedOnly ==
    /\ recalculation.pc = "profiling"
    /\ recalculation' = NoRecalculation
    /\ profile' \in Profiles \cup {profile}
    /\ UNCHANGED <<now, plan, state, memory, prices, settings, store, writes, tick, waiting, reloading, wire, history>>

\* A profile that cannot be read stays what it was.
ProfileRefreshed ==
    /\ recalculation.pc = "profiling"
    /\ recalculation' = NoRecalculation
    /\ profile' \in Profiles \cup {profile}
    /\ schedule' = NoSchedule
    /\ UNCHANGED <<now, plan, state, exec, guard, override, started, last, loggedAt, prices, settings, store, writes,
                   tick, waiting, reloading, wire, history>>

(***************************************************************************)
(* Time, the start and the restart.                                        *)
(***************************************************************************)
Elapse ==
    /\ now < LastTime
    /\ now' = now + 1
    /\ UNCHANGED <<plan, state, memory, telemetry, store, writes, tick, waiting, recalculation, reloading, wire, history>>

\* Mutant: the override is not restored.
StartedAfresh ==
    /\ settings' \in SettingsChoices
    /\ override' = NoOverride
    /\ plan' = PlanOf(settings', DayOf(now))
    /\ profile' \in Profiles \cup {NoProfile}
    /\ state' = Unheard /\ prices' = <<>>
    /\ exec' = Fresh /\ guard' = NothingBlocked /\ schedule' = NoSchedule
    /\ started' = FALSE /\ last' = NoDecision /\ loggedAt' = Never

\* What start() makes of the database's contents.
Started ==
    /\ settings' \in SettingsChoices
    /\ override' = row
    /\ plan' = PlanOf(settings', DayOf(now))
    /\ profile' \in Profiles \cup {NoProfile}
    /\ state' = Unheard /\ prices' = <<>>
    /\ exec' = Fresh /\ guard' = NothingBlocked /\ schedule' = NoSchedule
    /\ started' = FALSE /\ last' = NoDecision /\ loggedAt' = Never

Restart ==
    /\ Started
    /\ tick' = NoTick /\ waiting' = 0 /\ writes' = {}
    /\ recalculation' = NoRecalculation /\ reloading' = FALSE
    /\ unlogged' = FALSE /\ spoiled' = FALSE
    /\ UNCHANGED <<now, row, dayPlans, wire>>

Init ==
    /\ now = FirstTime
    /\ settings \in SettingsChoices
    /\ dayPlans = [d \in Days |-> NoPlan]
    /\ plan = DefaultDayPlan(settings, DayOf(FirstTime))
    /\ profile \in Profiles \cup {NoProfile}
    /\ state = Unheard /\ prices = <<>>
    /\ exec = Fresh /\ guard = NothingBlocked /\ schedule = NoSchedule
    /\ override = NoOverride /\ row = NoOverride /\ started = FALSE /\ writes = {}
    /\ last = NoDecision /\ loggedAt = Never
    /\ tick = NoTick /\ waiting = 0
    /\ recalculation = NoRecalculation /\ reloading = FALSE
    /\ wire = 0
    /\ unlogged = FALSE /\ spoiled = FALSE

Next ==
    \/ BatterySoc \/ BatteryPower \/ BatteryVoltage \/ BridgeLastSeen \/ TradePrices
    \/ GridSample \/ GridSampleWaits \/ NextTick
    \/ OverrideCleared \/ ClearFails \/ LogWritten \/ LogFails
    \/ OverrideMessage \/ OverridePersisted \/ PersistFails
    \/ Reload \/ Reloaded \/ Recalculate \/ PlanMade \/ PlanFails \/ ProfileRefreshed
    \/ Elapse \/ Restart

Spec == Init /\ [][Next]_vars

(***************************************************************************)
(* Properties.                                                             *)
(***************************************************************************)

\* The state of the service: what each attribute, each row and each gap of
\* the program can hold.
TypeOK ==
    /\ now \in FirstTime..LastTime
    /\ settings \in SettingsChoices /\ prices \in PriceTables \cup {<<>>}
    /\ profile \in Profiles \cup {NoProfile}
    /\ DOMAIN dayPlans = Days
    /\ state.net \in GridSamples \cup {0} /\ state.power \in BatteryPowers \cup {0}
    /\ state.soc \in SocLevels \cup {Unknown} /\ state.voltageLow \in BOOLEAN
    /\ state.lastSeen \in Never..LastTime
    /\ exec.direction \in {-1, 0, 1} /\ (exec.firstSeen = Never <=> exec.direction = 0)
    /\ {guard.dischargeBlocked, guard.chargeBlocked, started, last.made, reloading, unlogged, spoiled} \subseteq BOOLEAN
    /\ \A c \in writes \cup {row, override} :
        c = NoOverride \/ \E m \in Commands : c.mode = Normalized(m.mode) /\ c.watts = m.watts
    /\ tick.pc \in {"free", "expiring", "cycled", "logging"}
    /\ waiting \in 0..MaxWaiting /\ Cardinality(writes) <= MaxWrites
    /\ recalculation.pc \in {"idle", "planning", "profiling"}

\* What the service holds of the battery, as of the time stamp of a decision
\* that was just published.
Known ==
    LET stamp == IF tick.pc = "logging" THEN tick.stamp ELSE now
    IN  [blind |-> Stopped(settings, state, stamp),
         empty |-> state.soc # Unknown
                   /\ state.soc <= IF schedule = NoSchedule THEN plan.floor ELSE FloorAt(schedule, stamp),
         full |-> state.soc # Unknown /\ state.soc >= plan.ceiling,
         exempt |-> BypassesSocLimits(override),
         tops |-> {Limits(settings).most, tick.limits.most, state.setpoint},
         bottoms |-> {Limits(settings).least, tick.limits.least, state.setpoint}]

Promise == INSTANCE SetpointPromise WITH setpoint <- wire, known <- Known

\* The service implements SetpointPromise: whatever arrives in the gaps of a
\* tick, a setpoint that is published (service.py:185) is one that the
\* battery allows at that moment, as far as the service knows.  A setpoint is
\* within the limits of this moment or of the beginning of the tick (a reload
\* may have come between), or, while it is being trimmed, at least no
\* farther out than the setpoint before.
KeepsPromise == Promise!Spec

\* Between ticks the setpoint the broker retains is the last decision, to
\* which the next one is compared (service.py:176), unless the decision
\* could not be logged after it was published: then a later stop may equal
\* the last decision and never be sent.
WireIsTheDecision == last.made /\ tick.pc # "logging" /\ ~unlogged => wire = last.setpoint

\* With no write on its way the row that a restart loads (override.py:32) is
\* the override in force, unless a write failed or overlapped another one:
\* an override that ended or was replaced does not come back otherwise.
RowFollowsOverride == writes = {} /\ ~Persisting /\ ~spoiled => row = override

\* The guard's floor is that of the plan in force or glides down to it
\* (soc_guard.py:27), except while a recalculation that has put its plan in
\* force still awaits the profile.
ScheduleIsForThePlan ==
    schedule # NoSchedule /\ recalculation.pc # "profiling" => schedule.floor = plan.floor

\* While an export blocks it (executor.py:91), no sample makes the executor
\* ask for more discharge than is set already.
ExportNeverDeepens ==
    \A net \in GridSamples :
        LET st == [state EXCEPT !.net = net]
        IN  ExportBlocked(exec, settings, st) =>
                Candidate(exec, settings, plan, st, now) >= IF state.setpoint < 0 THEN state.setpoint ELSE 0

\* The floor of a night never rises again and never exceeds the SoC it was
\* computed from (floor_schedule.py:17), unless the SoC is below the plan's
\* floor; a new schedule may start higher.
FloorGlides ==
    [][schedule' # NoSchedule /\ schedule' # schedule =>
        /\ schedule.start = schedule'.start => schedule'.current <= schedule.current
        /\ schedule'.floor <= schedule'.current
        /\ schedule'.current <= state'.soc \/ schedule'.current = schedule'.floor]_vars

\* What only the exemption of an override allows is the setpoint of that
\* override, except when a message brought a new exempt override while the
\* row of the previous one, whose cycle had ended, was being written: then
\* the executor's candidate passes the guard under the new one's exemption.
ExemptionIsForOverrides ==
    [][wire' # wire /\ ~Promise!Allowed(wire', [Known' EXCEPT !.exempt = FALSE]) /\ tick.pc # "cycled"
        => /\ BypassesSocLimits(override')
           /\ wire' = Applied(override', settings, plan, state', 0)]_vars
=============================================================================
