--------------------------- MODULE Field_proofs ---------------------------
(***************************************************************************)
(* Theorems about the programs in the field, for any limits, overrides,    *)
(* topics, samples, intervals, tokens and rows: the first charge           *)
(* controller, the MQTT client of the services, the reports of the         *)
(* inverter bridge, the token of the solar gateway and the log of the      *)
(* setpoints.                                                              *)
(***************************************************************************)
EXTENDS ChargeController, MqttClient, BridgeReports, TokenRefresh, ControlLog,
        FiniteSetTheorems, TLAPS

(***************************************************************************)
(* Numbers: the larger and the smaller of two, which the community modules *)
(* choose from a set.                                                      *)
(***************************************************************************)
LEMMA MaxOfTwo ==
    ASSUME NEW a \in Int, NEW b \in Int
    PROVE  Max({a, b}) = IF a >= b THEN a ELSE b
<1> DEFINE m == IF a >= b THEN a ELSE b
<1>1. m \in {a, b} /\ \A y \in {a, b} : m >= y
      OBVIOUS
<1>2. \A x \in {a, b} : (\A y \in {a, b} : x >= y) => x = m
      OBVIOUS
<1>3. Max({a, b}) = CHOOSE x \in {a, b} : \A y \in {a, b} : x >= y
      BY DEF Max
<1> HIDE DEF m
<1>4. Max({a, b}) = m
      BY <1>1, <1>2, <1>3
<1>5. QED BY <1>4 DEF m

LEMMA MinOfTwo ==
    ASSUME NEW a \in Int, NEW b \in Int
    PROVE  Min({a, b}) = IF a <= b THEN a ELSE b
<1> DEFINE m == IF a <= b THEN a ELSE b
<1>1. m \in {a, b} /\ \A y \in {a, b} : m <= y
      OBVIOUS
<1>2. \A x \in {a, b} : (\A y \in {a, b} : x <= y) => x = m
      OBVIOUS
<1>3. Min({a, b}) = CHOOSE x \in {a, b} : \A y \in {a, b} : x <= y
      BY DEF Min
<1> HIDE DEF m
<1>4. Min({a, b}) = m
      BY <1>1, <1>2, <1>3
<1>5. QED BY <1>4 DEF m
(***************************************************************************)
(* The invariant: modes whose limits do not cross, and decisions that obey *)
(* the limits they were made under.  A decision may keep the last setpoint *)
(* alive, so that this one has to be within the limits of the battery.     *)
(***************************************************************************)
GoodMode(m) ==
    /\ m = [name |-> m.name, floor |-> m.floor, ceiling |-> m.ceiling, until |-> m.until]
    /\ m.floor \in Nat /\ m.ceiling \in Int
    /\ m.floor < m.ceiling /\ m.ceiling <= 100

BatteryRange == (-Settings.maxCharge)..Settings.maxDischarge

GoodDecision(d) ==
    d.made =>
        /\ d.setpoint \in BatteryRange
        /\ d.soc # Unknown /\ d.soc <= d.mode.floor => ~d.allowed
        /\ d.grid <= Settings.gridTarget => d.setpoint <= Settings.jitter
        /\ d.soc # Unknown /\ d.soc >= d.mode.ceiling => -d.setpoint <= Settings.jitter

ModesInv == (mode = NoMode \/ GoodMode(mode)) /\ (stored = NoMode \/ GoodMode(stored))

ControllerInv ==
    /\ soc \in Int /\ power \in Int /\ grid \in Int
    /\ ModesInv
    /\ lastSetpoint \in BatteryRange
    /\ GoodDecision(decision) /\ GoodDecision(waiting)
    /\ waiting.made => command = Commands(waiting)

LEMMA WithinLimits ==
    ASSUME NEW low \in Int, NEW high \in Int, NEW n \in Int, low <= high
    PROVE  Within(low, high, n) \in low..high
<1>1. Min({high, n}) = IF high <= n THEN high ELSE n
      BY MinOfTwo
<1> DEFINE m == Min({high, n})
<1>2. m \in Int /\ m <= high
      BY <1>1
<1> HIDE DEF m
<1>3. Max({low, m}) = IF low >= m THEN low ELSE m
      BY <1>2, MaxOfTwo
<1>4. Max({low, m}) \in low..high
      BY <1>2, <1>3
<1>5. QED BY <1>4 DEF Within, m

\* A mode from the database, and the default, have limits that do not cross.
LEMMA ClampedIsGood ==
    ASSUME NEW m, m = [name |-> m.name, floor |-> m.floor, ceiling |-> m.ceiling, until |-> m.until],
           m.floor \in Int, m.ceiling \in Int
    PROVE  GoodMode(ClampMode(m))
<1> DEFINE low == Max({0, m.floor})
           high == Min({100, m.ceiling})
<1>1. low = (IF 0 >= m.floor THEN 0 ELSE m.floor) /\ high = (IF 100 <= m.ceiling THEN 100 ELSE m.ceiling)
  <2>1. 0 \in Int /\ 100 \in Int
        OBVIOUS
  <2>2. QED BY <2>1, MaxOfTwo, MinOfTwo
<1> HIDE DEF low, high
<1>2. ClampMode(m) = IF low >= high
                     THEN [m EXCEPT !.floor = DefaultFloor, !.ceiling = DefaultCeiling]
                     ELSE [m EXCEPT !.floor = low, !.ceiling = high]
      BY DEF ClampMode, low, high
<1>3. CASE low >= high
  <2>1. ClampMode(m) = [name |-> m.name, floor |-> 20, ceiling |-> 90, until |-> m.until]
        BY <1>2, <1>3 DEF DefaultFloor, DefaultCeiling
  <2>2. QED BY <2>1 DEF GoodMode
<1>4. CASE ~(low >= high)
  <2>1. ClampMode(m) = [name |-> m.name, floor |-> low, ceiling |-> high, until |-> m.until]
        BY <1>2, <1>4
  <2>2. low \in Nat /\ high \in Int /\ low < high /\ high <= 100
        BY <1>1, <1>4
  <2>3. QED BY <2>1, <2>2 DEF GoodMode
<1>5. QED BY <1>3, <1>4

LEMMA DailyIsGood ==
    ASSUME NEW name
    PROVE  GoodMode(ClampMode(Daily(name)))
<1>1. Daily(name).floor = Settings.floor /\ Daily(name).ceiling = Settings.ceiling
      BY DEF Daily
<1>2. Daily(name) = [name |-> Daily(name).name, floor |-> Daily(name).floor,
                     ceiling |-> Daily(name).ceiling, until |-> Daily(name).until]
      BY DEF Daily
<1>3. QED BY <1>1, <1>2, ClampedIsGood, ControllerConstants

LEMMA ActiveModeIsGood ==
    ASSUME ModesInv
    PROVE  GoodMode(ActiveMode)
<1>1. CASE mode # NoMode /\ mode.until > now
      BY <1>1 DEF ModesInv, ActiveMode
<1>2. CASE ~(mode # NoMode /\ mode.until > now) /\ stored # NoMode
  <2>1. GoodMode(ClampMode(stored))
        BY <1>2, ClampedIsGood DEF ModesInv, GoodMode
  <2>2. ActiveMode = ClampMode(stored)
        BY <1>2 DEF ActiveMode
  <2>3. QED BY <2>1, <2>2
<1>3. CASE ~(mode # NoMode /\ mode.until > now) /\ stored = NoMode
  <2>1. ActiveMode = ClampMode(Daily("NORMAL"))
        BY <1>3 DEF ActiveMode
  <2>2. QED BY <2>1, DailyIsGood
<1>4. QED BY <1>1, <1>2, <1>3

LEMMA RequestedIsInRange ==
    ASSUME power \in Int, grid \in Int
    PROVE  Requested \in BatteryRange
<1>1. Max({1, Settings.rampCeiling}) \in Int /\ Max({1, Settings.rampCeiling}) >= 1
      BY MaxOfTwo, ControllerConstants
<1>2. Offset \in Int
      BY ControllerConstants DEF Offset
<1>3. Capped(Offset) \in Int
      BY <1>1, <1>2, WithinLimits DEF Capped
<1>4. RampDelta \in Int
      BY <1>3 DEF RampDelta
<1>5. /\ -Settings.maxCharge \in Int /\ Settings.maxDischarge \in Int
      /\ -Settings.maxCharge <= Settings.maxDischarge /\ power + RampDelta \in Int
      BY <1>4, ControllerConstants
<1>6. QED BY <1>5, WithinLimits DEF Requested, BatteryRange

LEMMA EvaluationIsGood ==
    ASSUME soc \in Int, power \in Int, grid \in Int, lastSetpoint \in BatteryRange,
           NEW m, GoodMode(m)
    PROVE  GoodDecision(Evaluation(m))
<1>1. Requested \in BatteryRange
      BY RequestedIsInRange
<1> DEFINE asked == Requested
           w == Limited(m)
<1>2. w = IF (asked > 0 /\ (Exporting \/ AtFloor(m))) \/ (asked < 0 /\ AtCeiling(m)) THEN 0 ELSE asked
      BY DEF Limited
<1>3. asked \in BatteryRange
      BY <1>1
<1> HIDE DEF asked, w
<1>4. w \in BatteryRange
      BY <1>2, <1>3, ControllerConstants DEF BatteryRange
<1>5. grid <= Settings.gridTarget => w <= 0
      BY <1>2, <1>3, ControllerConstants DEF Exporting, BatteryRange
<1>6. soc # Unknown /\ soc >= m.ceiling => w >= 0
      BY <1>2, <1>3, ControllerConstants DEF AtCeiling, AtFloor, GoodMode, BatteryRange
<1> DEFINE given == Suppressed(w)
<1>7. given = IF Magnitude(w - lastSetpoint) <= Settings.jitter THEN lastSetpoint ELSE w
      BY DEF Suppressed
<1> HIDE DEF given
<1>8. given \in BatteryRange
      BY <1>4, <1>7
<1>9. w <= 0 => given <= Settings.jitter
      BY <1>4, <1>7, ControllerConstants DEF Magnitude, BatteryRange
<1>10. w >= 0 => -given <= Settings.jitter
      BY <1>4, <1>7, ControllerConstants DEF Magnitude, BatteryRange
<1>11. Evaluation(m) = [made |-> TRUE, setpoint |-> given,
              allowed |-> ~AtFloor(m) /\ ~(Exporting /\ Requested > 0), soc |-> soc, grid |-> grid, mode |-> m]
      BY DEF Evaluation, given, w
<1>12. soc # Unknown /\ soc <= m.floor => AtFloor(m)
      BY DEF AtFloor
<1> DEFINE d == Evaluation(m)
<1> DEFINE free == ~AtFloor(m) /\ ~(Exporting /\ Requested > 0)
<1>12a. AtFloor(m) => ~free
       OBVIOUS
<1> HIDE DEF free
<1>13. /\ d.setpoint = given /\ d.soc = soc /\ d.grid = grid /\ d.mode = m
       /\ d.allowed = free
       BY <1>11 DEF free
<1> HIDE DEF d
<1>14. w \in Int
       BY <1>4 DEF BatteryRange
<1>15. d.grid <= Settings.gridTarget => d.setpoint <= Settings.jitter
       BY <1>5, <1>9, <1>13
<1>16. d.soc # Unknown /\ d.soc >= d.mode.ceiling => -d.setpoint <= Settings.jitter
       BY <1>6, <1>10, <1>13
<1>17. d.soc # Unknown /\ d.soc <= d.mode.floor => ~d.allowed
       BY <1>12, <1>12a, <1>13
<1>18. GoodDecision(d)
       BY <1>8, <1>13, <1>15, <1>16, <1>17 DEF GoodDecision
<1>19. QED BY <1>18 DEF d

LEMMA ControllerInvInit == ControllerInit => ControllerInv
BY ControllerConstants
   DEF ControllerInit, ControllerInv, ModesInv, GoodDecision, NoDecision, Unknown, BatteryRange

\* The decision and its application.
LEMMA DecisionKeeps ==
    ASSUME ControllerInv, Evaluate \/ Drop \/ Apply \/ Applied
    PROVE  ControllerInv'
<1>1. CASE Evaluate
  <2>1. GoodMode(ActiveMode)
        BY ActiveModeIsGood DEF ControllerInv
  <2>2. GoodDecision(Evaluation(ActiveMode))
        BY <2>1, EvaluationIsGood DEF ControllerInv
  <2>3. GoodDecision(decision)'
        BY <1>1, <2>2 DEF Evaluate, GoodDecision, BatteryRange
  <2>4. ModesInv'
        BY <1>1, <2>1 DEF Evaluate, ModesInv, GoodMode, ControllerInv
  <2>5. QED BY <1>1, <2>3, <2>4
            DEF Evaluate, ControllerInv, applied, telemetry, GoodDecision, BatteryRange, Commands
<1>2. CASE Drop
      BY <1>2 DEF Drop, ControllerInv, ModesInv, GoodMode, GoodDecision, NoDecision, BatteryRange,
                  modes, telemetry, applied, Commands
<1>3. CASE Apply
      BY <1>3 DEF Apply, ControllerInv, ModesInv, GoodMode, GoodDecision, NoDecision, BatteryRange,
                  modes, telemetry, Commands
<1>4. CASE Applied
      BY <1>4 DEF Applied, ControllerInv, ModesInv, GoodMode, GoodDecision, NoDecision, BatteryRange,
                  modes, telemetry
<1>5. QED BY <1>1, <1>2, <1>3, <1>4

LEMMA AdoptionKeeps ==
    ASSUME ControllerInv, NEW m, GoodMode(m), Adopt(m)
    PROVE  ControllerInv'
<1>1. ModesInv'
      BY DEF Adopt, ModesInv, GoodMode, ControllerInv
<1>2. QED BY <1>1 DEF Adopt, ControllerInv, GoodDecision, BatteryRange, telemetry, applied, Commands

\* Telemetry, modes and the clock.
LEMMA SurroundingsKeep ==
    ASSUME ControllerInv, BatteryState \/ GridReading \/ Override \/ RecalculateDaily \/ Elapse
    PROVE  ControllerInv'
<1>1. CASE BatteryState
      BY <1>1, ControllerConstants DEF BatteryState, ControllerInv, ModesInv, GoodMode, GoodDecision,
                  BatteryRange, modes, applied, Commands
<1>2. CASE GridReading
      BY <1>2, ControllerConstants DEF GridReading, ControllerInv, ModesInv, GoodMode, GoodDecision,
                  BatteryRange, modes, applied, Commands
<1>3. CASE Override
  <2> PICK o \in Overrides :
        /\ Max({0, o.floor}) < Min({100, o.ceiling})
        /\ Adopt([name |-> "MANUAL_OVERRIDE", floor |-> Max({0, o.floor}), ceiling |-> Min({100, o.ceiling}),
                  until |-> now + Min({Day, o.lasts})])
      BY <1>3 DEF Override
  <2> DEFINE m == [name |-> "MANUAL_OVERRIDE", floor |-> Max({0, o.floor}), ceiling |-> Min({100, o.ceiling}),
                   until |-> now + Min({Day, o.lasts})]
  <2>1. o.floor \in Int /\ o.ceiling \in Int
        BY ControllerConstants
  <2>2. Max({0, o.floor}) \in Nat /\ Min({100, o.ceiling}) \in Int /\ Min({100, o.ceiling}) <= 100
    <3>1. 0 \in Int /\ 100 \in Int
          OBVIOUS
    <3>2. QED BY <2>1, <3>1, MaxOfTwo, MinOfTwo
  <2>3. GoodMode(m)
        BY <2>2 DEF GoodMode
  <2>4. Adopt(m)
        OBVIOUS
  <2> HIDE DEF m
  <2>5. QED BY <2>3, <2>4, AdoptionKeeps
<1>4. CASE RecalculateDaily
      BY <1>4, AdoptionKeeps, DailyIsGood DEF RecalculateDaily
<1>5. CASE Elapse
      BY <1>5 DEF Elapse, ControllerInv, ModesInv, GoodMode, GoodDecision, BatteryRange,
                  modes, telemetry, applied, Commands
<1>6. QED BY <1>1, <1>2, <1>3, <1>4, <1>5

LEMMA ControllerInvStep == ControllerInv /\ [ControllerNext]_controllerVars => ControllerInv'
<1> SUFFICES ASSUME ControllerInv, [ControllerNext]_controllerVars PROVE ControllerInv'
    OBVIOUS
<1>1. CASE ControllerNext
      BY <1>1, DecisionKeeps, SurroundingsKeep DEF ControllerNext
<1>2. CASE UNCHANGED controllerVars
      BY <1>2 DEF controllerVars, ControllerInv, ModesInv, GoodMode, GoodDecision, BatteryRange,
                  modes, telemetry, applied, Commands
<1>3. QED BY <1>1, <1>2

\* What is commanded obeys the limits its decision was made under, the
\* battery's own limits among them (charge_controller.py:177).
THEOREM CommandsStayInLimits == ControllerSpec => []CommandsObeyTheLimits
<1>1. ControllerInv => CommandsObeyTheLimits
  <2> SUFFICES ASSUME ControllerInv, waiting.made PROVE CommandsObeyTheLimits
      BY DEF CommandsObeyTheLimits
  <2>1. command = Commands(waiting) /\ GoodDecision(waiting)
        BY DEF ControllerInv
  <2>2. /\ command.charge = IF waiting.setpoint < 0 THEN -waiting.setpoint ELSE 0
        /\ command.discharge = IF waiting.allowed /\ waiting.setpoint > 0 THEN waiting.setpoint ELSE 0
        BY <2>1 DEF Commands
  <2>3. QED BY <2>1, <2>2, ControllerConstants DEF CommandsObeyTheLimits, GoodDecision, BatteryRange
<1>2. QED BY ControllerInvInit, ControllerInvStep, <1>1, PTL DEF ControllerSpec

(***************************************************************************)
(* The MQTT client.                                                        *)
(*                                                                         *)
(* The invariant says where a topic that is written down is while the      *)
(* session is open: with the broker, in the service's thread, which is     *)
(* about to request it, or in what the callback has still to request. The  *)
(* service's thread requests one topic at a time.                          *)
(***************************************************************************)
SubscriptionInv ==
    /\ \A a, b \in requesting : a = b
    /\ network = "running" /\ session = "open" =>
         registered \subseteq subscribed \cup requesting \cup resubscribing

LEMMA SubscriptionInvInit == MqttInit => SubscriptionInv
BY DEF MqttInit, SubscriptionInv

\* The service's thread, and the start of the network thread.
LEMMA ServiceKeeps ==
    ASSUME SubscriptionInv, MqttStart \/ Register \/ Request
    PROVE  SubscriptionInv'
<1> USE DEF SubscriptionInv
<1>1. CASE MqttStart
      BY <1>1 DEF MqttStart
<1>2. CASE Register
      BY <1>2 DEF Register
<1>3. CASE Request
      BY <1>3 DEF Request, HasSocket
<1>4. QED BY <1>1, <1>2, <1>3

\* The network thread: an accepted connection asks for everything again.
LEMMA ConnectionKeeps ==
    ASSUME SubscriptionInv, Open \/ Accepted \/ Refused \/ Resubscribe \/ SessionLost
    PROVE  SubscriptionInv'
<1> USE DEF SubscriptionInv
<1>1. CASE Open
      BY <1>1 DEF Open
<1>2. CASE Accepted
      BY <1>2 DEF Accepted, Answered
<1>3. CASE Refused
      BY <1>3 DEF Refused, Answered
<1>4. CASE Resubscribe
      BY <1>4 DEF Resubscribe, HasSocket
<1>5. CASE SessionLost
      BY <1>5 DEF SessionLost
<1>6. QED BY <1>1, <1>2, <1>3, <1>4, <1>5

\* The end of the network thread.
LEMMA DeathKeeps ==
    ASSUME SubscriptionInv, HandlerRaises \/ BrokerForgets
    PROVE  SubscriptionInv'
<1> USE DEF SubscriptionInv
<1>1. CASE HandlerRaises
      BY <1>1 DEF HandlerRaises
<1>2. CASE BrokerForgets
      BY <1>2 DEF BrokerForgets
<1>3. QED BY <1>1, <1>2

\* No subscription is lost, on whichever side of a connection it was made
\* (shared/mqtt_client.py:168).
THEOREM SubscriptionsHold == MqttSpec => []RegisteredIsSubscribed
<1>1. SubscriptionInv /\ [MqttNext]_mqttVars => SubscriptionInv'
  <2> SUFFICES ASSUME SubscriptionInv, [MqttNext]_mqttVars PROVE SubscriptionInv'
      OBVIOUS
  <2>1. CASE MqttNext
        BY <2>1, ServiceKeeps, ConnectionKeeps, DeathKeeps DEF MqttNext
  <2>2. CASE UNCHANGED mqttVars
        BY <2>2 DEF mqttVars, SubscriptionInv
  <2>3. QED BY <2>1, <2>2
<1>2. SubscriptionInv => RegisteredIsSubscribed
      BY DEF SubscriptionInv, RegisteredIsSubscribed
<1>3. QED BY SubscriptionInvInit, <1>1, <1>2, PTL DEF MqttSpec

(***************************************************************************)
(* The heartbeat of the bridge.  While it is connected its age is what     *)
(* the loop has spent since the read or the wait began, and during a read  *)
(* the wait before it as well.                                             *)
(***************************************************************************)
ReportTypes ==
    /\ instant \in Nat /\ spent \in Nat /\ promised \in Nat
    /\ linked \in BOOLEAN /\ looping \in {"reading", "waiting", "stopped"}
    /\ heard \in Nat /\ storedInterval \in Nat
    /\ told = [bridge |-> told.bridge, lastSeen |-> told.lastSeen, inverter |-> told.inverter,
               watts |-> told.watts, mode |-> told.mode]

HeartbeatInv ==
    /\ looping = "reading" => spent <= ReadTime
    /\ looping = "waiting" => spent <= promised
    /\ linked /\ looping # "stopped" =>
         /\ told.bridge = "online"
         /\ told.lastSeen \in 0..instant
         /\ LastSeenAge <= spent + (IF looping = "reading" THEN promised ELSE 0)
    /\ ~linked /\ looping # "stopped" => told.bridge = "offline"

ReportInv == ReportTypes /\ HeartbeatInv

LEMMA ReportInvInit == ReportInit => ReportInv
<1> SUFFICES ASSUME ReportInit PROVE ReportInv
    OBVIOUS
<1>1. Intervals \subseteq Nat /\ ReadTime \in Nat
      BY ReportConstants
<1>2. told = [bridge |-> told.bridge, lastSeen |-> told.lastSeen, inverter |-> told.inverter,
              watts |-> told.watts, mode |-> told.mode]
      BY DEF ReportInit
<1>3. told.bridge = "offline"
      BY DEF ReportInit
<1>4. ReportTypes
  <2>1. linked \in BOOLEAN
        BY DEF ReportInit
  <2>2. instant \in Nat /\ spent \in Nat /\ promised \in Nat /\ heard \in Nat /\ storedInterval \in Nat
        BY <1>1 DEF ReportInit, NeverHeard
  <2>3. looping \in {"reading", "waiting", "stopped"}
        BY DEF ReportInit
  <2>4. QED BY <1>2, <2>1, <2>2, <2>3 DEF ReportTypes
<1>5. QED BY <1>1, <1>3, <1>4 DEF ReportInit, ReportInv, HeartbeatInv

\* What a report changes of the topics.
LEMMA ReportedTopics ==
    ASSUME ReportTypes, NEW state
    PROVE  /\ Reported(told, state).bridge = "online" /\ Reported(told, state).lastSeen = instant
           /\ Reported(told, state) = [bridge |-> "online", lastSeen |-> instant,
                inverter |-> Reported(told, state).inverter, watts |-> Reported(told, state).watts,
                mode |-> Reported(told, state).mode]
           /\ WithValues(told, state) = [bridge |-> told.bridge, lastSeen |-> told.lastSeen,
                inverter |-> told.inverter, watts |-> WithValues(told, state).watts,
                mode |-> WithValues(told, state).mode]
<1> DEFINE t == told
           w == WithValues(t, state)
<1>1. t = [bridge |-> t.bridge, lastSeen |-> t.lastSeen, inverter |-> t.inverter, watts |-> t.watts, mode |-> t.mode]
      BY DEF ReportTypes
<1>2. w = IF state = NoAnswer THEN t ELSE [t EXCEPT !.watts = state.watts, !.mode = state.mode]
      BY DEF WithValues
<1> HIDE DEF t, w
<1>3. w = [bridge |-> t.bridge, lastSeen |-> t.lastSeen, inverter |-> t.inverter, watts |-> w.watts, mode |-> w.mode]
      BY <1>1, <1>2
<1>4. Reported(t, state) = [[w EXCEPT !.inverter = StatusForState(Telemetry(state))]
                              EXCEPT !.bridge = "online", !.lastSeen = instant]
      BY DEF Reported, Alive, t, w
<1>5. QED BY <1>3, <1>4 DEF t, w

LEMMA PollsKeep ==
    ASSUME ReportInv, PollOnce \/ PollAgain \/ ScheduleImmediatePoll \/ ImmediatePoll
    PROVE  ReportInv'
<1>0. /\ Configured \in Nat /\ ReadTime \in Nat
      BY ReportConstants
<1>1. CASE PollOnce
  <2> PICK state \in ReadOptional, interval \in LoadPollInterval :
        /\ looping = "reading"
        /\ Publish(Reported(told, state))
        /\ looping' = "waiting" /\ spent' = 0 /\ promised' = interval
        /\ UNCHANGED <<instant, linked, extra, heard, storedInterval>>
      BY <1>1 DEF PollOnce
  <2>1. interval \in Nat
        BY <1>0 DEF LoadPollInterval, ReportInv, ReportTypes
  <2>2. CASE linked
        BY <2>1, <2>2, ReportedTopics DEF Publish, ReportInv, ReportTypes, HeartbeatInv, LastSeenAge
  <2>3. CASE ~linked
        BY <2>1, <2>3 DEF Publish, ReportInv, ReportTypes, HeartbeatInv
  <2>4. QED BY <2>2, <2>3
<1>2. CASE PollAgain
      BY <1>0, <1>2 DEF PollAgain, ReportInv, ReportTypes, HeartbeatInv, LastSeenAge
<1>3. CASE ScheduleImmediatePoll
      BY <1>3 DEF ScheduleImmediatePoll, ReportInv, ReportTypes, HeartbeatInv, LastSeenAge
<1>4. CASE ImmediatePoll
  <2> PICK state \in ReadOptional :
        /\ Publish(Reported(told, state))
        /\ UNCHANGED <<instant, linked, looping, spent, promised, heard, storedInterval>>
      BY <1>4 DEF ImmediatePoll
  <2>1. CASE linked
        BY <2>1, ReportedTopics DEF Publish, ReportInv, ReportTypes, HeartbeatInv, LastSeenAge
  <2>2. CASE ~linked
        BY <2>2 DEF Publish, ReportInv, ReportTypes, HeartbeatInv, LastSeenAge
  <2>3. QED BY <2>1, <2>2
<1>5. QED BY <1>1, <1>2, <1>3, <1>4

LEMMA ConnectionsKeep ==
    ASSUME ReportInv, OnConnect \/ OnDisconnect \/ CommandAccepted
    PROVE  ReportInv'
<1>1. CASE OnConnect
  <2> DEFINE t == told
  <2>1. t = [bridge |-> t.bridge, lastSeen |-> t.lastSeen, inverter |-> t.inverter, watts |-> t.watts, mode |-> t.mode]
        BY DEF ReportInv, ReportTypes
  <2>2. told' = [t EXCEPT !.bridge = "online", !.lastSeen = instant]
        BY <1>1 DEF OnConnect, Alive
  <2> HIDE DEF t
  <2>3. told' = [bridge |-> "online", lastSeen |-> instant, inverter |-> t.inverter, watts |-> t.watts, mode |-> t.mode]
        BY <2>1, <2>2
  <2>4. QED BY <1>1, <2>3 DEF OnConnect, ReportInv, ReportTypes, HeartbeatInv, LastSeenAge
<1>2. CASE OnDisconnect
      BY <1>2 DEF OnDisconnect, ReportInv, ReportTypes, HeartbeatInv, LastSeenAge
<1>3. CASE CommandAccepted
  <2> PICK state \in Commanded :
        /\ looping # "stopped"
        /\ Publish(WithValues(told, state))
        /\ UNCHANGED <<instant, linked, looping, spent, promised, extra, heard, storedInterval>>
      BY <1>3 DEF CommandAccepted
  <2>1. CASE linked
    <3>1. told' = WithValues(told, state)
          BY <2>1 DEF Publish
    <3>2. told'.bridge = told.bridge /\ told'.lastSeen = told.lastSeen /\ ReportTypes'
          BY <3>1, ReportedTopics DEF ReportInv, ReportTypes
    <3>3. QED BY <3>2 DEF ReportInv, HeartbeatInv, LastSeenAge
  <2>2. CASE ~linked
        BY <2>2 DEF Publish, ReportInv, ReportTypes, HeartbeatInv, LastSeenAge
  <2>3. QED BY <2>1, <2>2
<1>4. QED BY <1>1, <1>2, <1>3

LEMMA ClockAndSettingsKeep ==
    ASSUME ReportInv, HandlePollInterval \/ PublishBatteryMqttSettings \/ RunEnds \/ InstantPasses
    PROVE  ReportInv'
<1>1. CASE HandlePollInterval
      BY <1>1, ReportConstants DEF HandlePollInterval, ReportInv, ReportTypes, HeartbeatInv, LastSeenAge
<1>2. CASE PublishBatteryMqttSettings
      BY <1>2, ReportConstants DEF PublishBatteryMqttSettings, ReportInv, ReportTypes, HeartbeatInv, LastSeenAge
<1>3. CASE RunEnds
      BY <1>3 DEF RunEnds, Publish, ReportInv, ReportTypes, HeartbeatInv
<1>4. CASE InstantPasses
      BY <1>4, ReportConstants DEF InstantPasses, ReportInv, ReportTypes, HeartbeatInv, LastSeenAge
<1>5. QED BY <1>1, <1>2, <1>3, <1>4

\* A bridge that is connected and waits no longer than a listener allows
\* looks alive to that listener at any moment (goodwe_bridge.py:363, :691,
\* :763), for every interval, read time and limit.
THEOREM HeartbeatsStayFresh == ReportSpec => []HeartbeatsKeepUp
<1>1. ReportInv /\ [ReportNext]_reportVars => ReportInv'
  <2> SUFFICES ASSUME ReportInv, [ReportNext]_reportVars PROVE ReportInv'
      OBVIOUS
  <2>1. CASE ReportNext
        BY <2>1, PollsKeep, ConnectionsKeep, ClockAndSettingsKeep DEF ReportNext
  <2>2. CASE UNCHANGED reportVars
        BY <2>2 DEF reportVars, ReportInv, ReportTypes, HeartbeatInv, LastSeenAge
  <2>3. QED BY <2>1, <2>2
<1>2. ReportInv => HeartbeatsKeepUp
  <2> SUFFICES ASSUME ReportInv PROVE HeartbeatsKeepUp
      OBVIOUS
  <2>1. DerivedBridgeStale \in Nat
        BY ReportConstants DEF DerivedBridgeStale, ReportInv, ReportTypes
  <2>2. FixedLimits \subseteq Nat /\ ReadTime \in Nat
        BY ReportConstants
  <2>3. QED BY <2>1, <2>2 DEF HeartbeatsKeepUp, LooksAlive, LastSeenAge, ReportInv, ReportTypes, HeartbeatInv
<1>3. QED BY ReportInvInit, <1>1, <1>2, PTL DEF ReportSpec

(***************************************************************************)
(* The token of the solar gateway.                                         *)
(*                                                                         *)
(* TokenIsUsed alone is not kept by the replacement: it takes whatever the *)
(* temporary file has. TokenInv adds what a run has brought about by each  *)
(* of its steps: a token newer than the file's is issued, then written     *)
(* whole, then in place.                                                   *)
(***************************************************************************)
TokenTypes ==
    /\ issued \in Nat
    /\ renewal \in {Resting, "login", "fetch", "write", "replace"}
    /\ beside \in {Torn} \cup NoToken..issued
    /\ carried \in {Down} \cup 1..issued

RunsInv ==
    /\ renewal = "fetch" => token < issued
    /\ renewal = "write" => beside \in 1..issued /\ token < beside
    /\ renewal = "replace" => 1 <= token

TokenInv == TokenTypes /\ RunsInv /\ TokenIsUsed

LEMMA TokenInvInit == TokenInit => TokenInv
BY DEF TokenInit, TokenInv, TokenTypes, RunsInv, TokenIsUsed, Resting, NoToken, Down

\* The steps of a run.
LEMMA RunKeeps ==
    ASSUME TokenInv,
           LoginEntrez \/ FetchToken \/ WriteBeside \/ Replace \/ RestartService
    PROVE  TokenInv'
<1> USE DEF TokenInv, TokenTypes, RunsInv, TokenIsUsed, Resting, NoToken, Torn, Down
<1>1. CASE LoginEntrez
      BY <1>1 DEF LoginEntrez
<1>2. CASE FetchToken
      BY <1>2 DEF FetchToken
<1>3. CASE WriteBeside
      BY <1>3 DEF WriteBeside
<1>4. CASE Replace
      BY <1>4 DEF Replace
<1>5. CASE RestartService
      BY <1>5 DEF RestartService
<1>6. QED BY <1>1, <1>2, <1>3, <1>4, <1>5

\* Wherever a run ends, what it had done stays.
LEMMA EndOfRunKeeps ==
    ASSUME TokenInv, RunFails \/ CutShort
    PROVE  TokenInv'
<1> USE DEF TokenInv, TokenTypes, RunsInv, TokenIsUsed, Resting, NoToken, Torn, Down
<1>1. CASE RunFails
      BY <1>1 DEF RunFails
<1>2. CASE CutShort
      BY <1>2 DEF CutShort
<1>3. QED BY <1>1, <1>2

\* The bridge and the gateway.
LEMMA BridgeKeeps ==
    ASSUME TokenInv, ReadEnphaseToken \/ BridgeEnds \/ GetJson \/ TokenExpires
    PROVE  TokenInv'
<1> USE DEF TokenInv, TokenTypes, RunsInv, TokenIsUsed, Resting, NoToken, Torn, Down
<1>1. CASE ReadEnphaseToken
      BY <1>1 DEF ReadEnphaseToken
<1>2. CASE BridgeEnds
      BY <1>2 DEF BridgeEnds
<1>3. CASE GetJson
      BY <1>3 DEF GetJson
<1>4. CASE TokenExpires
      BY <1>4 DEF TokenExpires
<1>5. QED BY <1>1, <1>2, <1>3, <1>4

\* The token file has a whole token or none, and the bridge has the file's
\* unless a run is about to restart it or did not come to it
\* (enphase_token_refresh.py:184).
THEOREM NewestTokenIsUsed == TokenSpec => []TokenIsUsed
<1>1. TokenInv /\ [TokenNext]_tokenVars => TokenInv'
  <2> SUFFICES ASSUME TokenInv, [TokenNext]_tokenVars PROVE TokenInv'
      OBVIOUS
  <2>1. CASE TokenNext
        BY <2>1, RunKeeps, EndOfRunKeeps, BridgeKeeps DEF TokenNext
  <2>2. CASE UNCHANGED tokenVars
        BY <2>2 DEF tokenVars, TokenInv, TokenTypes, RunsInv, TokenIsUsed
  <2>3. QED BY <2>1, <2>2
<1>2. TokenInv => TokenIsUsed
      BY DEF TokenInv
<1>3. QED BY TokenInvInit, <1>1, <1>2, PTL DEF TokenSpec

(***************************************************************************)
(* The log of the setpoints.                                               *)
(***************************************************************************)
LogTypes ==
    /\ minute \in Nat /\ offset \in Nat /\ until \in Int
    /\ opened \in [Sources -> [at : Int, setpoint : Int]]
    /\ \A s \in Sources : opened[s] # NotOpen => opened[s].at \in 0..minute
    /\ noted \in [Sources -> Int] /\ broken \in [Sources -> BOOLEAN]

\* Rows have the ids one after the other.
RowsInv ==
    /\ IsFiniteSet(logged)
    /\ \A r \in logged : r.id \in 1..Cardinality(logged) /\ r.at \in 0..minute
    /\ \A r, q \in logged : r.id = q.id => r = q
    /\ owed \subseteq 1..Cardinality(logged)

\* What a source set in its newest row.
RowsOf(s) == {r \in logged : r.source = s}
SetLast(s) ==
    IF RowsOf(s) = {} THEN 0 ELSE (CHOOSE p \in RowsOf(s) : \A q \in RowsOf(s) : q.id <= p.id).setpoint

NotedInv == \A s \in Sources : ~broken[s] => noted[s] = SetLast(s)

PagesWhole == \A r \in logged : r.id \in owed => Behind(r) >= offset
WindowsWhole == \A r \in logged : r.at < until => r.id \in caught \/ r.late
DifferencesWhole == \A r \in logged : ~r.broken => r.setpoint - r.delta = SetBefore(r)

LogInv == LogTypes /\ RowsInv /\ NotedInv /\ PagesWhole /\ WindowsWhole /\ DifferencesWhole

LEMMA LoggedSetpointIs ==
    ASSUME NEW source \in Sources, NEW setpoint \in Decided(source)
    PROVE  setpoint \in Int
<1>1. CASE source = "strategy_v2"
      BY <1>1, LogConstants DEF Decided
<1>2. CASE source # "strategy_v2"
  <2>1. PICK t \in LogTargets, c \in {"IDLE", "CHARGING", "DISCHARGING"} : setpoint = LoggedSetpoint(t, c)
        BY <1>2 DEF Decided
  <2>2. t[1] \in Int /\ t[2] \in Int
        BY LogConstants
  <2>3. -t[2] \in Int /\ 0 \in Int
        BY <2>2
  <2>4. QED BY <2>1, <2>2, <2>3 DEF LoggedSetpoint
<1>3. QED BY <1>1, <1>2

LEMMA LogInvInit == LogInit => LogInv
<1> SUFFICES ASSUME LogInit PROVE LogInv
    OBVIOUS
<1>1. IsFiniteSet({}) /\ Cardinality({}) = 0
      BY FS_EmptySet
<1>2. LogTypes
      BY DEF LogInit, LogTypes, NotOpen, Sources
<1>3. QED BY <1>1, <1>2 DEF LogInit, LogInv, RowsInv, NotedInv, SetLast, RowsOf, PagesWhole, WindowsWhole, DifferencesWhole

\* Nothing but the insertion of a row and the reading changes what the
\* parts of the invariant on the rows say.
LEMMA LogFrame ==
    ASSUME LogInv, UNCHANGED logged, UNCHANGED <<offset, owed, until, caught>>,
           minute' \in Nat, minute' >= minute, LogTypes', NotedInv'
    PROVE  LogInv'
<1>1. RowsInv'
      BY DEF LogInv, RowsInv, LogTypes
<1>2. PagesWhole'
      BY DEF LogInv, PagesWhole, Behind, Before
<1>3. WindowsWhole'
      BY DEF LogInv, WindowsWhole
<1>4. DifferencesWhole'
      BY DEF LogInv, DifferencesWhole, SetBefore, Earlier
<1>5. QED BY <1>1, <1>2, <1>3, <1>4 DEF LogInv

LEMMA TransactionsKeepLog ==
    ASSUME LogInv, OpenTransaction \/ InsertFails \/ WriterRestarts
    PROVE  LogInv'
<1>0. LogTypes /\ NotedInv /\ minute \in Nat /\ UNCHANGED <<logged, minute, offset, owed, until, caught>>
      BY DEF LogInv, LogTypes, OpenTransaction, InsertFails, WriterRestarts, readerVars
<1>1. \A s \in Sources : SetLast(s)' = SetLast(s)
      BY <1>0 DEF SetLast, RowsOf
<1>2. CASE OpenTransaction
  <2>1. PICK source \in Sources : \E setpoint \in Decided(source) :
          /\ opened' = [opened EXCEPT ![source] = [at |-> minute, setpoint |-> setpoint]]
          /\ UNCHANGED <<noted, broken>>
        BY <1>2 DEF OpenTransaction
  <2>2. PICK setpoint \in Decided(source) :
          opened' = [opened EXCEPT ![source] = [at |-> minute, setpoint |-> setpoint]]
        BY <2>1
  <2>3. setpoint \in Int
        BY LoggedSetpointIs
  <2>4. opened' \in [Sources -> [at : Int, setpoint : Int]]
        BY <1>0, <2>2, <2>3 DEF LogTypes
  <2>5. \A s \in Sources : opened'[s] # NotOpen => opened'[s].at \in 0..minute
        BY <1>0, <2>2 DEF LogTypes
  <2>6. LogTypes' /\ NotedInv'
        BY <1>0, <1>1, <2>1, <2>4, <2>5 DEF LogTypes, NotedInv
  <2>7. QED BY <1>0, <2>6, LogFrame
<1>3. CASE InsertFails
  <2>1. PICK source \in Sources :
          /\ opened' = [opened EXCEPT ![source] = NotOpen]
          /\ \/ /\ noted' = [noted EXCEPT ![source] = opened[source].setpoint]
                /\ broken' = [broken EXCEPT ![source] = TRUE]
             \/ UNCHANGED <<noted, broken>>
        BY <1>3 DEF InsertFails
  <2>2. NotOpen \in [at : Int, setpoint : Int]
        BY DEF NotOpen
  <2>3. opened' \in [Sources -> [at : Int, setpoint : Int]]
        BY <1>0, <2>1, <2>2 DEF LogTypes
  <2>4. \A s \in Sources : opened'[s] # NotOpen => opened'[s].at \in 0..minute
        BY <1>0, <2>1 DEF LogTypes
  <2>5. noted' \in [Sources -> Int]
        BY <1>0, <2>1 DEF LogTypes
  <2>6. broken' \in [Sources -> BOOLEAN]
        BY <1>0, <2>1 DEF LogTypes
  <2>7. \A s \in Sources : ~broken'[s] => ~broken[s] /\ noted'[s] = noted[s]
        BY <1>0, <2>1 DEF LogTypes
  <2>8. LogTypes' /\ NotedInv'
        BY <1>0, <1>1, <2>3, <2>4, <2>5, <2>6, <2>7 DEF LogTypes, NotedInv
  <2>9. QED BY <1>0, <2>8, LogFrame
<1>4. CASE WriterRestarts
  <2>1. PICK source \in Sources :
          /\ noted' = [noted EXCEPT ![source] = 0]
          /\ broken' = [broken EXCEPT ![source] = TRUE]
          /\ UNCHANGED opened
        BY <1>4 DEF WriterRestarts
  <2>5. noted' \in [Sources -> Int]
        BY <1>0, <2>1 DEF LogTypes
  <2>6. broken' \in [Sources -> BOOLEAN]
        BY <1>0, <2>1 DEF LogTypes
  <2>7. \A s \in Sources : ~broken'[s] => ~broken[s] /\ noted'[s] = noted[s]
        BY <1>0, <2>1 DEF LogTypes
  <2>8. LogTypes' /\ NotedInv'
        BY <1>0, <1>1, <2>1, <2>5, <2>6, <2>7 DEF LogTypes, NotedInv
  <2>9. QED BY <1>0, <2>8, LogFrame
<1>5. QED BY <1>2, <1>3, <1>4

\* A row appears.
LEMMA InsertionKeepsLog ==
    ASSUME LogInv, InsertSetpointLog
    PROVE  LogInv'
<1>1. PICK source \in Sources :
        /\ opened[source] # NotOpen
        /\ logged' = logged \cup {Row(source)}
        /\ opened' = [opened EXCEPT ![source] = NotOpen]
        /\ noted' = [noted EXCEPT ![source] = opened[source].setpoint]
        /\ broken' = [broken EXCEPT ![source] = FALSE]
        /\ UNCHANGED <<minute, readerVars>>
      BY DEF InsertSetpointLog
<1> DEFINE row == Row(source)
           n == Cardinality(logged)
<1>0. LogTypes /\ RowsInv /\ NotedInv /\ PagesWhole /\ WindowsWhole /\ DifferencesWhole
      BY DEF LogInv
<1>u. UNCHANGED <<minute, offset, owed, until, caught>>
      BY <1>1 DEF readerVars
<1>2. /\ row.id = n + 1 /\ row.at = opened[source].at /\ row.source = source
      /\ row.setpoint = opened[source].setpoint /\ row.delta = opened[source].setpoint - noted[source]
      /\ row.broken = broken[source] /\ row.late = (opened[source].at < until)
      BY DEF Row
<1>3. n \in Nat /\ IsFiniteSet(logged)
      BY <1>0, FS_CardinalityType DEF RowsInv
<1>4. row \notin logged /\ \A r \in logged : r.id \in Nat /\ r.id < row.id
      BY <1>0, <1>2, <1>3 DEF RowsInv
<1>5. IsFiniteSet(logged') /\ Cardinality(logged') = n + 1
      BY <1>1, <1>3, <1>4, FS_AddElement
<1> HIDE DEF row, n
<1>6. LogTypes'
  <2>1. NotOpen \in [at : Int, setpoint : Int] /\ opened[source] \in [at : Int, setpoint : Int]
        BY <1>0 DEF NotOpen, LogTypes
  <2>2. opened' \in [Sources -> [at : Int, setpoint : Int]]
        BY <1>0, <1>1, <2>1 DEF LogTypes
  <2>3. \A s \in Sources : opened'[s] # NotOpen => opened'[s].at \in 0..minute
        BY <1>0, <1>1 DEF LogTypes
  <2>4. noted' \in [Sources -> Int]
        BY <1>0, <1>1, <2>1 DEF LogTypes
  <2>5. broken' \in [Sources -> BOOLEAN]
        BY <1>0, <1>1 DEF LogTypes
  <2>6. QED BY <1>0, <1>u, <2>2, <2>3, <2>4, <2>5 DEF LogTypes
<1>7. RowsInv'
  <2>1. row.at \in 0..minute
        BY <1>0, <1>1, <1>2 DEF LogTypes
  <2>2. \A r \in logged' : r \in logged \/ r = row
        BY <1>1 DEF row
  <2>3. \A r \in logged' : r.id \in 1..(n + 1) /\ r.at \in 0..minute
        BY <1>0, <1>2, <1>3, <1>4, <2>1, <2>2 DEF RowsInv, n
  <2>4. \A r, q \in logged' : r.id = q.id => r = q
    <3> SUFFICES ASSUME NEW r \in logged', NEW q \in logged', r.id = q.id PROVE r = q
        OBVIOUS
    <3>1. CASE r \in logged /\ q \in logged
          BY <3>1, <1>0 DEF RowsInv
    <3>2. CASE r = row /\ q \in logged
          BY <3>2, <1>3, <1>2, <1>4
    <3>3. CASE r \in logged /\ q = row
          BY <3>3, <1>3, <1>2, <1>4
    <3>4. QED BY <2>2, <3>1, <3>2, <3>3
  <2>5. owed' \subseteq 1..(n + 1)
        BY <1>0, <1>u, <1>3 DEF RowsInv, n
  <2>6. QED BY <1>5, <1>u, <2>3, <2>4, <2>5 DEF RowsInv
<1>8. NotedInv'
  <2> SUFFICES ASSUME NEW s \in Sources, ~broken'[s] PROVE noted'[s] = SetLast(s)'
      BY DEF NotedInv
  <2>1. CASE s = source
    <3>1. row \in RowsOf(s)'
          BY <1>1, <1>2, <2>1 DEF RowsOf, row
    <3>2. \A q \in RowsOf(s)' : q.id <= row.id /\ (row.id <= q.id => q = row)
      <4> SUFFICES ASSUME NEW q \in logged' PROVE q.id <= row.id /\ (row.id <= q.id => q = row)
          BY DEF RowsOf
      <4>1. q \in logged \/ q = row
            BY <1>1 DEF row
      <4>2. row.id \in Nat
            BY <1>2, <1>3
      <4>3. QED BY <4>1, <4>2, <1>4
    <3>3. (CHOOSE p \in RowsOf(s)' : \A q \in RowsOf(s)' : q.id <= p.id) = row
          BY <3>1, <3>2
    <3>4. SetLast(s)' = row.setpoint
          BY <3>1, <3>3 DEF SetLast
    <3>5. QED BY <1>0, <1>1, <1>2, <2>1, <3>4 DEF LogTypes
  <2>2. CASE s # source
    <3>1. RowsOf(s)' = RowsOf(s)
          BY <1>1, <1>2, <2>2 DEF RowsOf, row
    <3>2. noted'[s] = noted[s] /\ ~broken[s]
          BY <1>0, <1>1, <2>2 DEF LogTypes
    <3>3. QED BY <1>0, <3>1, <3>2 DEF NotedInv, SetLast
  <2>3. QED BY <2>1, <2>2
<1>9. PagesWhole'
  <2> SUFFICES ASSUME NEW r \in logged', r.id \in owed' PROVE Behind(r)' >= offset'
      BY DEF PagesWhole
  <2>1. r \in logged
    <3>1. row.id \notin owed
          BY <1>0, <1>2, <1>3 DEF RowsInv, n
    <3>2. QED BY <1>1, <1>u, <3>1 DEF row
  <2> DEFINE behind == {other \in logged : Before(other, r)}
             behindNow == {other \in logged' : Before(other, r)}
  <2>2. behind \subseteq behindNow /\ behindNow \subseteq logged'
        BY <1>1
  <2>3. IsFiniteSet(behindNow)
        BY <1>5, <2>2, FS_Subset
  <2>4. /\ Cardinality(behind) <= Cardinality(behindNow)
        /\ Cardinality(behind) \in Nat /\ Cardinality(behindNow) \in Nat
        BY <2>2, <2>3, FS_Subset, FS_CardinalityType
  <2>5. Cardinality(behind) >= offset
        BY <1>0, <1>u, <2>1 DEF PagesWhole, Behind
  <2>6. Behind(r)' = Cardinality(behindNow)
        BY DEF Behind, Before
  <2> HIDE DEF behind, behindNow
  <2>7. offset \in Nat
        BY <1>0 DEF LogTypes
  <2>8. QED BY <1>u, <2>4, <2>5, <2>6, <2>7
<1>10. WindowsWhole'
  <2> SUFFICES ASSUME NEW r \in logged', r.at < until' PROVE r.id \in caught' \/ r.late
      BY DEF WindowsWhole
  <2>1. CASE r \in logged
        BY <1>0, <1>u, <2>1 DEF WindowsWhole
  <2>2. CASE r = row
        BY <1>u, <1>2, <2>2
  <2>3. QED BY <1>1, <2>1, <2>2 DEF row
<1>11. DifferencesWhole'
  <2> SUFFICES ASSUME NEW r \in logged', ~r.broken PROVE r.setpoint - r.delta = SetBefore(r)'
      BY DEF DifferencesWhole
  <2>1. CASE r \in logged
    <3>1. Earlier(r)' = Earlier(r)
      <4>1. ~(row.id < r.id)
            BY <1>2, <1>3, <1>4, <2>1
      <4>2. QED BY <1>1, <4>1 DEF Earlier, row
    <3>2. QED BY <1>0, <2>1, <3>1 DEF DifferencesWhole, SetBefore
  <2>2. CASE r = row
    <3>1. Earlier(r)' = RowsOf(source)
      <4>1. ~(row.id < row.id)
            BY <1>2, <1>3
      <4>2. QED BY <1>1, <1>2, <1>4, <2>2, <4>1 DEF Earlier, RowsOf, row
    <3>2. SetBefore(r)' = SetLast(source)
          BY <3>1 DEF SetBefore, SetLast
    <3>3. noted[source] = SetLast(source)
          BY <1>0, <1>2, <2>2 DEF NotedInv
    <3>4. opened[source].setpoint \in Int /\ noted[source] \in Int
          BY <1>0 DEF LogTypes
    <3>5. r.setpoint - r.delta = noted[source]
          BY <1>2, <2>2, <3>4
    <3>6. QED BY <3>2, <3>3, <3>5
  <2>3. QED BY <1>1, <2>1, <2>2 DEF row
<1>12. QED BY <1>6, <1>7, <1>8, <1>9, <1>10, <1>11 DEF LogInv

\* A page shows what it owed from its place on.
LEMMA PageKeepsLog ==
    ASSUME LogInv, ReadPage
    PROVE  LogInv'
<1>0. LogTypes /\ RowsInv /\ NotedInv /\ PagesWhole /\ WindowsWhole /\ DifferencesWhole
      BY DEF LogInv
<1>1. PICK size \in PageSizes :
        /\ ReportingDecisions(size) # {}
        /\ owed' = (IF offset = 0 THEN Idents(logged) ELSE owed) \ Idents(ReportingDecisions(size))
        /\ offset' = offset + size
        /\ UNCHANGED <<minute, logged, opened, noted, broken, until, caught>>
      BY DEF ReadPage
<1>2. size \in Nat /\ offset \in Nat
      BY <1>0, LogConstants DEF LogTypes
<1>3. LogTypes'
      BY <1>0, <1>1, <1>2 DEF LogTypes
<1>4. RowsInv'
      BY <1>0, <1>1 DEF RowsInv, Idents
<1>5. NotedInv'
      BY <1>0, <1>1 DEF NotedInv, SetLast, RowsOf
<1>6. PagesWhole'
  <2> SUFFICES ASSUME NEW r \in logged, r.id \in owed' PROVE Behind(r) >= offset + size
      BY <1>1 DEF PagesWhole, Behind, Before
  <2>1. r \notin Rows(offset, size)
        BY <1>1 DEF ReportingDecisions, Idents
  <2>2. Behind(r) \in Nat
    <3>1. IsFiniteSet({other \in logged : Before(other, r)})
          BY <1>0, FS_Subset DEF RowsInv
    <3>2. QED BY <3>1, FS_CardinalityType DEF Behind
  <2>3. Behind(r) >= offset
        BY <1>0, <1>1, <1>2, <2>2 DEF PagesWhole
  <2>4. ~(Behind(r) \in offset..(offset + size - 1))
        BY <2>1 DEF Rows
  <2>5. QED BY <1>2, <2>2, <2>3, <2>4
<1>7. WindowsWhole'
      BY <1>0, <1>1 DEF WindowsWhole
<1>8. DifferencesWhole'
      BY <1>0, <1>1 DEF DifferencesWhole, SetBefore, Earlier
<1>9. QED BY <1>3, <1>4, <1>5, <1>6, <1>7, <1>8 DEF LogInv

\* What a window leaves out is behind all it shows.
LEMMA LeftOutIsBehind ==
    ASSUME RowsInv, NEW window \in SUBSET logged, NEW r \in window \ Newest1(window, MostRows),
           NEW other \in Newest1(window, MostRows)
    PROVE  Before(other, r)
<1> DEFINE toOther == {x \in window : Before(x, other)}
           toR == {x \in window : Before(x, r)}
<1>1. r \in logged /\ other \in logged /\ r # other
      BY DEF Newest1
<1>2. \A x \in logged : x.id \in Int /\ x.at \in Int
      BY FS_CardinalityType DEF RowsInv
<1>3. r.id # other.id
      BY <1>1 DEF RowsInv
<1>4. IsFiniteSet(window) /\ IsFiniteSet(toOther) /\ IsFiniteSet(toR)
      BY FS_Subset DEF RowsInv
<1>5. /\ Cardinality(toOther) < MostRows /\ ~(Cardinality(toR) < MostRows)
      /\ Cardinality(toOther) \in Nat /\ Cardinality(toR) \in Nat
      BY <1>4, FS_CardinalityType DEF Newest1
<1>6. CASE Before(r, other)
  <2>1. toR \subseteq toOther
    <3> SUFFICES ASSUME NEW x \in window, Before(x, r) PROVE Before(x, other)
        OBVIOUS
    <3>1. x \in logged
          OBVIOUS
    <3>2. QED BY <1>1, <1>2, <1>6, <3>1 DEF Before
  <2>2. Cardinality(toR) <= Cardinality(toOther)
        BY <1>4, <2>1, FS_Subset
  <2> HIDE DEF toR, toOther
  <2>3. QED BY <1>5, <2>2, LogConstants
<1>7. Before(r, other) \/ Before(other, r)
      BY <1>1, <1>2, <1>3 DEF Before
<1>8. QED BY <1>6, <1>7

LEMMA WindowKeepsLog ==
    ASSUME LogInv, ReadLogs
    PROVE  LogInv'
<1> DEFINE window == AgentOperationalLogs(Max({until, 0}))
           listed == Newest1(window, MostRows)
<1>0. LogTypes /\ RowsInv /\ NotedInv /\ PagesWhole /\ WindowsWhole /\ DifferencesWhole
      BY DEF LogInv
<1>1. /\ caught' = caught \cup Idents(listed)
           \cup Idents({r \in window \ listed : \A other \in listed : Before(other, r)})
      /\ until' = minute
      /\ UNCHANGED <<minute, logged, opened, noted, broken, offset, owed>>
      BY DEF ReadLogs
<1>2. minute \in Nat /\ until \in Int
      BY <1>0 DEF LogTypes
<1>3. LogTypes'
      BY <1>0, <1>1, <1>2 DEF LogTypes
<1>4. RowsInv'
      BY <1>0, <1>1 DEF RowsInv
<1>5. NotedInv'
      BY <1>0, <1>1 DEF NotedInv, SetLast, RowsOf
<1>6. PagesWhole'
      BY <1>0, <1>1 DEF PagesWhole, Behind, Before
<1>7. WindowsWhole'
  <2> SUFFICES ASSUME NEW r \in logged, r.at < minute PROVE r.id \in caught' \/ r.late
      BY <1>1 DEF WindowsWhole
  <2>1. CASE r.at < until
        BY <1>0, <1>1, <2>1 DEF WindowsWhole
  <2>2. CASE ~(r.at < until)
    <3>1. Max({until, 0}) = IF until >= 0 THEN until ELSE 0
      <4>1. 0 \in Int
            OBVIOUS
      <4>2. QED BY <1>2, <4>1, MaxOfTwo
    <3>2. r \in window
          BY <1>0, <1>2, <2>2, <3>1 DEF AgentOperationalLogs, RowsInv
    <3>3. window \in SUBSET logged /\ listed \subseteq window
          BY DEF AgentOperationalLogs, Newest1
    <3>4. CASE r \in listed
          BY <1>1, <3>4 DEF Idents
    <3>5. CASE r \notin listed
      <4>1. \A other \in listed : Before(other, r)
            BY <1>0, <3>2, <3>3, <3>5, LeftOutIsBehind
      <4> HIDE DEF window, listed
      <4>2. r \in {q \in window \ listed : \A other \in listed : Before(other, q)}
            BY <3>2, <3>5, <4>1
      <4>3. QED BY <1>1, <4>2 DEF Idents
    <3>6. QED BY <3>4, <3>5
  <2>3. QED BY <2>1, <2>2
<1>8. DifferencesWhole'
      BY <1>0, <1>1 DEF DifferencesWhole, SetBefore, Earlier
<1>9. QED BY <1>3, <1>4, <1>5, <1>6, <1>7, <1>8 DEF LogInv

\* A reader that pages misses nothing of what was there at first, one that
\* asks for the time since only late rows and rows beyond the limit, and the
\* differences add up (settings.py:271, agent.py:171, goodwe_bridge.py:653),
\* for any number of rows, pages and minutes.
THEOREM LogStaysWhole == LogSpec => []LogsAreWhole
<1>1. LogInv /\ [LogNext]_logVars => LogInv'
  <2> SUFFICES ASSUME LogInv, [LogNext]_logVars PROVE LogInv'
      OBVIOUS
  <2>0. LogTypes /\ NotedInv
        BY DEF LogInv
  <2>1. CASE MinutePasses
    <3>1. /\ minute' = minute + 1 /\ minute \in Nat
          /\ UNCHANGED <<logged, opened, noted, broken, offset, owed, until, caught>>
          BY <2>0, <2>1 DEF MinutePasses, readerVars, LogTypes
    <3>2. LogTypes'
          BY <2>0, <3>1 DEF LogTypes
    <3>3. NotedInv'
          BY <2>0, <3>1 DEF NotedInv, SetLast, RowsOf
    <3>4. QED BY <3>1, <3>2, <3>3, LogFrame
  <2>2. CASE UNCHANGED logVars
    <3>1. UNCHANGED <<minute, logged, opened, noted, broken, offset, owed, until, caught>>
          BY <2>2 DEF logVars
    <3>2. LogTypes'
          BY <2>0, <3>1 DEF LogTypes
    <3>3. NotedInv'
          BY <2>0, <3>1 DEF NotedInv, SetLast, RowsOf
    <3>4. QED BY <2>0, <3>1, <3>2, <3>3, LogFrame DEF LogTypes
  <2>3. QED BY <2>1, <2>2, TransactionsKeepLog, InsertionKeepsLog, PageKeepsLog, WindowKeepsLog DEF LogNext
<1>2. LogInv => LogsAreWhole
      BY DEF LogInv, LogsAreWhole, PagesWhole, WindowsWhole, DifferencesWhole
<1>3. QED BY LogInvInit, <1>1, <1>2, PTL DEF LogSpec
=============================================================================
