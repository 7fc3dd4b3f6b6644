------------------------------- MODULE MCField -------------------------------
(***************************************************************************)
(* The programs around the strategy, checked one per scene: the first      *)
(* charge controller, the MQTT client of the services, the ingestion, the  *)
(* reports and the log of the inverter bridge, the renewal of the token of *)
(* the solar gateway, and of the API the overrides and settings, the       *)
(* status cache, the mailbox and the views.  The scenes share no state,    *)
(* and each moves its own only.                                            *)
(***************************************************************************)
EXTENDS ChargeController, MqttClient, Ingestion, OverrideDesk, StatusCache,
        AgentMailbox, EnergyViews, PlanViews, BridgeReports, TokenRefresh, SettingsRoutes, ControlLog, DryadViews, TLC

CONSTANTS Scenes, MaxModes

MCSettings == [gridTarget |-> 0, rampFloor |-> 1, rampCeiling |-> 2, rampHold |-> 1, maxCharge |-> 2,
    maxDischarge |-> 3, jitter |-> 1, floor |-> 20, ceiling |-> 90, debounce |-> 1, richGhi |-> 2, poorGhi |-> 1]
MCOverrides == {[floor |-> 0, ceiling |-> 50, lasts |-> 1], [floor |-> 60, ceiling |-> 60, lasts |-> 1]}
MCBatteryPowers == {-1}
MCGridPowers == {-2, 3}

Order(what, watts, lasts, exempt) == [mode |-> what, watts |-> watts, lasts |-> lasts, exempt |-> exempt]
MCOrders == {Order("force_charge", 2, 1, TRUE), Order("pause", 0, 1, FALSE), Order("force_discharge", 1, NoEnd, FALSE)}
MCFirstSettings == [start_w |-> 3, stop_w |-> 2, soc_floor |-> 2, soc_ceiling |-> 9,
    max_charge_w |-> 3, max_charge_a |-> 1, nominal_v |-> 2, max_discharge_w |-> 3,
    inverter_poll_interval_s |-> 2, goodwe_poll_interval_grace_s |-> 1]
MCUpdates == {[soc_floor |-> 8], [soc_ceiling |-> 5, inverter_poll_interval_s |-> 1], [stop_w |-> 3, start_w |-> 2]}
MCRanges == [k \in DOMAIN MCFirstSettings |-> <<0, 100>>]

MCNone == -999
\* The meter tells both directions, one of them, the net power only, or
\* nothing; the battery what it moves, what it was told to, or nothing.
Measured(delivered, returned, netted, battery, ordered, sun, said) ==
    [delivered |-> delivered, returned |-> returned, net |-> netted, power |-> battery, discharge |-> ordered,
     setpoint |-> IF ordered = MCNone THEN 10 ELSE MCNone, solar |-> sun, word |-> said, control |-> "IDLE"]
MCTelemetries ==
    {Measured(5, 0, 5, -40, 10, 36, "other"), Measured(0, 50, -50, 40, MCNone, 21, "other"),
     Measured(MCNone, MCNone, 8, MCNone, MCNone, MCNone, "charge"), Measured(MCNone, MCNone, MCNone, MCNone, 0, 21, "other"),
     Measured(0, 50, MCNone, MCNone, 10, 21, "discharge")}

Slot(end, pv, load) == [soc |-> end, pv |-> pv, load |-> load]
MCSlotPlans == {[soc |-> 50, slots |-> <<Slot(60, 3, 1), Slot(55, 0, 1), Slot(50, 0, 2)>>],
                [soc |-> 40, slots |-> <<Slot(40, 1, 1), Slot(45, 2, 1)>>]}

MCAnswers == {[watts |-> 1, code |-> 7, label |-> "none"]}
MCLogTargets == {<<1, 0>>}

\* 1 poll_time_local, 2 retry_attempts, 3 debug_logging
MCChanges == {1 :> 1 @@ 2 :> 0, 1 :> 0 @@ 2 :> 2, 1 :> Null, 3 :> 1, 3 :> 0}
MCLimits == [k \in 1..3 |-> <<0, 1>>]
MCDefault == [k \in 1..3 |-> 0]

MCMaxAges == [curves |-> 1, soc |-> 0]
MCItemSources == [autarky |-> {"curves"}, soc |-> {"soc"}]
MCTariffs == {0 :> 2 @@ 1 :> 3 @@ 2 :> 1}

VARIABLES scene, adopted   \* adopted: how many modes the controller was given

Rarely == (mode' # mode /\ decision' = decision) => adopted < MaxModes
Adoptions == IF mode' # mode /\ decision' = decision THEN adopted + 1 ELSE adopted

fieldVars == <<controllerVars, mqttVars, ingestionVars>>
apiVars == <<deskVars, cacheVars, mailVars, viewVars, planVars>>
bridgeVars == <<reportVars, tokenVars, logVars>>
answerVars == <<settingVars, dryadVars>>

\* What is open at first is open in its scene only.
MCOpenInit ==
    /\ scene # "views" => reading = CHOOSE t \in Telemetries : TRUE
    /\ scene # "reports" => storedInterval = NeverHeard
    /\ scene # "log" => consumer = "pages"

MCInit ==
    /\ ControllerInit /\ MqttInit /\ IngestionInit
    /\ DeskInit /\ CacheInit /\ MailInit /\ ViewInit /\ PlanInit
    /\ ReportInit /\ TokenInit /\ LogInit /\ SettingInit /\ DryadInit
    /\ scene \in Scenes /\ MCOpenInit /\ adopted = 0

FieldScenes ==
    /\ scene \in {"controller", "client", "ingestion"}
    /\ \/ /\ scene = "controller" /\ ControllerNext /\ Rarely /\ adopted' = Adoptions
          /\ UNCHANGED <<mqttVars, ingestionVars>>
       \/ scene = "client" /\ MqttNext /\ UNCHANGED <<controllerVars, ingestionVars, adopted>>
       \/ scene = "ingestion" /\ IngestionNext /\ UNCHANGED <<controllerVars, mqttVars, adopted>>
    /\ UNCHANGED <<apiVars, bridgeVars, answerVars>>

ApiScenes ==
    /\ scene \in {"desk", "status", "mailbox", "views", "plans"}
    /\ \/ scene = "desk" /\ DeskNext /\ UNCHANGED <<cacheVars, mailVars, viewVars, planVars>>
       \/ scene = "status" /\ CacheNext /\ UNCHANGED <<deskVars, mailVars, viewVars, planVars>>
       \/ scene = "mailbox" /\ MailNext /\ UNCHANGED <<deskVars, cacheVars, viewVars, planVars>>
       \/ scene = "views" /\ ViewNext /\ UNCHANGED <<deskVars, cacheVars, mailVars, planVars>>
       \/ scene = "plans" /\ PlanNext /\ UNCHANGED <<deskVars, cacheVars, mailVars, viewVars>>
    /\ UNCHANGED <<fieldVars, bridgeVars, answerVars, adopted>>

BridgeScenes ==
    /\ scene \in {"reports", "tokens", "log"}
    /\ \/ scene = "reports" /\ ReportNext /\ UNCHANGED <<tokenVars, logVars>>
       \/ scene = "tokens" /\ TokenNext /\ UNCHANGED <<reportVars, logVars>>
       \/ scene = "log" /\ LogNext /\ UNCHANGED <<reportVars, tokenVars>>
    /\ UNCHANGED <<fieldVars, apiVars, answerVars, adopted>>

AnswerScenes ==
    /\ scene \in {"settings", "dryad"}
    /\ \/ scene = "settings" /\ SettingNext /\ UNCHANGED dryadVars
       \/ scene = "dryad" /\ DryadNext /\ UNCHANGED settingVars
    /\ UNCHANGED <<fieldVars, apiVars, bridgeVars, adopted>>

MCNext == (FieldScenes \/ ApiScenes \/ BridgeScenes \/ AnswerScenes) /\ UNCHANGED scene

MCSpec == MCInit /\ [][MCNext]_<<fieldVars, apiVars, bridgeVars, answerVars, scene, adopted>>

(***************************************************************************)
(* The properties of a scene are looked at in that scene; what two scenes  *)
(* say of one part of the system is one property.                          *)
(***************************************************************************)

\* No command of the first controller breaks a limit (ChargeController.tla).
LimitsAreObeyed == scene = "controller" => CommandsObeyTheLimits

\* The settings of the battery that are stored are in order, and the time
\* after which a bridge is stale is the sum of its parts unless two updates
\* overlapped (OverrideDesk.tla); the other routes leave the table, the broker
\* and the log level in agreement (SettingsRoutes.tla).
SettingsAreKept ==
    (scene = "desk" => SettingsInOrder) /\ (scene = "settings" => SettingsAreSettled)

\* The status that is shown is the last one (StatusCache.tla), and a bridge
\* that is well is not taken for stale by those that know how often it
\* reports (BridgeReports.tla).
StatusesAreCurrent ==
    (scene = "status" => StatusIsCurrent) /\ (scene = "reports" => HeartbeatsKeepUp)

\* The mailbox and the log are whole (AgentMailbox.tla, ControlLog.tla).
RecordsAreWhole == (scene = "mailbox" => ThreadsAreWhole) /\ (scene = "log" => LogsAreWhole)

\* The plan and what Dryad answers are of the present (PlanViews.tla,
\* DryadViews.tla).
ViewsAreRecent == (scene = "plans" => PlanViewsAgree) /\ (scene = "dryad" => DryadIsRecent)
=============================================================================
