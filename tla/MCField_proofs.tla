---------------------------- MODULE MCField_proofs ----------------------------
(***************************************************************************)
(* The scenes of MCField: each moves the variables of one program and      *)
(* leaves the others alone, so that a behaviour of the scenes is one of    *)
(* every program, and what is proved of the programs holds in their        *)
(* scenes, whatever the constants.                                         *)
(***************************************************************************)
EXTENDS MCField, Api_proofs

sceneVars == <<fieldVars, apiVars, bridgeVars, answerVars, scene, adopted>>

LEMMA FieldStep ==
    ASSUME [MCNext]_sceneVars
    PROVE  [ControllerNext]_controllerVars
<1>1. CASE FieldScenes
      BY <1>1 DEF FieldScenes
<1>2. CASE ApiScenes \/ BridgeScenes \/ AnswerScenes
      BY <1>2 DEF ApiScenes, BridgeScenes, AnswerScenes, fieldVars
<1>3. CASE UNCHANGED sceneVars
      BY <1>3 DEF sceneVars, fieldVars
<1>4. QED BY <1>1, <1>2, <1>3 DEF MCNext

LEMMA ApiStep ==
    ASSUME [MCNext]_sceneVars
    PROVE  /\ [DeskNext]_deskVars /\ [CacheNext]_cacheVars /\ [MailNext]_mailVars
           /\ [ViewNext]_viewVars /\ [PlanNext]_planVars
<1>1. CASE ApiScenes
      BY <1>1 DEF ApiScenes
<1>2. CASE FieldScenes \/ BridgeScenes \/ AnswerScenes
      BY <1>2 DEF FieldScenes, BridgeScenes, AnswerScenes, apiVars
<1>3. CASE UNCHANGED sceneVars
      BY <1>3 DEF sceneVars, apiVars
<1>4. QED BY <1>1, <1>2, <1>3 DEF MCNext

LEMMA BridgeStep ==
    ASSUME [MCNext]_sceneVars
    PROVE  [ReportNext]_reportVars /\ [LogNext]_logVars
<1>1. CASE BridgeScenes
      BY <1>1 DEF BridgeScenes
<1>2. CASE FieldScenes \/ ApiScenes \/ AnswerScenes
      BY <1>2 DEF FieldScenes, ApiScenes, AnswerScenes, bridgeVars
<1>3. CASE UNCHANGED sceneVars
      BY <1>3 DEF sceneVars, bridgeVars
<1>4. QED BY <1>1, <1>2, <1>3 DEF MCNext

LEMMA AnswerStep ==
    ASSUME [MCNext]_sceneVars
    PROVE  [SettingNext]_settingVars /\ [DryadNext]_dryadVars
<1>1. CASE AnswerScenes
      BY <1>1 DEF AnswerScenes
<1>2. CASE FieldScenes \/ ApiScenes \/ BridgeScenes
      BY <1>2 DEF FieldScenes, ApiScenes, BridgeScenes, answerVars
<1>3. CASE UNCHANGED sceneVars
      BY <1>3 DEF sceneVars, answerVars
<1>4. QED BY <1>1, <1>2, <1>3 DEF MCNext

LEMMA SceneIsAllPrograms ==
    MCSpec => /\ ControllerSpec /\ DeskSpec /\ CacheSpec /\ MailSpec
              /\ ViewSpec /\ PlanSpec /\ ReportSpec /\ LogSpec /\ SettingSpec /\ DryadSpec
<1>1. MCInit => /\ ControllerInit /\ DeskInit /\ CacheInit /\ MailInit
                /\ ViewInit /\ PlanInit /\ ReportInit /\ LogInit /\ SettingInit /\ DryadInit
      BY DEF MCInit
<1>2. MCSpec => MCInit /\ [][MCNext]_sceneVars
      BY DEF MCSpec, sceneVars
<1>3. [MCNext]_sceneVars =>
        /\ [ControllerNext]_controllerVars
        /\ [DeskNext]_deskVars /\ [CacheNext]_cacheVars /\ [MailNext]_mailVars
        /\ [ViewNext]_viewVars /\ [PlanNext]_planVars
        /\ [ReportNext]_reportVars /\ [LogNext]_logVars
        /\ [SettingNext]_settingVars /\ [DryadNext]_dryadVars
      BY FieldStep, ApiStep, BridgeStep, AnswerStep
<1>4. QED BY <1>1, <1>2, <1>3, PTL
          DEF ControllerSpec, DeskSpec, CacheSpec, MailSpec, ViewSpec, PlanSpec,
              ReportSpec, LogSpec, SettingSpec, DryadSpec

\* No command of the first controller breaks a limit (see
\* CommandsStayInLimits).
THEOREM LimitsStayObeyed == MCSpec => []LimitsAreObeyed
<1>1. CommandsObeyTheLimits => LimitsAreObeyed
      BY DEF LimitsAreObeyed
<1>2. QED BY <1>1, SceneIsAllPrograms, CommandsStayInLimits, PTL

\* The stored settings of the battery are in order, and the other routes leave
\* the table, the broker and the log level in agreement but for the listed
\* overlaps (see SettingsStayInOrder, SettingsStaySettled).
THEOREM SettingsStayKept == MCSpec => []SettingsAreKept
<1>1. SettingsInOrder /\ SettingsAreSettled => SettingsAreKept
      BY DEF SettingsAreKept
<1>2. QED BY <1>1, SceneIsAllPrograms, SettingsStayInOrder, SettingsStaySettled, PTL

\* The status that is shown is the last one, and a bridge that is well is
\* not taken for stale (see CacheCatchesUp, HeartbeatsStayFresh).
THEOREM StatusesStayCurrent == MCSpec => []StatusesAreCurrent
<1>1. StatusIsCurrent /\ HeartbeatsKeepUp => StatusesAreCurrent
      BY DEF StatusesAreCurrent
<1>2. QED BY <1>1, SceneIsAllPrograms, CacheCatchesUp, HeartbeatsStayFresh, PTL

\* The mailbox and the log are whole (see ThreadsStayWhole, LogStaysWhole).
THEOREM RecordsStayWhole == MCSpec => []RecordsAreWhole
<1>1. ThreadsAreWhole /\ LogsAreWhole => RecordsAreWhole
      BY DEF RecordsAreWhole
<1>2. QED BY <1>1, SceneIsAllPrograms, ThreadsStayWhole, LogStaysWhole, PTL

\* The plan that is shown and what Dryad answers are of the present (see
\* PlansStayAgreed, DryadStaysRecent).
THEOREM ViewsStayRecent == MCSpec => []ViewsAreRecent
<1>1. PlanViewsAgree /\ DryadIsRecent => ViewsAreRecent
      BY DEF ViewsAreRecent
<1>2. QED BY <1>1, SceneIsAllPrograms, PlansStayAgreed, DryadStaysRecent, PTL
=============================================================================
