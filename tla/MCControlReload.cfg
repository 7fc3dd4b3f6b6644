SPECIFICATION Spec
CONSTANTS
    StartW = 1
    StopW = 0
    DischargeStartW <- MCDischargeStartW
    DischargeStopW <- MCDischargeStopW
    StartDuration = 1
    StopDuration = 0
    Cooldown = 1
    PauseDurations = {}
    GridSamples <- MCGridSamples
    BatteryPowers = {1}
    SocLevels = {3}
    SocLimits <- MCMovingLimits
    FullCycleCeiling = 4
    Fridays = {TRUE, FALSE}
    Overrides <- MCForcedDischarge
    Statuses = {"online"}
    Heartbeats = {}
    MaxChargeW = 1
    MaxDischargeW = 1
    MinTargetChangeW = 1
    GridDeadbandW = 0
    BalanceStepW = 1
    MaxBalanceStepW = 1
    GainDivisor = 1
    MaxTasks = 2
PROPERTY ReloadStopsForbidden
