SPECIFICATION MCSpec
CONSTANTS
    StartW = 1
    StopW = 0
    DischargeStartW <- MCDischargeStartW
    DischargeStopW <- MCDischargeStopW
    StartDuration = 1
    StopDuration = 0
    Cooldown = 1
    PauseDurations = {}
    GridSamples <- MCGridSamples
    BatteryPowers = {}
    SocLevels = {1,3}
    SocLimits <- MCFixedLimits
    FullCycleCeiling = 4
    Fridays = {FALSE}
    Overrides <- MCWithoutDischarge
    Statuses = {"online", "offline"}
    Heartbeats = {"stale"}
    MaxChargeW = 1
    MaxDischargeW = 1
    MinTargetChangeW = 1
    GridDeadbandW = 0
    BalanceStepW = 1
    MaxBalanceStepW = 1
    GainDivisor = 1
    MaxTasks = 1
    SetpointWatts <- MCSetpointWatts
    PowersRead = {200}
    InverterMaxW = 5000
    LimitMinChangeW = 150
    SettlePowerW = 100
    Interval = 1
    Refresh = 2
    Faults = {"modbus", "api", "restart"}
    MaxCoroutines = 2
INVARIANTS
    BridgeTypeOK CopiesAgree RegistersAreOnePair AcceptedCommandIsInForce NeverForcedBothWays
PROPERTIES
    LimitsAreEnforced StaleBridgeStops CommandsFollowTargets
